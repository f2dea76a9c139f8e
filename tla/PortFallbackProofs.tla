-------------------------- MODULE PortFallbackProofs --------------------------
(***************************************************************************)
(* Start's report, its window of ports and its sockets, for every number   *)
(* of servers, ports and attempts.                                         *)
(***************************************************************************)
EXTENDS PortFallback, TLAPS

\* A server's sockets: how many Start and Impl know of.
Held(s) == (IF sock[s] # INVALID_SOCKET THEN 1 ELSE 0)
           + (IF listenSocket[s] # INVALID_SOCKET THEN 1 ELSE 0)

\* What each point of Start knows of the sockets.  A refused start may have
\* lost one, so the count is only bounded from below.
SocketsOf(s) ==
  /\ startPc[s] \in {"idle", "try"} <=> sock[s] = INVALID_SOCKET
  /\ startPc[s] = "bind" => sock[s] = 0
  /\ startPc[s] = "listen" => sock[s] \in Ports
  /\ startPc[s] # "idle" => ~running[s] /\ listenSocket[s] = INVALID_SOCKET
  /\ listenSocket[s] # INVALID_SOCKET => running[s] /\ listenSocket[s] \in Ports
  /\ open[s] >= Held(s)

SocketInv == \A s \in Servers : SocketsOf(s)

-----------------------------------------------------------------------------

\* The sets of ports and sockets: what contains what.
LEMMA SetFacts ==
  /\ Ports \subseteq AnyPort /\ 0 \in AnyPort /\ AnyPort \subseteq Nat
  /\ AnyPort \subseteq Sockets /\ INVALID_SOCKET \in Sockets
  /\ INVALID_SOCKET \notin AnyPort
  /\ 0 \notin Ports
  /\ \A s \in Servers : InitialPorts[s] \subseteq AnyPort /\ AttemptLimits[s] \subseteq Nat
  BY PortAssumption DEF Ports, AnyPort, Sockets

\* Each step of the search keeps the locals of Start, and a failure gives a
\* report, of their types: an attempt stays a port because HasCandidate says so.
LEMMA CallTypes ==
  ASSUME NEW c \in Calls
  PROVE  /\ HasCandidate(c) => Attempted(c) \in Calls
         /\ Conflicted(c) \in Calls
         /\ \A exhausted \in BOOLEAN : Failure(c, exhausted) \in Reports
<1>1. HasCandidate(c) => Attempted(c) \in Calls
  <2>1. c.port \in Nat /\ c.attempts \in Nat
    BY SetFacts DEF Calls
  <2>2. HasCandidate(c) => Candidate(c) \in AnyPort
    BY <2>1, PortAssumption DEF HasCandidate, Candidate, AnyPort
  <2>3. c.attempts + 1 \in Nat
    BY <2>1
  <2>4. QED
    BY <2>2, <2>3 DEF Calls, Attempted
<1>2. Conflicted(c) \in Calls
  BY DEF Calls, Conflicted
<1>3. \A exhausted \in BOOLEAN : Failure(c, exhausted) \in Reports
  BY SetFacts DEF Calls, Failure, Reports
<1>4. QED
  BY <1>1, <1>2, <1>3

\* Start sets its locals and resolves max_port_attempts to values of their types.
LEMMA NewCallTypes ==
  \A port \in AnyPort, limit \in Nat :
    NewCall(port, limit) \in Calls /\ ResolveMaxPortAttempts(limit) \in Nat
  BY SetFacts, PortAssumption DEF NewCall, Calls, ResolveMaxPortAttempts

\* SocketInv is what keeps the count of sockets from going below zero.
Sound == TypeOK /\ SocketInv

\* A machine on which no server was started is sound.
LEMMA SoundInit == Init => Sound
<1> SUFFICES ASSUME Init PROVE Sound
  OBVIOUS
<1>1. call \in [Servers -> Calls]
  BY NewCallTypes, SetFacts DEF Init
<1>2. report \in [Servers -> Reports]
  <2>1. NoReport \in Reports
    BY SetFacts DEF NoReport, Reports
  <2>2. QED
    BY <2>1 DEF Init
<1>3. /\ startPc \in [Servers -> StartPcs] /\ boundPort \in [Servers -> AnyPort]
      /\ sock \in [Servers -> Sockets] /\ listenSocket \in [Servers -> Sockets]
  BY SetFacts DEF Init, StartPcs
<1>4. /\ wsa \in [Servers -> BOOLEAN] /\ running \in [Servers -> BOOLEAN]
      /\ open \in [Servers -> Nat] /\ owner \in [Ports -> Owners]
  BY DEF Init, Owners
<1>5. SocketInv
  <2> SUFFICES ASSUME NEW s \in Servers PROVE SocketsOf(s)
    BY DEF SocketInv
  <2>1. /\ startPc[s] = "idle" /\ sock[s] = INVALID_SOCKET
        /\ listenSocket[s] = INVALID_SOCKET /\ open[s] = 0
    BY DEF Init
  <2>2. Held(s) = 0
    BY <2>1 DEF Held
  <2>3. QED
    BY <2>1, <2>2 DEF SocketsOf
<1>6. QED
  BY <1>1, <1>2, <1>3, <1>4, <1>5 DEF Sound, TypeOK

\* No call of Start or Stop, and nothing other processes do to the ports, takes
\* a variable out of its type; the count of sockets never goes below zero.
LEMMA TypeStep == Sound /\ [Next]_vars => TypeOK'
<1> SUFFICES ASSUME Sound, [Next]_vars PROVE TypeOK'
  OBVIOUS
<1>a. TypeOK /\ SocketInv
  BY DEF Sound
<1>b. \A s, pc : pc \in StartPcs => [startPc EXCEPT ![s] = pc] \in [Servers -> StartPcs]
  BY <1>a DEF TypeOK
<1>c. "idle" \in StartPcs /\ "try" \in StartPcs /\ "bind" \in StartPcs /\ "listen" \in StartPcs
  BY DEF StartPcs
<1>d. \A s \in Servers : Released(s) =>
         /\ listenSocket' \in [Servers -> Sockets]
         /\ boundPort' \in [Servers -> AnyPort]
         /\ wsa' \in [Servers -> BOOLEAN]
  BY <1>a, SetFacts DEF Released, TypeOK
<1>e. \A s \in Servers : CloseLocal(s) /\ sock[s] # INVALID_SOCKET =>
         sock' \in [Servers -> Sockets] /\ open' \in [Servers -> Nat]
  BY <1>a, SetFacts DEF CloseLocal, SocketInv, SocketsOf, Held, TypeOK
<1>f. \A s \in Servers : \A r \in Reports : [report EXCEPT ![s] = r] \in [Servers -> Reports]
  BY <1>a DEF TypeOK
<1>g. \A s \in Servers : \A c \in Calls : [call EXCEPT ![s] = c] \in [Servers -> Calls]
  BY <1>a DEF TypeOK
<1>h. \A s \in Servers : call[s] \in Calls
  BY <1>a DEF TypeOK
<1>1. ASSUME NEW s \in Servers, NEW port \in InitialPorts[s], StartRefused(s, port)
      PROVE TypeOK'
  <2>1. Failure(NewCall(port, 0), FALSE) \in Reports
    BY CallTypes, NewCallTypes, SetFacts
  <2>2. /\ listenSocket' \in [Servers -> Sockets]
        /\ boundPort' \in [Servers -> AnyPort]
    BY <1>1, <1>a, SetFacts DEF StartRefused, TypeOK
  <2>3. QED
    BY <1>1, <1>a, <1>b, <1>c, <1>f, <2>1, <2>2 DEF StartRefused, Moves, TypeOK
<1>2. ASSUME NEW s \in Servers, NEW port \in InitialPorts[s], StartRejected(s, port)
      PROVE TypeOK'
  <2>1. Failure(NewCall(port, 0), FALSE) \in Reports
    BY CallTypes, NewCallTypes, SetFacts
  <2>2. QED
    BY <1>2, <1>a, <1>b, <1>c, <1>d, <1>f, <2>1 DEF StartRejected, Moves, TypeOK
<1>3. ASSUME NEW s \in Servers, NEW port \in InitialPorts[s], NEW limit \in AttemptLimits[s],
             StartSearch(s, port, limit)
      PROVE TypeOK'
  <2>1. NewCall(port, ResolveMaxPortAttempts(limit)) \in Calls
    BY NewCallTypes, SetFacts
  <2>2. /\ listenSocket' \in [Servers -> Sockets]
        /\ boundPort' \in [Servers -> AnyPort]
        /\ wsa' \in [Servers -> BOOLEAN]
    BY <1>3, <1>a, SetFacts DEF StartSearch, TypeOK
  <2>3. QED
    BY <1>3, <1>a, <1>b, <1>c, <1>g, <2>1, <2>2 DEF StartSearch, Moves, TypeOK
<1>4. ASSUME NEW s \in Servers, TryPort(s) PROVE TypeOK'
  <2>1. Attempted(call[s]) \in Calls
    BY <1>4, <1>h, CallTypes DEF TryPort
  <2>2. sock' \in [Servers -> Sockets] /\ open' \in [Servers -> Nat]
    BY <1>4, <1>a, SetFacts DEF TryPort, TypeOK
  <2>3. QED
    BY <1>4, <1>a, <1>b, <1>c, <1>g, <2>1, <2>2 DEF TryPort, Moves, impl, TypeOK
<1>5. ASSUME NEW s \in Servers, SocketFails(s) PROVE TypeOK'
  <2>1. Attempted(call[s]) \in Calls /\ call' = [call EXCEPT ![s] = Attempted(call[s])]
    BY <1>5, <1>h, CallTypes DEF SocketFails
  <2>2. call' \in [Servers -> Calls] /\ call'[s] \in Calls
    BY <2>1, <1>g
  <2>3. Failure(call'[s], FALSE) \in Reports
    BY <2>2, CallTypes
  <2>4. QED
    BY <1>5, <1>a, <1>b, <1>c, <1>d, <1>f, <2>2, <2>3 DEF SocketFails, Moves, TypeOK
<1>6. ASSUME NEW s \in Servers, GiveUp(s) PROVE TypeOK'
  <2>1. Failure(call[s], Exhausted(call[s])) \in Reports
    BY <1>h, CallTypes DEF Exhausted
  <2>2. QED
    BY <1>6, <1>a, <1>b, <1>c, <1>d, <1>f, <2>1 DEF GiveUp, Moves, TypeOK
<1>7. ASSUME NEW s \in Servers, Bind(s) PROVE TypeOK'
  <2>1. PICK p \in Ports : /\ sock' = [sock EXCEPT ![s] = p]
                           /\ owner' = [owner EXCEPT ![p] = s]
    BY <1>7 DEF Bind, Bindable
  <2>2. sock' \in [Servers -> Sockets] /\ owner' \in [Ports -> Owners]
    BY <2>1, <1>a, SetFacts DEF TypeOK, Owners
  <2>3. QED
    BY <1>7, <1>a, <1>b, <1>c, <2>2 DEF Bind, Moves, impl, TypeOK
<1>8. ASSUME NEW s \in Servers, BindConflicts(s) PROVE TypeOK'
  <2>1. Conflicted(call[s]) \in Calls
    BY <1>h, CallTypes
  <2>2. sock' \in [Servers -> Sockets] /\ open' \in [Servers -> Nat]
    BY <1>8, <1>a, <1>e DEF BindConflicts, Moves, SocketInv, SocketsOf
  <2>3. QED
    BY <1>8, <1>a, <1>b, <1>c, <1>g, <2>1, <2>2 DEF BindConflicts, Moves, impl, TypeOK
<1>9. ASSUME NEW s \in Servers, BindFails(s) PROVE TypeOK'
  <2>1. Failure(call[s], FALSE) \in Reports
    BY <1>h, CallTypes
  <2>2. sock' \in [Servers -> Sockets] /\ open' \in [Servers -> Nat]
    BY <1>9, <1>a, <1>e DEF BindFails, Moves, SocketInv, SocketsOf
  <2>3. QED
    BY <1>9, <1>a, <1>b, <1>c, <1>d, <1>f, <2>1, <2>2 DEF BindFails, Moves, TypeOK
<1>10. ASSUME NEW s \in Servers, ListenFails(s) PROVE TypeOK'
  <2>1. Failure(call[s], FALSE) \in Reports
    BY <1>h, CallTypes
  <2>2. sock' \in [Servers -> Sockets] /\ open' \in [Servers -> Nat]
    BY <1>10, <1>a, <1>e DEF ListenFails, Moves, SocketInv, SocketsOf
  <2>3. owner' \in [Ports -> Owners]
    BY <1>10, <1>a DEF ListenFails, TypeOK, Owners
  <2>4. QED
    BY <1>10, <1>a, <1>b, <1>c, <1>d, <1>f, <2>1, <2>2, <2>3
       DEF ListenFails, Moves, TypeOK
<1>11. ASSUME NEW s \in Servers, Listen(s) PROVE TypeOK'
  <2>1. sock[s] \in AnyPort /\ call[s].last \in AnyPort
    BY <1>11, <1>a, <1>h, SetFacts DEF Listen, Moves, SocketInv, SocketsOf, Calls
  <2>2. /\ listenSocket' \in [Servers -> Sockets]
        /\ sock' \in [Servers -> Sockets]
        /\ running' \in [Servers -> BOOLEAN]
    BY <1>11, <1>a, <2>1, SetFacts DEF Listen, TypeOK
  <2>3. boundPort' \in [Servers -> AnyPort]
    BY <1>11, <1>a, <2>1 DEF Listen, TypeOK
  <2>4. PICK bound \in {sock[s], call[s].last} : report' = [report EXCEPT ![s] =
            [result |-> "started", initial |-> call[s].port, last |-> call[s].last,
             bound |-> bound, attempts |-> call[s].attempts,
             conflicts |-> call[s].conflicts,
             fallback |-> call[s].port # 0 /\ bound # call[s].port, exhausted |-> FALSE]]
    BY <1>11 DEF Listen
  <2>5. report' \in [Servers -> Reports]
    BY <2>4, <2>1, <1>f, <1>h DEF Reports, Calls
  <2>6. QED
    BY <1>11, <1>a, <1>b, <1>c, <2>2, <2>3, <2>5 DEF Listen, Moves, TypeOK
<1>12. ASSUME NEW s \in Servers, Stop(s) PROVE TypeOK'
  <2>1. open' \in [Servers -> Nat]
    BY <1>12, <1>a DEF Stop, SocketInv, SocketsOf, Held, TypeOK
  <2>2. owner' \in [Ports -> Owners]
    BY <1>12, <1>a DEF Stop, TypeOK, Owners
  <2>3. /\ listenSocket' \in [Servers -> Sockets]
        /\ running' \in [Servers -> BOOLEAN] /\ wsa' \in [Servers -> BOOLEAN]
    BY <1>12, <1>a, SetFacts DEF Stop, TypeOK
  <2>4. QED
    BY <1>12, <1>a, <1>b, <1>c, <2>1, <2>2, <2>3 DEF Stop, Moves, TypeOK
<1>13. ASSUME NEW p \in Ports, ForeignBind(p) \/ ForeignClose(p) PROVE TypeOK'
  BY <1>13, <1>a DEF ForeignBind, ForeignClose, impl, TypeOK, Owners
<1>14. CASE UNCHANGED vars
  BY <1>14, <1>a DEF vars, TypeOK
<1>15. QED
  BY <1>1, <1>2, <1>3, <1>4, <1>5, <1>6, <1>7, <1>8, <1>9, <1>10, <1>11, <1>12,
     <1>13, <1>14 DEF Next, SearchStep

\* What each point of Start knows of its sockets stays true, of every server
\* whatever another one does.
LEMMA SocketStep == Sound /\ [Next]_vars => SocketInv'
<1> SUFFICES ASSUME Sound, [Next]_vars, NEW t \in Servers PROVE SocketsOf(t)'
  BY DEF SocketInv
<1>a. TypeOK /\ SocketsOf(t)
  BY DEF Sound, SocketInv
<1>b. /\ open[t] \in Nat
      /\ call[t] \in Calls
  BY <1>a DEF TypeOK
<1>c. ASSUME /\ startPc'[t] = startPc[t] /\ sock'[t] = sock[t]
             /\ listenSocket'[t] = listenSocket[t]
             /\ running'[t] = running[t] /\ open'[t] = open[t]
      PROVE SocketsOf(t)'
  BY <1>a, <1>c DEF SocketsOf, Held
<1> USE DEF Moves, Released, CloseLocal, impl
<1>1. ASSUME NEW s \in Servers, NEW port \in InitialPorts[s],
             StartRefused(s, port) \/ StartRejected(s, port)
      PROVE SocketsOf(t)'
  <2>1. CASE StartRefused(s, port)
    BY <2>1, <1>a, <1>b DEF StartRefused, SocketsOf, Held, TypeOK
  <2>2. CASE StartRejected(s, port)
    BY <2>2, <1>a, <1>b DEF StartRejected, SocketsOf, Held, TypeOK
  <2>3. QED
    BY <1>1, <2>1, <2>2
<1>2. ASSUME NEW s \in Servers, NEW port \in InitialPorts[s], NEW limit \in AttemptLimits[s],
             StartSearch(s, port, limit)
      PROVE SocketsOf(t)'
  BY <1>2, <1>a, <1>b DEF StartSearch, SocketsOf, Held, TypeOK
<1>3. ASSUME NEW s \in Servers, TryPort(s) PROVE SocketsOf(t)'
  BY <1>3, <1>a, <1>b, SetFacts DEF TryPort, SocketsOf, Held, TypeOK
<1>4. ASSUME NEW s \in Servers, SocketFails(s) \/ GiveUp(s) PROVE SocketsOf(t)'
  BY <1>4, <1>a, <1>b DEF SocketFails, GiveUp, SocketsOf, Held, TypeOK
<1>5. ASSUME NEW s \in Servers, Bind(s) PROVE SocketsOf(t)'
  <2>1. PICK p \in Ports : sock' = [sock EXCEPT ![s] = p]
    BY <1>5 DEF Bind, Bindable
  <2>2. QED
    BY <1>5, <2>1, <1>a, <1>b, SetFacts DEF Bind, SocketsOf, Held, TypeOK
<1>6. ASSUME NEW s \in Servers, BindConflicts(s) PROVE SocketsOf(t)'
  BY <1>6, <1>a, <1>b, SetFacts DEF BindConflicts, SocketsOf, Held, TypeOK
<1>7. ASSUME NEW s \in Servers, BindFails(s) \/ ListenFails(s) PROVE SocketsOf(t)'
  <2>1. CASE BindFails(s)
    BY <2>1, <1>a, <1>b, SetFacts DEF BindFails, SocketsOf, Held, TypeOK
  <2>2. CASE ListenFails(s)
    BY <2>2, <1>a, <1>b, SetFacts DEF ListenFails, SocketsOf, Held, TypeOK
  <2>3. QED
    BY <1>7, <2>1, <2>2
<1>8. ASSUME NEW s \in Servers, Listen(s) PROVE SocketsOf(t)'
  BY <1>8, <1>a, <1>b, SetFacts DEF Listen, SocketsOf, Held, TypeOK
<1>9. ASSUME NEW s \in Servers, Stop(s) PROVE SocketsOf(t)'
  BY <1>9, <1>a, <1>b, SetFacts DEF Stop, SocketsOf, Held, TypeOK
<1>10. ASSUME NEW p \in Ports, ForeignBind(p) \/ ForeignClose(p) PROVE SocketsOf(t)'
  BY <1>10, <1>c DEF ForeignBind, ForeignClose
<1>11. CASE UNCHANGED vars
  BY <1>11, <1>c DEF vars
<1>12. QED
  BY <1>1, <1>2, <1>3, <1>4, <1>5, <1>6, <1>7, <1>8, <1>9, <1>10, <1>11
     DEF Next, SearchStep

\* The counts of a search: each attempt but the one under way was a conflict,
\* and attempts are the consecutive ports from the asked one on.
SearchOf(s) == LET c == call[s] IN
  /\ startPc[s] = "try" => c.attempts = c.conflicts
  /\ startPc[s] \in {"bind", "listen"} => c.attempts = c.conflicts + 1
  /\ startPc[s] = "listen" /\ c.last # 0 => sock[s] = c.last

WindowOf(s) == LET c == call[s] IN
  c.attempts > 0 =>
    /\ c.attempts <= c.limit
    /\ c.last = c.port + c.attempts - 1
    /\ c.last <= MaxPort

SearchInv == \A s \in Servers : SearchOf(s) /\ WindowOf(s)

IInv == TypeOK /\ SocketInv /\ SearchInv /\ ReportTrue /\ ExhaustedAfterAll

\* The counters of the search stay in step: attempts, conflicts and the last
\* port tried, at every point of the loop in Start.
LEMMA SearchStepKeeps == Sound /\ SearchInv /\ [Next]_vars => SearchInv'
<1> SUFFICES ASSUME Sound, SearchInv, [Next]_vars, NEW t \in Servers
             PROVE (SearchOf(t) /\ WindowOf(t))'
  BY DEF SearchInv
<1>a. TypeOK /\ SocketsOf(t) /\ SearchOf(t) /\ WindowOf(t)
  BY DEF Sound, SocketInv, SearchInv
<1>b. /\ call[t] \in Calls /\ call[t].port \in Nat /\ call[t].last \in Nat
      /\ call[t].attempts \in Nat /\ call[t].conflicts \in Nat /\ call[t].limit \in Nat
      /\ MaxPort \in Nat
  BY <1>a, SetFacts, PortAssumption DEF TypeOK, Calls
<1>c. ASSUME UNCHANGED <<startPc[t], call[t], sock[t]>>
      PROVE (SearchOf(t) /\ WindowOf(t))'
  BY <1>a, <1>c DEF SearchOf, WindowOf
<1>d. ASSUME startPc'[t] = "idle", call'[t] = call[t]
      PROVE (SearchOf(t) /\ WindowOf(t))'
  BY <1>a, <1>d DEF SearchOf, WindowOf
<1> USE DEF Moves, impl
<1>1. ASSUME NEW s \in Servers, NEW port \in InitialPorts[s],
             StartRefused(s, port) \/ StartRejected(s, port)
      PROVE (SearchOf(t) /\ WindowOf(t))'
  BY <1>1, <1>a, <1>c DEF StartRefused, StartRejected, TypeOK
<1>2. ASSUME NEW s \in Servers, NEW port \in InitialPorts[s], NEW limit \in AttemptLimits[s],
             StartSearch(s, port, limit)
      PROVE (SearchOf(t) /\ WindowOf(t))'
  <2>1. CASE s # t
    BY <1>2, <2>1, <1>a, <1>c DEF StartSearch, TypeOK
  <2>2. CASE s = t
    <3>1. startPc'[t] = "try" /\ call'[t].attempts = 0 /\ call'[t].conflicts = 0
      BY <1>2, <2>2, <1>a DEF StartSearch, TypeOK, NewCall
    <3>2. QED
      BY <3>1 DEF SearchOf, WindowOf
  <2>3. QED
    BY <2>1, <2>2
<1>3. ASSUME NEW s \in Servers, TryPort(s) PROVE (SearchOf(t) /\ WindowOf(t))'
  <2>1. CASE s # t
    BY <1>3, <2>1, <1>a, <1>c DEF TryPort, TypeOK
  <2>2. CASE s = t
    <3>1. /\ startPc[t] = "try" /\ startPc'[t] = "bind"
          /\ call'[t] = Attempted(call[t]) /\ HasCandidate(call[t])
      BY <1>3, <2>2, <1>a DEF TryPort, TypeOK
    <3>2. /\ call'[t].attempts = call[t].attempts + 1
          /\ call'[t].last = call[t].port + call[t].attempts
          /\ call'[t].port = call[t].port /\ call'[t].limit = call[t].limit
          /\ call'[t].conflicts = call[t].conflicts
      BY <3>1, <1>b DEF Attempted, Candidate, Calls
    <3>3. QED
      BY <3>1, <3>2, <1>a, <1>b DEF SearchOf, WindowOf, HasCandidate, Candidate
  <2>3. QED
    BY <2>1, <2>2
<1>4. ASSUME NEW s \in Servers, SocketFails(s) PROVE (SearchOf(t) /\ WindowOf(t))'
  <2>1. CASE s # t
    BY <1>4, <2>1, <1>a, <1>c DEF SocketFails, TypeOK
  <2>2. CASE s = t
    <3>1. /\ startPc[t] = "try" /\ startPc'[t] = "idle"
          /\ call'[t] = Attempted(call[t]) /\ HasCandidate(call[t])
      BY <1>4, <2>2, <1>a DEF SocketFails, TypeOK
    <3>2. /\ call'[t].attempts = call[t].attempts + 1
          /\ call'[t].last = call[t].port + call[t].attempts
          /\ call'[t].port = call[t].port /\ call'[t].limit = call[t].limit
      BY <3>1, <1>b DEF Attempted, Candidate, Calls
    <3>3. QED
      BY <3>1, <3>2, <1>a, <1>b DEF SearchOf, WindowOf, HasCandidate, Candidate
  <2>3. QED
    BY <2>1, <2>2
<1>5. ASSUME NEW s \in Servers,
             GiveUp(s) \/ BindFails(s) \/ ListenFails(s) \/ Listen(s)
      PROVE (SearchOf(t) /\ WindowOf(t))'
  <2>1. CASE s # t
    BY <1>5, <2>1, <1>a, <1>c DEF GiveUp, BindFails, ListenFails, Listen, CloseLocal, TypeOK
  <2>2. CASE s = t
    BY <1>5, <2>2, <1>a, <1>d DEF GiveUp, BindFails, ListenFails, Listen, TypeOK
  <2>3. QED
    BY <2>1, <2>2
<1>6. ASSUME NEW s \in Servers, Bind(s) PROVE (SearchOf(t) /\ WindowOf(t))'
  <2>1. PICK p \in Ports : /\ sock' = [sock EXCEPT ![s] = p]
                           /\ call[s].last = 0 \/ p = call[s].last
    BY <1>6 DEF Bind, Bindable
  <2>2. CASE s # t
    BY <1>6, <2>1, <2>2, <1>a, <1>c DEF Bind, TypeOK
  <2>3. CASE s = t
    BY <1>6, <2>1, <2>3, <1>a DEF Bind, SearchOf, WindowOf, TypeOK
  <2>4. QED
    BY <2>2, <2>3
<1>7. ASSUME NEW s \in Servers, BindConflicts(s) PROVE (SearchOf(t) /\ WindowOf(t))'
  <2>1. CASE s # t
    BY <1>7, <2>1, <1>a, <1>c DEF BindConflicts, CloseLocal, TypeOK
  <2>2. CASE s = t
    <3>1. /\ startPc[t] = "bind" /\ startPc'[t] = "try"
          /\ call'[t] = Conflicted(call[t])
      BY <1>7, <2>2, <1>a DEF BindConflicts, TypeOK
    <3>2. /\ call'[t].conflicts = call[t].conflicts + 1
          /\ call'[t].attempts = call[t].attempts /\ call'[t].last = call[t].last
          /\ call'[t].port = call[t].port /\ call'[t].limit = call[t].limit
      BY <3>1, <1>b DEF Conflicted, Calls
    <3>3. QED
      BY <3>1, <3>2, <1>a, <1>b DEF SearchOf, WindowOf
  <2>3. QED
    BY <2>1, <2>2
<1>8. ASSUME NEW s \in Servers, Stop(s) PROVE (SearchOf(t) /\ WindowOf(t))'
  BY <1>8, <1>a, <1>c DEF Stop, TypeOK
<1>9. ASSUME NEW p \in Ports, ForeignBind(p) \/ ForeignClose(p)
      PROVE (SearchOf(t) /\ WindowOf(t))'
  BY <1>9, <1>c DEF ForeignBind, ForeignClose
<1>10. CASE UNCHANGED vars
  BY <1>10, <1>c DEF vars
<1>11. QED
  BY <1>1, <1>2, <1>3, <1>4, <1>5, <1>6, <1>7, <1>8, <1>9, <1>10 DEF Next, SearchStep

-----------------------------------------------------------------------------
(* What the reports say *)

\* A failure report built from counters in step is a true one.
LEMMA FailuresTrue ==
  ASSUME NEW c \in Calls
  PROVE  /\ c.attempts \in {0, c.conflicts + 1} => TrueReport(Failure(c, FALSE))
         /\ c.attempts = c.conflicts => TrueReport(Failure(c, Exhausted(c)))
<1>1. c.attempts \in Nat /\ c.conflicts \in Nat
  BY DEF Calls
<1>2. \A e \in BOOLEAN :
        /\ Failure(c, e).result = "failed" /\ Failure(c, e).bound = 0
        /\ Failure(c, e).attempts = c.attempts /\ Failure(c, e).conflicts = c.conflicts
        /\ Failure(c, e).exhausted = e
  BY DEF Failure
<1>3. c.attempts \in {0, c.conflicts + 1} => ~Exhausted(c)
  BY <1>1 DEF Exhausted
<1>4. c.attempts = c.conflicts /\ ~Exhausted(c) => c.attempts = 0
  BY <1>1 DEF Exhausted
<1>5. ASSUME c.attempts \in {0, c.conflicts + 1} PROVE TrueReport(Failure(c, FALSE))
  BY <1>2, <1>3, <1>5 DEF TrueReport, Exhausted
<1>6. ASSUME c.attempts = c.conflicts PROVE TrueReport(Failure(c, Exhausted(c)))
  <2>1. CASE Exhausted(c)
    BY <1>2, <1>6, <2>1 DEF TrueReport, Exhausted
  <2>2. CASE ~Exhausted(c)
    BY <1>2, <1>3, <1>4, <1>6, <2>2 DEF TrueReport, Exhausted
  <2>3. QED
    BY <2>1, <2>2
<1>7. QED
  BY <1>5, <1>6

\* Every report that Start leaves behind is true.
LEMMA ReportStep == Sound /\ SearchInv /\ ReportTrue /\ [Next]_vars => ReportTrue'
<1> SUFFICES ASSUME Sound, SearchInv, ReportTrue, [Next]_vars PROVE ReportTrue'
  OBVIOUS
<1>a. TypeOK
  BY DEF Sound
<1>b. ASSUME NEW s \in Servers, NEW r, TrueReport(r), report' = [report EXCEPT ![s] = r]
      PROVE ReportTrue'
  BY <1>a, <1>b DEF ReportTrue, TypeOK
<1>c. ASSUME UNCHANGED report PROVE ReportTrue'
  BY <1>c DEF ReportTrue
<1>d. \A s \in Servers : SearchOf(s) /\ WindowOf(s) /\ call[s] \in Calls
  BY <1>a DEF SearchInv, TypeOK
<1>1. ASSUME NEW s \in Servers, NEW port \in InitialPorts[s],
             StartRefused(s, port) \/ StartRejected(s, port)
      PROVE ReportTrue'
  <2>1. NewCall(port, 0) \in Calls /\ NewCall(port, 0).attempts = 0
    BY SetFacts, NewCallTypes DEF NewCall
  <2>2. TrueReport(Failure(NewCall(port, 0), FALSE))
    BY <2>1, FailuresTrue
  <2>3. QED
    BY <1>1, <1>b, <2>2 DEF StartRefused, StartRejected
<1>2. ASSUME NEW s \in Servers, SocketFails(s) PROVE ReportTrue'
  <2>1. /\ call' = [call EXCEPT ![s] = Attempted(call[s])]
        /\ HasCandidate(call[s]) /\ startPc[s] = "try"
    BY <1>2 DEF SocketFails, Moves
  <2>2. call'[s] = Attempted(call[s]) /\ call'[s] \in Calls
    BY <2>1, <1>a, <1>d, CallTypes DEF TypeOK
  <2>3. /\ call'[s].attempts = call[s].attempts + 1
        /\ call'[s].conflicts = call[s].conflicts
    BY <2>2, <1>d DEF Attempted, Calls
  <2>4. call'[s].attempts = call'[s].conflicts + 1
    BY <2>1, <2>3, <1>d DEF SearchOf
  <2>5. TrueReport(Failure(call'[s], FALSE))
    BY <2>2, <2>4, FailuresTrue
  <2>6. QED
    BY <1>2, <1>b, <2>5 DEF SocketFails
<1>3. ASSUME NEW s \in Servers, GiveUp(s) PROVE ReportTrue'
  <2>1. TrueReport(Failure(call[s], Exhausted(call[s])))
    BY <1>3, <1>d, FailuresTrue DEF GiveUp, Moves, SearchOf
  <2>2. QED
    BY <1>3, <1>b, <2>1 DEF GiveUp
<1>4. ASSUME NEW s \in Servers, BindFails(s) \/ ListenFails(s) PROVE ReportTrue'
  <2>1. call[s].attempts = call[s].conflicts + 1
    BY <1>4, <1>d DEF BindFails, ListenFails, Moves, SearchOf
  <2>2. TrueReport(Failure(call[s], FALSE))
    BY <2>1, <1>d, FailuresTrue
  <2>3. QED
    BY <1>4, <1>b, <2>2 DEF BindFails, ListenFails
<1>5. ASSUME NEW s \in Servers, Listen(s) PROVE ReportTrue'
  <2> DEFINE c == call[s]
             Started(bound) ==
               [result |-> "started", initial |-> c.port, last |-> c.last,
                bound |-> bound, attempts |-> c.attempts, conflicts |-> c.conflicts,
                fallback |-> c.port # 0 /\ bound # c.port, exhausted |-> FALSE]
  <2>1. PICK bound \in {sock[s], c.last} : report' = [report EXCEPT ![s] = Started(bound)]
    BY <1>5 DEF Listen
  <2>2. /\ c.attempts = c.conflicts + 1
        /\ c.last # 0 => sock[s] = c.last
    BY <1>5, <1>d DEF Listen, Moves, SearchOf
  <2>3. c.port \in Nat /\ c.conflicts \in Nat /\ c.last \in Nat /\ c.attempts \in Nat
    BY <1>d, SetFacts DEF Calls
  <2>4. c.last = c.port + c.conflicts
    BY <2>2, <2>3, <1>d DEF WindowOf
  <2>5. c.port # 0 => bound = c.last
    BY <2>1, <2>2, <2>3, <2>4
  <2>6. TrueReport(Started(bound))
    <3>1. /\ Started(bound).result = "started"
          /\ Started(bound).attempts = c.attempts /\ Started(bound).last = c.last
          /\ Started(bound).conflicts = c.conflicts /\ Started(bound).initial = c.port
          /\ Started(bound).bound = bound
          /\ Started(bound).fallback = (c.port # 0 /\ bound # c.port)
      OBVIOUS
    <3>2. c.port # 0 => (bound # c.port <=> c.conflicts > 0)
      BY <2>3, <2>4, <2>5
    <3> HIDE DEF Started
    <3>3. QED
      BY <2>2, <2>3, <2>4, <2>5, <3>1, <3>2 DEF TrueReport
  <2>7. QED
    BY <2>1, <2>6, <1>b
<1>6. ASSUME NEW s \in Servers, TryPort(s) \/ Bind(s) \/ BindConflicts(s) \/ Stop(s)
      PROVE ReportTrue'
  BY <1>6, <1>c DEF TryPort, Bind, BindConflicts, Stop
<1>7. ASSUME NEW s \in Servers, NEW port, NEW limit, StartSearch(s, port, limit)
      PROVE ReportTrue'
  BY <1>7, <1>c DEF StartSearch
<1>8. ASSUME NEW p, ForeignBind(p) \/ ForeignClose(p) PROVE ReportTrue'
  BY <1>8, <1>c DEF ForeignBind, ForeignClose
<1>9. CASE UNCHANGED vars
  BY <1>9, <1>c DEF vars
<1>10. QED
  BY <1>1, <1>2, <1>3, <1>4, <1>5, <1>6, <1>7, <1>8, <1>9 DEF Next, SearchStep

\* Start reports exhausted_conflicts only after the whole window was tried.
LEMMA ExhaustedStep ==
  Sound /\ SearchInv /\ ExhaustedAfterAll /\ [Next]_vars => ExhaustedAfterAll'
<1> DEFINE AllTried(s) ==
      startPc[s] = "idle" /\ report[s].exhausted =>
        report[s].attempts = call[s].limit \/ report[s].last = MaxPort
<1> SUFFICES ASSUME Sound, SearchInv, ExhaustedAfterAll, [Next]_vars, NEW t \in Servers
             PROVE AllTried(t)'
  BY DEF ExhaustedAfterAll
<1>a. TypeOK /\ AllTried(t) /\ SearchOf(t) /\ WindowOf(t) /\ call[t] \in Calls
  BY DEF Sound, SearchInv, ExhaustedAfterAll, TypeOK
<1>b. CASE UNCHANGED <<startPc[t], call[t], report[t]>>
  BY <1>a, <1>b
<1>c. CASE startPc'[t] # "idle" \/ ~report'[t].exhausted
  BY <1>c
<1> HIDE DEF AllTried
<1> USE DEF Moves, impl
<1>1. ASSUME NEW s \in Servers, NEW port \in InitialPorts[s],
             StartRefused(s, port) \/ StartRejected(s, port)
      PROVE AllTried(t)'
  BY <1>1, <1>a, <1>b, <1>c DEF StartRefused, StartRejected, Failure, TypeOK
<1>2. ASSUME NEW s \in Servers, NEW port \in InitialPorts[s], NEW limit \in AttemptLimits[s],
             StartSearch(s, port, limit)
      PROVE AllTried(t)'
  BY <1>2, <1>a, <1>b, <1>c DEF StartSearch, TypeOK
<1>3. ASSUME NEW s \in Servers, TryPort(s) \/ Bind(s) \/ BindConflicts(s)
      PROVE AllTried(t)'
  BY <1>3, <1>a, <1>b, <1>c DEF TryPort, Bind, BindConflicts, TypeOK
<1>4. ASSUME NEW s \in Servers, SocketFails(s) \/ BindFails(s) \/ ListenFails(s)
      PROVE AllTried(t)'
  BY <1>4, <1>a, <1>b, <1>c DEF SocketFails, BindFails, ListenFails, Failure, TypeOK
<1>5. ASSUME NEW s \in Servers, Listen(s) PROVE AllTried(t)'
  BY <1>5, <1>a, <1>b, <1>c DEF Listen, TypeOK
<1>6. ASSUME NEW s \in Servers, GiveUp(s) PROVE AllTried(t)'
  <2>1. CASE s # t
    BY <1>6, <2>1, <1>a, <1>b DEF GiveUp, TypeOK
  <2>2. CASE s = t
    <3>1. /\ report'[t].attempts = call[t].attempts /\ report'[t].last = call[t].last
          /\ report'[t].exhausted = Exhausted(call[t])
          /\ ~HasCandidate(call[t]) /\ call'[t] = call[t]
      BY <1>6, <2>2, <1>a DEF GiveUp, Failure, TypeOK
    <3>2. /\ call[t].attempts \in Nat /\ call[t].conflicts \in Nat /\ call[t].limit \in Nat
          /\ call[t].port \in Nat /\ call[t].last \in Nat /\ MaxPort \in Nat
      BY <1>a, SetFacts, PortAssumption DEF Calls
    <3>3. Exhausted(call[t]) => call[t].attempts = call[t].limit \/ call[t].last = MaxPort
      BY <3>1, <3>2, <1>a DEF Exhausted, HasCandidate, Candidate, WindowOf
    <3>4. QED
      BY <3>1, <3>3 DEF AllTried
  <2>3. QED
    BY <2>1, <2>2
<1>7. ASSUME NEW s \in Servers, Stop(s) PROVE AllTried(t)'
  BY <1>7, <1>a, <1>b DEF Stop, TypeOK
<1>8. ASSUME NEW p \in Ports, ForeignBind(p) \/ ForeignClose(p) PROVE AllTried(t)'
  BY <1>8, <1>b DEF ForeignBind, ForeignClose
<1>9. CASE UNCHANGED vars
  BY <1>9, <1>b DEF vars
<1>10. QED
  BY <1>1, <1>2, <1>3, <1>4, <1>5, <1>6, <1>7, <1>8, <1>9 DEF Next, SearchStep

\* The inductive invariant of Start and Stop holds in every state.
THEOREM Invariance == Spec => []IInv
<1>1. Init => IInv
  <2>1. Init => SearchInv
    <3> SUFFICES ASSUME Init, NEW s \in Servers PROVE SearchOf(s) /\ WindowOf(s)
      BY DEF SearchInv
    <3>1. startPc[s] = "idle" /\ call[s].attempts = 0
      BY DEF Init, NewCall
    <3>2. QED
      BY <3>1 DEF SearchOf, WindowOf
  <2>2. Init => ReportTrue /\ ExhaustedAfterAll
    BY DEF Init, ReportTrue, TrueReport, ExhaustedAfterAll, NoReport
  <2>3. QED
    BY <2>1, <2>2, SoundInit DEF IInv, Sound
<1>2. IInv /\ [Next]_vars => IInv'
  BY TypeStep, SocketStep, SearchStepKeeps, ReportStep, ExhaustedStep DEF IInv, Sound
<1>3. QED
  BY <1>1, <1>2, PTL DEF Spec

\* Every variable keeps its type, for any ports, servers and limits.
THEOREM TypeCorrect == Spec => []TypeOK
<1>1. IInv => TypeOK
  BY DEF IInv
<1>2. QED
  BY <1>1, Invariance, PTL

\* HttpServerStartReport tells the truth about the search, also under the
\* contention of any number of servers and foreign processes.
THEOREM ReportsTrue == Spec => []ReportTrue
<1>1. IInv => ReportTrue
  BY DEF IInv
<1>2. QED
  BY <1>1, Invariance, PTL

\* Start never gives up for conflicts before the whole window was tried.
THEOREM WindowTried == Spec => []ExhaustedAfterAll
<1>1. IInv => ExhaustedAfterAll
  BY DEF IInv
<1>2. QED
  BY <1>1, Invariance, PTL

\* No attempt leaves the range of ports or exceeds max_port_attempts.
THEOREM WindowKept == Spec => []AttemptsBounded
<1>1. IInv => AttemptsBounded
  BY DEF IInv, SearchInv, WindowOf, AttemptsBounded
<1>2. QED
  BY <1>1, Invariance, PTL

-----------------------------------------------------------------------------
(* Sockets of the servers that are not started again while they run *)

\* A server's sockets own the ports they are bound to; one that was started
\* again may own more.
OwnsOf(s) ==
  \A p \in Ports : p = sock[s] \/ p = listenSocket[s] => owner[p] = s

\* With exact counts: all a server holds between calls is its listening socket,
\* and it has one exactly while it runs.
HoldingsOf(s) ==
  /\ running[s] => listenSocket[s] # INVALID_SOCKET
  /\ startPc[s] = "idle" /\ ~running[s] => ~wsa[s]
  /\ open[s] = Held(s)
  /\ \A p \in Ports : owner[p] = s <=> p = sock[s] \/ p = listenSocket[s]

HoldingsInv ==
  /\ \A s \in Servers : OwnsOf(s)
  /\ \A s \in Servers \ Restarted : HoldingsOf(s)

\* No step frees or takes a port another server's socket is bound to.
LEMMA OwnsStep ==
  ASSUME Sound, HoldingsInv, [Next]_vars, NEW t \in Servers
  PROVE  OwnsOf(t)'
<1>a. TypeOK /\ \A s \in Servers : SocketsOf(s) /\ OwnsOf(s)
  BY DEF Sound, SocketInv, HoldingsInv
<1>b. Free \notin Servers /\ Foreign \notin Servers
  BY PortAssumption
<1> USE DEF Moves, Released, CloseLocal, impl
<1>1. ASSUME NEW s \in Servers, NEW port, StartRefused(s, port) \/ StartRejected(s, port)
      PROVE  OwnsOf(t)'
  <2>1. /\ sock' = sock /\ owner' = owner
        /\ listenSocket' = [listenSocket EXCEPT ![s] = INVALID_SOCKET]
    BY <1>1 DEF StartRefused, StartRejected
  <2>2. QED
    BY <2>1, <1>a, SetFacts DEF OwnsOf, TypeOK
<1>2. ASSUME NEW s \in Servers, NEW port, NEW limit, StartSearch(s, port, limit)
      PROVE  OwnsOf(t)'
  BY <1>2, <1>a, SetFacts DEF StartSearch, OwnsOf, TypeOK
<1>3. ASSUME NEW s \in Servers, TryPort(s) PROVE OwnsOf(t)'
  BY <1>3, <1>a, SetFacts DEF TryPort, OwnsOf, SocketsOf, TypeOK
<1>4. ASSUME NEW s \in Servers, SocketFails(s) \/ GiveUp(s) PROVE OwnsOf(t)'
  <2>1. /\ sock' = sock /\ owner' = owner
        /\ listenSocket' = [listenSocket EXCEPT ![s] = INVALID_SOCKET]
    BY <1>4 DEF SocketFails, GiveUp
  <2>2. QED
    BY <2>1, <1>a, SetFacts DEF OwnsOf, TypeOK
<1>5. ASSUME NEW s \in Servers, Bind(s) PROVE OwnsOf(t)'
  <2>1. PICK q \in Ports : /\ owner[q] = Free
                          /\ sock' = [sock EXCEPT ![s] = q]
                          /\ owner' = [owner EXCEPT ![q] = s]
    BY <1>5 DEF Bind, Bindable
  <2>2. listenSocket' = listenSocket /\ listenSocket[s] = INVALID_SOCKET
    BY <1>5, <1>a DEF Bind, SocketsOf
  <2>3. CASE s = t
    BY <2>1, <2>2, <2>3, <1>a, SetFacts DEF OwnsOf, TypeOK
  <2>4. CASE s # t
    BY <2>1, <2>2, <2>4, <1>a, <1>b, SetFacts DEF OwnsOf, TypeOK
  <2>5. QED
    BY <2>3, <2>4
<1>6. ASSUME NEW s \in Servers, BindConflicts(s) \/ BindFails(s) PROVE OwnsOf(t)'
  <2>1. /\ sock' = [sock EXCEPT ![s] = INVALID_SOCKET] /\ owner' = owner
        /\ \/ listenSocket' = listenSocket
           \/ listenSocket' = [listenSocket EXCEPT ![s] = INVALID_SOCKET]
    BY <1>6 DEF BindConflicts, BindFails
  <2>2. QED
    BY <2>1, <1>a, SetFacts DEF OwnsOf, TypeOK
<1>7. ASSUME NEW s \in Servers, ListenFails(s) PROVE OwnsOf(t)'
  BY <1>7, <1>a, <1>b, SetFacts DEF ListenFails, OwnsOf, SocketsOf, TypeOK
<1>8. ASSUME NEW s \in Servers, Listen(s) PROVE OwnsOf(t)'
  BY <1>8, <1>a, SetFacts DEF Listen, OwnsOf, SocketsOf, TypeOK
<1>9. ASSUME NEW s \in Servers, Stop(s) PROVE OwnsOf(t)'
  BY <1>9, <1>a, SetFacts DEF Stop, OwnsOf, SocketsOf, TypeOK
<1>10. ASSUME NEW p \in Ports, ForeignBind(p) \/ ForeignClose(p) PROVE OwnsOf(t)'
  BY <1>10, <1>a, <1>b DEF ForeignBind, ForeignClose, OwnsOf, TypeOK
<1>11. CASE UNCHANGED vars
  BY <1>11, <1>a DEF vars, OwnsOf
<1>12. QED
  BY <1>1, <1>2, <1>3, <1>4, <1>5, <1>6, <1>7, <1>8, <1>9, <1>10, <1>11
     DEF Next, SearchStep

\* The sockets such a server has open are those it knows of, and the ports it
\* owns are those of its sockets, whatever happens to the other servers.
LEMMA HoldingsStep ==
  ASSUME Sound, HoldingsInv, [Next]_vars
  PROVE  HoldingsInv'
<1> SUFFICES ASSUME NEW t \in Servers, t \notin Restarted PROVE HoldingsOf(t)'
  BY OwnsStep DEF HoldingsInv
<1>a. TypeOK /\ HoldingsOf(t) /\ \A s \in Servers : SocketsOf(s) /\ OwnsOf(s)
  BY DEF Sound, SocketInv, HoldingsInv
<1>b. Free \notin Servers /\ Foreign \notin Servers
  BY PortAssumption
<1> USE DEF Moves, Released, CloseLocal, impl
<1>1. ASSUME NEW s \in Servers, NEW port, StartRefused(s, port) PROVE HoldingsOf(t)'
  BY <1>1, <1>a DEF StartRefused, HoldingsOf, SocketsOf, Held, TypeOK
<1>2. ASSUME NEW s \in Servers, NEW port, StartRejected(s, port) PROVE HoldingsOf(t)'
  BY <1>2, <1>a DEF StartRejected, HoldingsOf, SocketsOf, Held, TypeOK
<1>3. ASSUME NEW s \in Servers, NEW port, NEW limit, StartSearch(s, port, limit)
      PROVE HoldingsOf(t)'
  BY <1>3, <1>a DEF StartSearch, HoldingsOf, SocketsOf, Held, TypeOK
<1>4. ASSUME NEW s \in Servers, TryPort(s) PROVE HoldingsOf(t)'
  BY <1>4, <1>a, SetFacts DEF TryPort, HoldingsOf, SocketsOf, Held, TypeOK
<1>5. ASSUME NEW s \in Servers, SocketFails(s) \/ GiveUp(s) PROVE HoldingsOf(t)'
  <2>1. CASE SocketFails(s)
    BY <2>1, <1>a DEF SocketFails, HoldingsOf, SocketsOf, Held, TypeOK
  <2>2. CASE GiveUp(s)
    BY <2>2, <1>a DEF GiveUp, HoldingsOf, SocketsOf, Held, TypeOK
  <2>3. QED
    BY <1>5, <2>1, <2>2
<1>6. ASSUME NEW s \in Servers, Bind(s) PROVE HoldingsOf(t)'
  BY <1>6, <1>a, <1>b, SetFacts DEF Bind, Bindable, HoldingsOf, SocketsOf, Held, TypeOK
<1>7. ASSUME NEW s \in Servers, BindConflicts(s) PROVE HoldingsOf(t)'
  BY <1>7, <1>a, SetFacts DEF BindConflicts, HoldingsOf, SocketsOf, Held, TypeOK
<1>8. ASSUME NEW s \in Servers, BindFails(s) PROVE HoldingsOf(t)'
  <2>1. CASE s # t
    BY <1>8, <2>1, <1>a DEF BindFails, HoldingsOf, Held, TypeOK
  <2>2. CASE s = t
    <3>1. /\ sock[t] = 0 /\ sock'[t] = INVALID_SOCKET
          /\ listenSocket[t] = INVALID_SOCKET /\ listenSocket'[t] = INVALID_SOCKET
          /\ open'[t] = open[t] - 1 /\ wsa'[t] = FALSE
          /\ UNCHANGED <<running, owner>>
      BY <1>8, <2>2, <1>a DEF BindFails, SocketsOf, TypeOK
    <3>2. open'[t] = Held(t)'
      BY <3>1, <1>a, SetFacts DEF HoldingsOf, Held, TypeOK
    <3>3. ~running[t]
      BY <1>8, <2>2, <1>a DEF BindFails, SocketsOf
    <3>4. QED
      BY <3>1, <3>2, <3>3, <1>a, SetFacts DEF HoldingsOf
  <2>3. QED
    BY <2>1, <2>2
<1>9. ASSUME NEW s \in Servers, ListenFails(s) PROVE HoldingsOf(t)'
  <2>1. CASE s = t
    BY <1>9, <2>1, <1>a, <1>b, SetFacts DEF ListenFails, HoldingsOf, SocketsOf, Held, TypeOK
  <2>2. CASE s # t
    <3>1. sock[s] \in Ports /\ owner[sock[s]] = s
      BY <1>9, <1>a DEF ListenFails, SocketsOf, OwnsOf
    <3>2. \A p \in Ports : owner'[p] = t <=> owner[p] = t
      BY <1>9, <2>2, <3>1, <1>a, <1>b DEF ListenFails, TypeOK
    <3>3. QED
      BY <1>9, <2>2, <3>2, <1>a DEF ListenFails, HoldingsOf, Held, TypeOK
  <2>3. QED
    BY <2>1, <2>2
<1>10. ASSUME NEW s \in Servers, Listen(s) PROVE HoldingsOf(t)'
  BY <1>10, <1>a, SetFacts DEF Listen, HoldingsOf, SocketsOf, Held, TypeOK
<1>11. ASSUME NEW s \in Servers, Stop(s) PROVE HoldingsOf(t)'
  <2>1. CASE s # t
    <3>1. /\ running'[t] = running[t] /\ wsa'[t] = wsa[t] /\ open'[t] = open[t]
          /\ sock'[t] = sock[t] /\ listenSocket'[t] = listenSocket[t]
          /\ startPc'[t] = startPc[t]
      BY <1>11, <2>1, <1>a DEF Stop, TypeOK
    <3>2. \A p \in Ports : owner'[p] = t <=> owner[p] = t
      <4>1. CASE listenSocket[s] = INVALID_SOCKET
        BY <1>11, <4>1 DEF Stop
      <4>2. CASE listenSocket[s] # INVALID_SOCKET
        <5>1. listenSocket[s] \in Ports /\ owner[listenSocket[s]] = s
          BY <4>2, <1>a DEF SocketsOf, OwnsOf
        <5>2. owner' = [owner EXCEPT ![listenSocket[s]] = Free]
          BY <1>11, <4>2 DEF Stop
        <5>3. QED
          BY <2>1, <5>1, <5>2, <1>a, <1>b DEF TypeOK
      <4>3. QED
        BY <4>1, <4>2
    <3>3. QED
      BY <3>1, <3>2, <1>a DEF HoldingsOf, Held
  <2>2. CASE s = t
    <3>1. /\ running[t] /\ startPc[t] = "idle" /\ sock[t] = INVALID_SOCKET
          /\ listenSocket[t] \in Ports /\ listenSocket[t] # INVALID_SOCKET
      BY <1>11, <2>2, <1>a DEF Stop, SocketsOf, HoldingsOf
    <3>2. /\ open' = [open EXCEPT ![t] = @ - 1]
          /\ owner' = [owner EXCEPT ![listenSocket[t]] = Free]
      BY <1>11, <2>2, <3>1 DEF Stop
    <3>3. /\ running'[t] = FALSE /\ wsa'[t] = FALSE /\ open'[t] = open[t] - 1
          /\ sock'[t] = INVALID_SOCKET /\ listenSocket'[t] = INVALID_SOCKET
      BY <1>11, <2>2, <3>1, <3>2, <1>a DEF Stop, TypeOK
    <3>4. open'[t] = Held(t)'
      BY <3>1, <3>3, <1>a DEF HoldingsOf, Held, TypeOK
    <3>5. \A p \in Ports : owner'[p] # t
      BY <3>1, <3>2, <1>a, <1>b, SetFacts DEF HoldingsOf, TypeOK
    <3>6. QED
      BY <3>3, <3>4, <3>5, SetFacts DEF HoldingsOf
  <2>3. QED
    BY <2>1, <2>2
<1>12. ASSUME NEW p \in Ports, ForeignBind(p) \/ ForeignClose(p) PROVE HoldingsOf(t)'
  BY <1>12, <1>a, <1>b DEF ForeignBind, ForeignClose, HoldingsOf, SocketsOf, Held, TypeOK
<1>13. CASE UNCHANGED vars
  BY <1>13, <1>a DEF vars, HoldingsOf, Held
<1>14. QED
  BY <1>1, <1>2, <1>3, <1>4, <1>5, <1>6, <1>7, <1>8, <1>9, <1>10, <1>11, <1>12, <1>13
     DEF Next, SearchStep

\* So it is in every state.
LEMMA HoldingsInvariance == Spec => []HoldingsInv
<1>1. Init => HoldingsInv
  <2> SUFFICES ASSUME Init, NEW s \in Servers PROVE HoldingsOf(s) /\ OwnsOf(s)
    BY DEF HoldingsInv
  <2>1. /\ sock[s] = INVALID_SOCKET /\ listenSocket[s] = INVALID_SOCKET
        /\ open[s] = 0 /\ ~running[s] /\ ~wsa[s]
    BY DEF Init
  <2>2. \A p \in Ports : owner[p] # s
    BY PortAssumption DEF Init
  <2>3. Held(s) = 0
    BY <2>1 DEF Held
  <2>4. QED
    BY <2>1, <2>2, <2>3, SetFacts DEF HoldingsOf, OwnsOf
<1>2. IInv /\ HoldingsInv /\ [Next]_vars => HoldingsInv'
  BY HoldingsStep DEF IInv, Sound
<1>3. QED
  BY <1>1, <1>2, Invariance, PTL DEF Spec

\* A server that is never started again while it runs loses no socket, whatever
\* socket call of its search fails.
THEOREM NoLeak == Spec => []NoSocketLeak
<1>1. IInv /\ HoldingsInv => NoSocketLeak
  <2> SUFFICES ASSUME IInv, HoldingsInv, NEW s \in Servers \ Restarted
               PROVE  /\ open[s] = Held(s)
                      /\ \A p \in Ports : owner[p] = s <=> p \in {sock[s], listenSocket[s]}
    BY DEF NoSocketLeak, Held
  <2>1. QED
    BY DEF HoldingsInv, HoldingsOf
<1>2. QED
  BY <1>1, Invariance, HoldingsInvariance, PTL

\* ... and when it was stopped or failed to start it holds nothing.
THEOREM IdleReleased == Spec => []IdleHoldsNothing
<1>1. IInv /\ HoldingsInv => IdleHoldsNothing
  BY DEF IInv, SocketInv, SocketsOf, HoldingsInv, HoldingsOf, Held, IdleHoldsNothing
<1>2. QED
  BY <1>1, Invariance, HoldingsInvariance, PTL

=============================================================================
