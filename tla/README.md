# Verification of dbgx-mcp

dbgx-mcp is a WinDbg extension DLL that serves the Model Context Protocol over
HTTP, so that an MCP client can run debugger commands (`windbg.eval`); a Python
script, `windbg-bridge.py`, gives stdio clients the same service. This directory
holds TLA+ models of the parts of it that can go wrong in ways a test hardly
reaches, the TLC runs that check them, and TLAPS proofs of the results that
matter most.

Contents: [inventory](#1-inventory) · [modules](#2-modules-and-the-code) ·
[runs](#3-runs) · [findings](#4-findings) · [fairness](#5-fairness) ·
[proofs](#6-proofs) · [what is not modelled](#7-what-is-not-modelled) ·
[plan](#8-plan).

Paths below are relative to the repository.

## 1. Inventory

| component | state it keeps | operations | talks to |
|---|---|---|---|
| Extension entry points, `src/dbgx-mcp.cpp` | `ExtensionState`: mutex, executor, router, server, `next_local_trace_id` | `DebugExtensionInitialize`, `DebugExtensionUninitialize` and `Unload` (both `Cleanup`), `HandleRequest` | called by engine threads; starts and stops the server; `HandleRequest` is the server's callback, on the worker thread |
| HTTP server, `src/mcp/http_server.cpp` | `Impl`: mutex, `running`, `stop_requested`, listening socket, worker thread, `bound_port`, WSA flag | `Start` (port search, thread), `Stop`, the worker loop | sockets; calls the handler synchronously, one connection at a time |
| HTTP reception, `ReceiveRequest` in the same file | locals of one call: bytes received, end of header, content length | receive, frame, parse | one socket |
| HTTP sending, `BuildHttpResponseText` and `SendAll` in the same file | locals of one call: the text, how much is sent | build, send in pieces | one socket |
| JSON-RPC router, `src/mcp/json_rpc.cpp` | none (a pointer to the executor) | `HandleJsonRpcPost` → `DispatchMethod` → `HandleToolsCall`; builds its answers as text | the JSON parser, the executor |
| Command executor, `src/windbg/dbgeng_command_executor.cpp` | per call: a debugger client, the output callbacks object | `Execute`, `OutputCaptureCallbacks::Output` | the debugger engine, which calls `Output` back |
| Trace and log, `src/dbgx-mcp.cpp`, `src/mcp/io_echo.cpp` | the trace counter | stage echoes of a request; the lines they are made of, read back from request and answer | the debugger's output |
| JSON parser, `src/mcp/json.cpp` | none | `ParseObjectFields`, the getters, `ParseJsonString`, `Escape` | router and log summaries |
| stdio bridge, `windbg-bridge.py` | none between lines | one loop: read a line, POST it, print the answer | stdin, stdout, the extension |

How they interact. Engine threads call the entry points, which hold
`ExtensionState::mutex` from beginning to end, also while `Stop` joins the worker.
The worker accepts a connection, reads one request, runs `HandleRequest`, sends
the answer and closes; `HandleRequest` checks path, origin, protocol version and
method without a lock, then takes the same mutex for the router and keeps it
while the debugger runs the command. `running` and `stop_requested` are the only
state the worker and `Stop` share without it, besides the socket handle.

Behaviours that are hard:

- *Concurrency:* lifecycle calls against the worker and against each other; the
  close of the listening socket under `select` and `accept`; a join under a lock.
- *Surroundings that wait:* clients that say nothing, stop reading, leave or abort
  at any point; commands that never end.
- *Partial failure:* every socket call of `Start`, every COM call of `Execute`.
- *Contention:* other processes that take and free ports during the search.
- *Chunks:* the network cuts requests and answers, and the engine cuts output, anywhere.
- *Text by hand:* messages are framed, unescaped, escaped and put together without a
  JSON library, three times: by the router, for the answer, and for the log.
- *Timeouts:* the bridge gives up after ten seconds, the extension does not.

What makes each component correct:

| component | correctness |
|---|---|
| lifecycle and worker | loading, unloading and commands exclude one another; no thread outlives what it uses; outside a lifecycle call the extension serves or holds nothing; each accepted call is executed at most once; unloading ends; connections end |
| port search | stays in its window and ends; its report is true; no socket or WSAStartup is left behind on any path |
| request handling | what the client is told and what the debugger did agree; answers carry the right id; the log is complete and tells the outcome |
| reception and sending | framing depends on the bytes, not on their division; the body is the announced one; never asks for a byte too many; a client never takes a part of an answer for the whole |
| parser and answers as text | exactly the grammar is accepted; the command reaches the debugger, and its output the client, unchanged; the answer says what was decided, with the id as it was sent |
| log as text | the lines of one request share its trace and its id, show the outcome, and have no line breaks |
| executor | callbacks live exactly as long as they may be called; the output is the first lines that were asked for |
| bridge | answers and commands keep their order; nothing is run twice; no line holds it up |

## 2. Modules and the code

| module | models | role |
|---|---|---|
| `EvalService` | — | abstract specification: what the extension promises about `windbg.eval` |
| `Extension` | `dbgx-mcp.cpp:157-300`, `http_server.cpp:481-559` | threads, lock, sockets, clients |
| `ExtensionProperties` | — | safety, the refinement of `EvalService`, liveness |
| `ExtensionProofs` | — | proofs of the safety of `Extension`, and that it implements `EvalService` |
| `PortFallback`, `MCPortFallback` | `http_server.cpp:24-31, 335-487, 531-559` | `Start`'s search and `Stop`, for several servers |
| `PortFallbackProofs` | — | proofs about `PortFallback` |
| `McpRequest`, `MCMcpRequest` | `dbgx-mcp.cpp:90-222`, `json_rpc.cpp`, outcome parsing of `io_echo.cpp` | a sequence of requests through handler, router, log |
| `McpRequestProofs` | — | proofs about the answers and the log of `McpRequest` |
| `CommandExecutor`, `MCCommandExecutor` | `dbgeng_command_executor.cpp` | one command, its chunks and its failures |
| `CommandExecutorProofs` | — | proofs about the callbacks' life and the text returned |
| `HttpReceive` | `http_server.cpp:115-266` | one request, received in chunks |
| `HttpConnection`, `MCHttpReceive` | `http_server.cpp:84-98, 273-290, 509-522` | the connection around it: handler, answer sent in pieces |
| `HttpConnectionProofs` | — | proofs about `HttpReceive` and `HttpConnection` |
| `JsonStrings` | `json.cpp:21-157, 486-527` | `ParseJsonString` and `Escape`, on sequences of characters |
| `JsonText` | `json.cpp` | the rest of the parser |
| `JsonRpcText` | `json_rpc.cpp` | the router's answers as text |
| `LogSummaries` | `io_echo.cpp`, `dbgx-mcp.cpp:75-116` | the lines of the log as fields and text |
| `MessageText`, `MCMessageText` | — | bodies written symbol by symbol; what parser, router and log make of each |
| `JsonGrammar` | — | the grammar the parser is compared with; recursive, for TLC only |
| `MessageTextProofs` | — | proofs about strings, values, objects, answers and log lines as text |
| `SequenceLemmas` | — | induction, recursion and flattening of sequences, for the proofs about texts |
| `Bridge` | `windbg-bridge.py` | the bridge against a queue of connections |
| `BridgeProofs` | — | proofs about `Bridge` |

**Extension.** `callerPc` and `workerPc` say where each engine thread and each
`std::thread` is; `stateMutex` is the holder of `ExtensionState::mutex`;
`objects` the `unique_ptr`s that are not null; `running`, `stopRequested`,
`listenSocket`, `implWorker` the fields of `Impl`. `HttpServer`'s own mutex is
only taken by `Start` and `Stop`, which run under `stateMutex`, and is left out.
A step is what one thread does between two accesses to shared state or two calls
that can block: `CleanupLock`, `StopRequest`, `StopClose`, `StopJoined` are
`Cleanup`, with the worker free to run in between; `CheckStop`, `Select`,
`AcceptConnection`, then `ReceiveFails`, `RefuseRequest` or `RouteRequest`, then
`Dispatch` or `BeginCommand`/`FinishCommand`, then `SendReply` are one turn of the
loop. Requests are their kind (`Kinds`): what `HandleRequest` does with them.
Clients, the kernel's queue and the far end of each socket are external: a client
may connect, send, stop reading, leave, or abort a connection that is waiting.
`objects` is one set because nothing reads it between the assignments of a
lifecycle call, which hold the lock.

**PortFallback.** `call` holds `Start`'s locals, `sock` its local socket,
`report` the `HttpServerStartReport` with the result; `open` counts the sockets
really open, so that one that is forgotten shows. Each server has its own start ports and limits.
Servers in `Restarted` are started again while they run, which loses their listening socket
(section 4); what is said of sockets is said of the others, beside such a neighbour. `startPc` stops between any two
socket calls, where other servers and `ForeignBind`/`ForeignClose` act. `Extension`
takes of all this that `Start` succeeds or fails (`StartSucceeds`, `StartFails`);
`IdleHoldsNothing` is what makes `StartFails` right.

**McpRequest.** Requests are records of what the code asks of them (is the body
an object, is `jsonrpc` 2.0, is there an id, which method, are params and arguments
objects, is there a command). `log` keeps stage and outcome of every echo, `ran` what became of the
command. One worker handles one request at a time, which `Extension` shows; the
null checks of router and executor are left out, which theorem
`ExtensionProofs!RouterIsThere` allows. That a message is no more than this record is an
assumption about the text; `MessageText` checks it: `AnswersAsModelled` runs the text of
every message through `JsonRpcText` and its record through `McpRequest`'s
`HandleJsonRpcPost`, and compares the answers; `EchoesTrue` does the same for the outcome in
the log.

**CommandExecutor.** Text is a sequence over a small alphabet with the newline in
it, because the filter and the count are about characters and lines; the engine
passes it to `Output` in chunks it chooses. `refs` is the reference count of the
callbacks object. `PrefixReturned` and `FilterOfWholeLines` compare what the loop
accumulated with a definition over the whole text.

**HttpReceive.** A header line is one symbol; CR, LF and body bytes are symbols of
their own, because the end of the header can be cut anywhere. `ParseHttpRequest`
and `ParseContentLength` are operators, digits kept. `MaxBodyBytes` is far below
2^64/10 in the code and here, so `std::size_t` does not wrap.

**HttpConnection.** The same connection to its end: `Handle` takes the handler's
response, or 400, `Send` passes the rest of the text to `send`, which takes what it likes,
`SendFails` is its failure at any point, after which `SendAll` gives up and the connection is
closed just as after success (the worker ignores the result).

**JsonStrings, JsonText, JsonRpcText, LogSummaries.** Text is a sequence of the codes of its
characters. There is one operator for each parsing function; a function that
returns whether it succeeded and moves an index is one that returns the next place, or none.
Recursion in the code is a recursive function of the place here, as every call is for a
later place: `StringRest` for the loop over a string, `Ends` for `SkipJsonValue`, `SkipJsonObject`
and `SkipJsonArray` together, `FieldsFrom` for the members of an object. A loop that only moves an index
(`SkipWhitespace`, a scalar) is the place where it stops. `JsonRpcText` builds answers from the names of
their members; fixed texts (the list of tools, messages for people) are shortened, ids, codes and
output are not. A line of the log is a sequence of fields, name and text, because
which fields a line has and what they show is what its reader relies on;
`TruncateForSummary` and `SanitizeSingleLine` work on the text. `MessageText` grows a body from one
of a few beginnings by chunks; every intermediate text is a state, and its four invariants
say what must be true of any text a client may send. It compares the parser with a
grammar written as predicates on texts (`IsValue`, `IsMembers` in `JsonGrammar`), and answers and calls
with a client's view of them. That view is written without the router, but it takes an answer apart
with the code's own parser, which is lenient about scalars (section 4); a strict JSON
parser can refuse an answer it reads.

**Bridge.** The extension is a queue of connections served in order; an abandoned
connection may still be executed, as `Extension` allows (`peer = "gone"` after the
request was read).

How the modules fit: `Extension` implements `EvalService` (checked, and proved);
`PortFallback` details one step of `Extension`; `HttpConnection`, `McpRequest` and
`CommandExecutor` the steps between `accept` and `closesocket`, which the lock and the single
worker make sequential; `MessageText` shows that `McpRequest`'s records stand for texts;
`Bridge` is a client of `Extension`.

## 3. Runs

| run | configuration | asks | bounds |
|---|---|---|---|
| `extension` | `Extension.cfg` | safety of threads, lock, sockets; implements `EvalService`; where an unload can hang; connections end | 2 engine threads, 2 workers, 2 clients; no symmetry, as liveness is checked; 209 922 states |
| `unload_deadlock` | `UnloadDeadlock.cfg` | violated: unloading ends | 1, 1, 1 |
| `silent_call` | `SilentCall.cfg` | violated: a silent call is executing | 1, 1, 1 |
| `port_fallback` | `PortFallback.cfg` | window, report, termination; no socket or WSAStartup is lost | ports 1..3; a server started at 0, 1 or 3 with limit 0 or 2, and one at 2 with limit 1 that is started again while it runs; 274 328 states |
| `mcp_request` | `McpRequest.cfg` | answers, execution and log agree | every pair of requests from `SomeRequests` |
| `notification_errors` | `Notifications.cfg` | violated: a notification is accepted or refused by HTTP | the same |
| `command_executor` | `CommandExecutor.cfg` | life of the callbacks, the text returned | texts of up to 5 characters in every division into chunks of up to 3 |
| `output_filter` | `OutputFilter.cfg` | violated: the filter is one of lines | texts of up to 3 |
| `message_text` | `MessageText.cfg` | parser, answers and log do with any text what the other models assume | texts of up to 4 chunks behind 7 beginnings; 24 050 states |
| `http_receive` | `HttpReceive.cfg` | framing; what a client makes of an answer that was cut | up to 3 header lines, bodies to 24 bytes, chunks of 1 to 4; answers in pieces of 8 or all at once |
| `http_headers` | `HttpHeaders.cfg` | violated: the handler sees every header | the same |
| `bridge` | `Bridge.cfg` | order and progress | 4 lines of every kind |

Why the bounds are enough to be of interest:

- Two engine threads, two thread identities and two clients give an unload and a
  load that race, a worker of the earlier server beside one of the next (if a
  bug let it live), and a connection that waits while another is served. The
  safety results are proved without the bounds (section 6).
- Ports end at 3, with starts at the beginning and the end of the range and at any
  free port, so that the window is cut by the limit, by the last port, or by both. The second
  server and the foreign processes can take any port of it at any time.
- A request fails at most one check of the router in `SomeRequests`, with and without
  an id, because the first check that fails decides; the second request of a pair
  is there for the trace ids and the log.
- Five characters hold two lines and a pattern of two characters that a chunk
  can cut; limits are -1, 0, 1 and 2, so the marker comes first, in the middle,
  or not at all.
- `message_text` has four kinds of text. Separators, quotes, backslashes and scalars: all
  texts of 3 chunks, 4 as the value of a member, 3 where a member is expected, which is enough to
  open, nest, separate and close wrongly in each position. Characters of one to three
  bytes, controls, and escapes whole or begun: 3, alone and in a method. Members
  of a message: any 4 of 9, so that each can be missing, repeated, of another kind or
  late. Members of a call: any 4 of 7. `int` is scaled to -13..12 (`IntMax`), a summary to 6
  characters (`kSummaryValueLimit`), commands to 7 (`MaxCommand`). The output of the
  command is nothing, or the body itself.
- The scaled limits of reception (14 header symbols, 11 body bytes) are reached and
  exceeded by inputs, among them lengths at the limit, above it, with leading
  zeros, and not a number.
- Four lines are an abandoned command, one behind it, an answered one, and a line
  that is not a command.

Deadlock is checked in the port run. Elsewhere `CHECK_DEADLOCK FALSE` stands
because the modelled call has returned or the input is used up, and in the
extension runs because of the first finding.

What the runs show, property by property, is said in the comments of the modules.
A few deserve a word here. `ImplementsEvalService` says that a `windbg.eval` call
whose request was read is executed at most once, alone, under a loaded extension, and that
an unload waits for it; that it is executed at all is not promised, as the first finding shows. `UnloadHangsOnlyAtStalls` bounds the first finding: an
unload that never returns has left the worker at `recv` from a silent client, in
`send` to one that does not read, or at the lock; never in the loop, in `select`, or in
`accept`. `AnswerTellsExecution` says when a client may repeat a call: an error,
of the protocol or of HTTP, means that the debugger has not seen the command.
`FieldsAsWritten` compares the parser with the grammar in both directions.
`TextUnchanged` goes a command's whole way: written by a client that escapes what it must, or all
it can, parsed, printed by the debugger, put into an answer and read by the
client. `AnswersAsModelled` says that no id, however it is spelled, and no output can break the
answer it is put into, for a reader as lenient with scalars as the parser is. `EchoesTrue` is the requirement of
`openspec/specs/windbg-mcp-debug-observability/spec.md:11`, and that no summary has a line
break, whatever the client sends. `AnswerMatchesId` is about messages with an id; what becomes
of those without one is the fifth finding. `PrefixReturned` and its companions are about what `Execute`
returns; of a command that failed the client is told the error, not the output. `ReportTrue` is about
the counts, ports and flags of the report; `last_error_code` is left out. `AnswerWholeOrPartial` says that ignoring the result of `SendAll` does
no harm: wherever the answer is cut off, the client can see that it is.

## 4. Findings

1. **Unloading can deadlock** (`unload_deadlock`). `Cleanup` holds
   `ExtensionState::mutex` (`src/dbgx-mcp.cpp:225`) while `Stop` joins the worker
   (`src/mcp/http_server.cpp:549-551`); a worker that has read a POST waits for that
   mutex (`src/dbgx-mcp.cpp:206`). The specification of the extension
   (`openspec/specs/windbg-http-mcp-eval/spec.md:62-64`) requires unloading to release
   what was created.
2. **A silent call need not be executing** (`silent_call`). `README.md:192` reads
   a `tool_execute_start` with nothing after it as a stall inside command
   execution; the echo is issued before the lock is taken, so a call that waits
   for an unload looks the same.
3. **The pattern filter depends on chunks** (`output_filter`). `Output` takes the end
   of a chunk for the end of a line (`src/windbg/dbgeng_command_executor.cpp:57`), so
   a matching line that arrives in two chunks can be dropped. With chunks that
   end with lines the filter is right (`FilterOfWholeLines`).
4. **The last header is never seen** (`http_headers`). `ParseHttpRequest` gets the
   header block without its last `\r\n` and breaks before it stores the last line
   (`src/mcp/http_server.cpp:176`); an unsupported `MCP-Protocol-Version` sent last is
   accepted, where `docs/MCP-transports.md:281` asks for a 400. Content-Length is
   not concerned: `ReceiveRequest` reads it from all lines.

5. **A notification that fails is answered with 200** (`notification_errors`). `HandleJsonRpcPost`
   answers it with an error whose id is null (`src/mcp/json_rpc.cpp:233-237`), while
   `docs/MCP-transports.md:97-102` asks for 202 without a body if a notification or response is accepted,
   and for an HTTP error status if it is not. A client-sent response with an id fares likewise
   (`src/mcp/json_rpc.cpp:215`): the code, and the model, do not tell it from a request without a method.

Noticed while modelling, modelled as they are, and without a run of their own:

- A second `Start` of a running server clears `listen_socket` and `bound_port`
  before it is refused (`src/mcp/http_server.cpp:382`); the socket can then no longer be
  closed. The extension never does this (`src/dbgx-mcp.cpp:250`). `StartRefused` models
  it, and `NoSocketLeak` and `IdleHoldsNothing` leave out the servers it happens to.
- The README's example of a failed call shows no `tool_execute_start` (lines
  182-187); the code echoes it for every `tools/call`.
- Scalars are not validated (`src/mcp/json.cpp:302-318`): `id` may be any run of
  characters up to a separator, and is put into the answer as it came. The answer
  is then read back as it was meant (`AnswersAsModelled`), though not by a strict parser.
- `\uD83D\uDE00` becomes two sequences of three bytes (`src/mcp/json.cpp:131`); a client that
  writes such a character as itself is not concerned. `TextUnchanged` covers what a
  single escape can write.
- The engine's output is put into the answer byte by byte and need not be UTF-8, which
  `docs/MCP-transports.md:11` asks for. The bridge then fails to decode the answer of a command that
  has run: `ReadFails` in `Bridge`.
- A `\u0000` in a value ends the line of the log there (`src/dbgx-mcp.cpp:53` takes a C
  string); values are not quoted, so a value with blanks can look like more fields.
- `openspec/specs/windbg-mcp-debug-observability/spec.md:20` asks for the name of the DLL in
  the log, `openspec/specs/windbg-http-mcp-eval/spec.md:28` for a word on serial use in the
  description of `command`; the code has neither.

## 5. Fairness

`Extension`'s `FairThreads` is weak fairness of each thread: a thread that can go on
does. The engine is not assumed to call anything, clients to send anything, or
commands to end. The lock is handed out weakly fairly only, although two engine threads and a worker may
contend for it, and no property needs more: while a worker waits for it the server is loaded, so
that an initialization finds it there and returns at once, and an unload that takes the
lock keeps it until the worker is joined.
`select`'s 200 ms timeout is the step from `Select` back to `CheckStop` and needs
no fairness of its own. `FairSurroundings` (commands end, connected clients send
their request, a client that stopped reading gives up) is a hypothesis of
`ConnectionsEnd` and of the two findings about liveness, which are therefore not
the fault of a bad client. `PortFallback` assumes that the thread in `Start` runs on, and
nothing of other processes. `Bridge` assumes that the bridge runs on and that `urlopen` gives
up in time, and nothing of the extension.

## 6. Proofs

All results hold for every value of the constants that satisfies the named
assumptions; `ThreadsDistinct` and `PortAssumption` say that the sets of identities
are disjoint and that numbers are numbers.

**ExtensionProofs.** No safety property of the extension is inductive. That a worker
finds the router depends on who holds the lock, on which thread `Impl` can join, and on
what a lifecycle call has done so far. The inductive invariant `IInv` has these parts:

- `HolderInv`: the lock's holder is the thread whose program counter is in a
  critical section;
- `ThreadInv`: a thread exists exactly if `Impl::worker` is it;
- `ConnInv`: a worker has a connection exactly between `accept` and `closesocket`;
- `PhaseInv`: at each point of a lifecycle call, and when there is none, the
  server is up, down, or stopping.

`Invariance` proves `IInv`; from it follow `TypeCorrect`, `ExclusionHolds`
(`LifecycleExclusion`), `NoOrphan` (`NoOrphanThread`), `ServesOrReleased`
(`ServingOrReleased`), `RouterIsThere` (`RouterNeverMissing`) and the action property
`NoCommandOnceStopping`, whose only interesting step is `BeginCommand`: it takes the lock
that `Cleanup` holds from before `stop_requested` is set until after the join.

**PortFallbackProofs.** `Sound` (types, and what each point of `Start` knows of its
sockets) is inductive by itself; the types alone are not, as the count of open
sockets could go below zero. `SearchInv` ties attempts, conflicts and the last port
together at each point of the loop. From these follow `ReportsTrue` (`ReportTrue`),
`WindowTried` (`ExhaustedAfterAll`) and `WindowKept` (`AttemptsBounded`). `NoLeak` and
`IdleReleased` add `HoldingsInv`: exact counts for the servers that are not started again while they
run, and for all servers, that the ports their sockets are bound to are theirs (`OwnsOf`), without which a
neighbour that closes its socket could free a port of theirs.

**McpRequestProofs.** No property of the answers is inductive: `AnswerTellsExecution`
compares an answer with what became of a command that ran a step earlier, and the router
that builds the answer knows nothing of it. First, lemmas about the functions that build
answers (`ErrorFits`, `AcceptedFits`, `ResultFits`, `RefusalFits`, `DirectFits`,
`ExecutedFits`) say for which outcome of the command each of them tells the truth. Then
the invariant: where the current request is tells what became of its command, and later
places are untouched (`ProgressInv`), every answer fits its request and its outcome
(`FitInv`), and a trace is the id of its request or a local number below
`next_local_trace_id` (`TraceInv`). From these follow `AnswersTellExecution`,
`AnswersMatchIds` and `TracesApart`, for any ids, any requests and any number of them. They
assume what `RequestAssumption` says of the constants: the markers for an absent field and
for text that is not a JSON object are neither ids nor messages.

The log. The outcome in the log is read back from the answer
(`RpcOutcome`), so again the functions that build answers are judged first (`ErrorOutcome`,
`AcceptedOutcome`, `ResultOutcome`, and from these `DirectOutcome` and `ExecutedOutcome`): for
which end of the command is the outcome of the answer true. Then the echoes: `RouteLog`, `AnswerLog` and
`RefusedLog` say what the log becomes when they are added. `LogInv` ties the log of the current
request to where it is, and says of every answered one that its log is complete and shows an
outcome that fits. `LogsTellOutcome` and `LogsComplete` follow, with `AnswerAssumption`: the
marker for an absent body is not a body.

**CommandExecutorProofs.** `CaptureAlive` is not inductive, as it says nothing of the number
of references between `Create` and `Return`; `RefsInv` gives that number for each point of
`Execute`, with and without the client still holding the callbacks. `CaptureLives` follows.

What is returned is compared with the whole text, while `Output` only sees one chunk at a time
and keeps nothing but the captured text and a count. `CaptureInv` says of every point in between what
the capture stands for, and the proof that `Output` keeps it goes down three levels.

1. Characters: `PiecesByChar` gives the lines of a text one character longer. Hence
   `PiecesAreLines` (they are lines, and the text when put together) and `PiecesByPiece`: a piece more
   begins a line, or ends the line before it (`Join`). Two chunks joined have other lines than the two
   apart exactly there.
2. Turns of the loop: `TurnBounded` and `TurnCuts` say what one turn does to the count, to the marker, and to
   a capture that is some lines cut at the limit (`CutAt`). A piece without a newline
   is not counted, so `CutAt` distinguishes a last line that is still open.
3. Chunks: `ChunkBounded`, `ChunkCuts` and `ChunkSelects` follow by induction over the pieces of a chunk.
   For `ChunkSelects` every chunk must end a line, or a pattern would be looked for in
   halves of lines: the third finding is where this proof cannot be made.

`ReturnedIsBounded`, `FirstLinesReturned` and `SelectedLinesReturned` hold for any alphabet, any
text, any patterns and limits, negative ones too, and any chunks; `MaxText` and `MaxChunk` are any numbers.

**HttpConnectionProofs.** Three results about reception are consequences of one invariant,
`ReceiveInv`: while a request is read, `header_end` is what a search of all that was
received would find, `content_length` is what the lines before it declare, and no complete request is waiting;
what was returned is what it would be had everything come at once. That a further chunk keeps it
rests on `EndStays`: the first `\r\n\r\n` of a text is the first of every longer text, and none is missed where
two chunks meet, as all that was received is searched again. `BodyIsAnnounced` needs
arithmetic besides: `ParsedIsValue` shows that `ParseContentLength`, which gives up before it can exceed
the limit, accepts exactly the numbers up to the limit, of any number of digits.

For the answer, `TextOfAnswer` says what `BuildHttpResponseText` builds, position by position; `EndOfAnswer` that
the first empty line in it is the one after the header, whatever the body holds; `ReadsPartialOrWhole` that
each of its prefixes is partial to a client or the whole. `WireInv` says that what has been sent is such a prefix.
`ReadWholeOrNotAtAll` follows for any responses and sizes. `ConnectionAssumption` says what
the code's responses are: without `has_body` the body is empty (`src/mcp/json_rpc.cpp:210`, `:223`; the
text then announces 0, `src/mcp/http_server.cpp:286`), and a header line is neither `\r` nor `\n`.
`ConnectionReceives` carries the results about reception over to the connection.

**SequenceLemmas.** Many of these proofs are by induction over a text, and define a function along it. The
induction theorems of the library take an operator as a parameter, which the provers cannot
instantiate. Here the induction hypothesis is a set: `SetInduction` and `BoundedInduction` speak of
numbers in a set, `SeqInduction` of a set of sequences that contains the empty one and every `Append`,
`RecursionExists` of a step function for each place. `FlattenSeq` of the community modules
is a recursive function of its own; the `Flatten` lemmas characterise it once.

**MessageTextProofs.** From one string to the answer as a whole, for texts of any length.

1. Strings. The client's view of a string is a sequence of units: a character that stands
   for itself, a backslash and a letter, or `\u` and four digits (`Units`, `UnitText`).
   `StringsAreRead`: wherever such a sequence stands between quotes, `ParseJsonString` gives the texts of its
   units in order and the place after the closing quote, however each character is spelled.
   `OnlyStringsAreRead`: it accepts nothing else. `EscapedReadBack`: what `Escape` has written is read back
   unchanged. `EscapesAreUtf8`: the bytes for a `\u` escape are those of the code point (surrogates one by one,
   section 4).
2. Places. `Ends` is one function for the three parsing functions that call one another.
   `EndsAdvance` shows that it satisfies its definition, and that every one of them fails or ends
   behind its beginning and within the text, which is why the recursion ends.
   `EndsCopied` is the core of the rest: what a value, or the rest of an object or array, looks like is decided
   by its own symbols alone (a scalar also by the separator behind it), so that it ends at the
   corresponding place in every text it is copied into. By induction from the last place to the first.
3. Values. `Values` are the texts that are read to their end, wherever they stand. `AcceptedIsValue`: all
   that the parser accepts is one. So are words, quoted strings, and arrays and objects of
   values (`WordIsValue`, `QuotedIsValue`, `ArrayIsValue`, `ObjectIsValue`).
4. Fields. `FieldsAreValues` and `ObjectFieldsAreValues`: what `ParseObjectFields` finds in any text at all are
   names and values. `ObjectsReadBack`: an object put together of names, in any spelling, and values is read back with
   these values, that of the last member where a name is repeated.
5. Answers. `ErrorUnderstood` and `ResultUnderstood` read back what `BuildJsonRpcError` and `BuildJsonRpcSuccess`
   have written around an id, an output or a code. With the lemmas on what `McpRequest` sees of a
   message (`MethodsKept`, `CallsAgree`, `MessageParts`), `AnswersDecided` goes through `HandleJsonRpcPost` case by case:
   for any text and any output the answer says what `McpRequest` decides. As the body is a text
   (`BodyIsTyped`), `AnswersAreAsModelled` follows: the id goes into the answer as it came, and cannot break it,
   because the parser accepted it as a value.
6. Lines of the log. `Tells` says what fields of a line show of the trace, the id and the outcome, and that each
   text has no line break (`TruncatedUnbroken`: whatever is shown goes through `TruncateForSummary`);
   `TellsConcat` carries it over the parts a line is put together of. `ContextOfRequest`: the
   context has the id as it was read, and an id is never the empty text that
   is left out, because it is a value. `AnswerRead`: what `ParseResponseIoMeta` reads of an answer is the
   outcome that a client understands, if the answer is one of `AnswerTexts`, and by `AnswersAreTexts` and
   `RefusalsAreTexts` no other is sent. `EchoesAreTrue` follows for any limit `kSummaryValueLimit`.
7. Commands and outputs. `TextUnchanged` needs an invariant of its own, `BodyWhole`: what has been
   written, and every chunk that may follow, ends with a whole character, and two such texts in a row are one
   (`Utf8Concat`); with half a character at the end, `AppendUtf8` would not give back what the client escaped.
   `Spelled` relates what stands between quotes to the text it is read as. `CharSpelled`: either way a client
   writes a character spells it, an escape sequence because `AppendUtf8` is the inverse of the client's
   `CodePoint` (`CodePointRead`). `EscapedSpelled` carries this over whole texts.
   `DecimalRead` and `IntegerRead` say the same of numbers: the digits of any integer
   are read as it, and as absent outside of `int`, although `Number` stops counting above it. `CallRead` puts these
   into a call, `OutputRead` and `ContentRead` find the output in the answer, and `TextIsUnchanged` follows
   for commands and outputs of any length.

`AbsentAssumption` and `MessageAssumption` say that the markers for what is absent are no texts,
numbers, names, calls or answers; `OutputsAssumption`, that outputs are texts; `LimitAssumption` and
`IntAssumption`, that the limit and the largest `int` are natural numbers; `StartsAssumption`, that a client writes
whole characters (of up to three bytes: section 4).

**`Extension` and `EvalService`** (second half of `ExtensionProofs`). That `Extension` implements `EvalService` needs more than `IInv`: what
becomes of a call depends on the connection it came in on, and a step of a worker would be
one of another client's call if two workers, or a worker and the queue, had the same
connection. The argument has four parts.

1. `ConnectionsKept`: `ConnectionsAccounted` is inductive relative to `IInv`. The lemmas about
   taking a connection out of a queue of different ones (`TakenOut`, `FirstOut`) and adding
   one (`LastIn`) carry it; `IInv` contributes that there is only one worker (`OneHolder`).
2. `RequestInv`: what a worker is doing tells what was asked of it.
3. `JobFacts`: the refinement mapping `Job` as a function of the program counter of the one
   worker that holds the connection.
4. `Simulation`: under these, each step of `Extension` is one of `EvalService` or leaves its
   variables alone. `RouteRequest` accepts a call, `BeginCommand` runs it, `FinishCommand` and
   `SendReply` end it; `InitializeCreate` loads the service, and `StartFails` and `StopJoined`
   unload it, when, by `IInv`, there is no worker and so no call.

`EvalServiceImplemented` follows: every behaviour of `Extension` is one of the
service, for any number of engine threads, workers and clients.

**BridgeProofs.** That `stdout` and `executed` increase is not inductive: what will be appended comes
from the queue, and the queue from lines not read yet. `IInv` says that what has run or been
answered comes before what waits (`OrderInv`), that nothing anywhere is later than the current
line (`PlaceInv`), that only the connection the bridge waits on is not abandoned, and that
with its answer there the queue is empty (`WaitInv`). `AnswersKeepOrder` and
`CommandsKeepOrder` follow for any number of lines.

`PortFallbackProofs!WindowKept` proves `AttemptsBounded`, which no run lists.

Only model-checked:

- liveness (TLAPS does not handle ENABLED), so `UnloadHangsOnlyAtStalls`, `ConnectionsEnd`,
  `StartReturns` and `LinesDone`;
- `FieldsAsWritten`, as the grammar is made of operators that call one another, and
  what such an operator yields is out of the provers' reach; one direction has a counterpart without a
  grammar, `ObjectsReadBack`.

## 7. What is not modelled

- *`LogMessage`*: writes a line, keeps no state.
- *Characters within the lines of an HTTP header*: a line is one symbol.
- *The characters of a surrogate pair* (section 4).
- *The depth of the stack* while `SkipJsonValue` recurses: only `kMaxBodyBytes` bounds it, and its
  size is the engine's choice.
- *Fixed texts*: the list of tools, messages for people, the order and layout of headers.
- *A `windbg.eval` that unloads the extension itself*: whether `Cleanup` then runs on
  the worker depends on the engine.
- *Reuse of a socket handle* between `closesocket` in `Stop` and the worker's
  `accept`: the model lets the worker see the socket open or closed, not another one.
- *`std::thread` failing to start*: the exception leaves the exported function.
- *`BoundPort` after `Stop`*: the old port is still returned; nothing in the extension asks
  for it then.
- Build, exports, CI, tests and documents have no run-time behaviour; the documents are
  used as statements about the program.

## 8. Plan

Done: the lifecycle and worker with its abstract service and the proof that it implements it, the
port search, request handling, a connection from the first byte received to the last one sent,
the executor, the bridge, and messages, answers and log lines as text; proofs of all
safety properties but `FieldsAsWritten`, as in section 6.

Left: a `windbg.eval` that unloads the extension, for both threads
the engine may use, once it is known which of them it uses.
