-------------------------------- MODULE Bridge --------------------------------
(***************************************************************************)
(* windbg-bridge.py between a stdio client and the extension: one line at  *)
(* a time is read, posted over a connection of its own, and its answer     *)
(* written, unless it took longer than ten seconds.  The extension, which  *)
(* Extension models, is here a queue of connections served in order: what  *)
(* the bridge has given up on may still be executed.                       *)
(***************************************************************************)
EXTENDS Naturals, Sequences, SequencesExt

CONSTANT MaxLines   \* lines the client writes

ASSUME MaxLinesAssumption == MaxLines \in Nat

Numbers == 1..MaxLines

\* Lines by what becomes of them: blank ones are dropped; a command is
\* executed and answered with 200 and a body, a notification with 202 and
\* none; what the extension cannot parse is answered with 400.
Kinds == {"blank", "command", "notification", "garbage"}

VARIABLES
  stdin,      \* the kinds of the lines written so far
  current,    \* the number of the line the bridge read last
  pc,         \* where the bridge is: "read" or, in urlopen, "post" or "wait"
  queue,      \* connections the extension has not answered, by line
  abandoned,  \* lines whose connection the bridge closed
  response,   \* the answer on the bridge's connection: its status, 0 for none
  executed,   \* commands the debugger has run, by line
  stdout      \* answers written, by line

vars == <<stdin, current, pc, queue, abandoned, response, executed, stdout>>

TypeOK ==
  /\ stdin \in Seq(Kinds) /\ Len(stdin) <= MaxLines
  /\ current \in 0..Len(stdin)
  /\ pc \in {"read", "post", "wait"}
  /\ queue \in Seq(Numbers)
  /\ abandoned \subseteq Numbers
  /\ response \in {0, 200, 202, 400}
  /\ executed \in Seq(Numbers)
  /\ stdout \in Seq(Numbers)

Init ==
  /\ stdin = <<>>
  /\ current = 0
  /\ pc = "read"
  /\ queue = <<>>
  /\ abandoned = {}
  /\ response = 0
  /\ executed = <<>>
  /\ stdout = <<>>

-----------------------------------------------------------------------------
(* The client and the bridge *)

Write(kind) ==
  /\ Len(stdin) < MaxLines
  /\ stdin' = Append(stdin, kind)
  /\ UNCHANGED <<current, pc, queue, abandoned, response, executed, stdout>>

Moves(from, to) == pc = from /\ pc' = to

\* readline; a line that is empty once stripped is not posted.
ReadLine ==
  /\ current < Len(stdin)
  /\ current' = current + 1
  /\ Moves("read", IF stdin[current'] = "blank" THEN "read" ELSE "post")
  /\ UNCHANGED <<stdin, queue, abandoned, response, executed, stdout>>

\* urlopen connects and sends the request.
Connect ==
  /\ Moves("post", "wait")
  /\ queue' = Append(queue, current)
  /\ response' = 0
  /\ UNCHANGED <<stdin, current, abandoned, executed, stdout>>

\* No connection: a URLError, which is only logged.
ConnectFails ==
  /\ Moves("post", "read")
  /\ UNCHANGED <<stdin, current, queue, abandoned, response, executed, stdout>>

\* Mutants of TimesOut: urlopen has no timeout; the request is posted again;
\* the answer is awaited on the same connection while the next line is read.
WaitForever == FALSE
TimeoutRetries ==
  /\ response = 0
  /\ Moves("wait", "post")
  /\ abandoned' = abandoned \cup {current}
  /\ UNCHANGED <<stdin, current, queue, response, executed, stdout>>
TimeoutKeeps ==
  /\ response = 0
  /\ Moves("wait", "read")
  /\ UNCHANGED <<stdin, current, queue, abandoned, response, executed, stdout>>

\* Ten seconds without an answer, or a connection the extension reset: the
\* bridge closes it and goes on to the next line.
TimesOut ==
  /\ response = 0
  /\ Moves("wait", "read")
  /\ abandoned' = abandoned \cup {current}
  /\ UNCHANGED <<stdin, current, queue, response, executed, stdout>>

\* A body is written to stdout; none is skipped; a status of 400 is an
\* HTTPError, which is only logged.
ReadResponse ==
  /\ response # 0
  /\ Moves("wait", "read")
  /\ stdout' = IF response = 200 THEN Append(stdout, current) ELSE stdout
  /\ UNCHANGED <<stdin, current, queue, abandoned, response, executed>>

\* The answer was cut off, or its body is not UTF-8: read or decode raises an
\* exception, which is only logged.
ReadFails ==
  /\ response = 200
  /\ Moves("wait", "read")
  /\ UNCHANGED <<stdin, current, queue, abandoned, response, executed, stdout>>

-----------------------------------------------------------------------------
(* The extension *)

\* Mutant of StatusOf: what has no answer of its own fails in the server.
StatusOrFailure(kind) == IF kind = "command" THEN 200 ELSE 500

StatusOf(kind) ==
  CASE kind = "command" -> 200 [] kind = "notification" -> 202 [] OTHER -> 400

\* The oldest connection is served; its answer reaches the bridge if that
\* still waits.  A request whose client is gone may be lost with it.
Serve ==
  /\ queue # <<>>
  /\ queue' = Tail(queue)
  /\ LET i == Head(queue) IN
       /\ response' = IF i \in abandoned THEN response ELSE StatusOf(stdin[i])
       /\ executed' \in {IF stdin[i] = "command" THEN Append(executed, i) ELSE executed}
                        \cup (IF i \in abandoned THEN {executed} ELSE {})
  /\ UNCHANGED <<stdin, current, pc, abandoned, stdout>>

BridgeStep ==
  \/ ReadLine \/ Connect \/ ConnectFails
  \/ TimesOut \/ ReadResponse \/ ReadFails

Next == (\E kind \in Kinds : Write(kind)) \/ BridgeStep \/ Serve

Spec == Init /\ [][Next]_vars

\* The bridge runs on, and urlopen gives up after its timeout.  Nothing is
\* assumed of the extension: a command may run forever.
FairSpec == Spec /\ WF_vars(BridgeStep)

-----------------------------------------------------------------------------
(* Properties *)

Increasing(s) == \A i, j \in 1..Len(s) : i < j => s[i] < s[j]

\* The client gets its answers in the order of its requests and at most one
\* for each, whatever was given up on in between; and a command that was
\* answered has run.
AnswersInOrder ==
  /\ Increasing(stdout)
  /\ \A i \in 1..Len(stdout) :
       stdin[stdout[i]] = "command" /\ Contains(executed, stdout[i])

\* Commands run in the order they were written and once at most, those the
\* bridge gave up on included; and what is left to run when the client reads
\* an answer is none of the earlier ones: it may send the next command without
\* overtaking any.
CommandsInOrder ==
  /\ Increasing(executed)
  /\ \A i \in 1..Len(stdout), j \in 1..Len(queue) : queue[j] > stdout[i]

\* No line holds the bridge up, however long its command runs.
LinesDone ==
  \A i \in Numbers :
    Len(stdin) >= i ~> (current > i \/ (current = i /\ pc = "read"))
=============================================================================
