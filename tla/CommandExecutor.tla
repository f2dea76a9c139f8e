--------------------------- MODULE CommandExecutor ---------------------------
(***************************************************************************)
(* DbgEngCommandExecutor::Execute: a debugger client is created, its       *)
(* output callbacks replaced by an OutputCaptureCallbacks, the command run *)
(* and the callbacks put back.  The engine hands the command's text to     *)
(* Output in chunks of its own choosing, and every call can fail.          *)
(*                                                                         *)
(* Only one command runs at a time: ExtensionProofs!ExclusionHolds.        *)
(***************************************************************************)
EXTENDS Integers, Sequences, FiniteSets, SequencesExt

CONSTANTS
  Chars,      \* characters of the text, NL among them
  NL,         \* the newline
  Marker,     \* "\n[... truncated ...]\n", one character of the output here
  Patterns,   \* values of CommandExecutionOptions::pattern, as sequences
  Limits,     \* values of max_lines
  MaxText,    \* characters a command prints
  MaxChunk    \* characters the engine passes to Output at once

ASSUME ExecutorAssumption ==
  /\ NL \in Chars /\ Marker \notin Chars
  /\ Patterns \subseteq Seq(Chars \ {NL})
  /\ Limits \subseteq Int
  /\ MaxText \in Nat /\ MaxChunk \in Nat

VARIABLES
  pc,          \* where Execute is
  options,     \* the pattern and max_lines of the call
  capture,     \* output_, line_count_ and truncated_ of the callbacks object
  refs,        \* ref_count_ of the callbacks object, 0 once it is deleted
  installed,   \* the client's output callbacks are the object
  printed,     \* the chunks the command printed
  result       \* CommandExecutionResult

vars == <<pc, options, capture, refs, installed, printed, result>>

Captures == [output : Seq(Chars \cup {Marker}), lines : Nat, truncated : BOOLEAN]
Results == [success : BOOLEAN, output : Seq(Chars \cup {Marker}), error : {"", "setup", "execute"}]
NoResult == [success |-> FALSE, output |-> <<>>, error |-> ""]

TypeOK ==
  /\ pc \in {"create", "install", "execute", "restore", "release", "return", "done"}
  /\ options \in [pattern : Patterns, maxLines : Limits]
  /\ capture \in Captures
  /\ refs \in 0..2
  /\ installed \in BOOLEAN
  /\ printed \in Seq(Seq(Chars))
  /\ result \in Results

Empty == [output |-> <<>>, lines |-> 0, truncated |-> FALSE]

Init ==
  /\ pc = "create"
  /\ options \in [pattern : Patterns, maxLines : Limits]
  /\ capture = Empty
  /\ refs = 0
  /\ installed = FALSE
  /\ printed = <<>>
  /\ result = NoResult

-----------------------------------------------------------------------------
(* OutputCaptureCallbacks::Output *)

EndsLine(piece) == piece # <<>> /\ Last(piece) = NL

\* A character after the lines so far: it begins a line or belongs to the last.
AddChar(ps, c) ==
  IF ps = <<>> \/ EndsLine(Last(ps))
  THEN Append(ps, <<c>>)
  ELSE Append(Front(ps), Append(Last(ps), c))

\* The lines of a text, each with its newline; the last one may have none.
Pieces(text) ==
  LET ps[i \in 0..Len(text)] == IF i = 0 THEN <<>> ELSE AddChar(ps[i - 1], text[i])
  IN ps[Len(text)]

Occurs(pattern, piece) ==
  \E i \in 0..(Len(piece) - Len(pattern)) : SubSeq(piece, i + 1, i + Len(pattern)) = pattern

\* Mutants of TakePiece: the limit is one line late; a piece without a newline
\* counts as a line; so does a line the pattern leaves out.
TakeOneMore(cap, opts, piece) ==
  IF cap.truncated \/ ~Occurs(opts.pattern, piece) THEN cap
  ELSE IF cap.lines <= opts.maxLines
  THEN [cap EXCEPT !.output = @ \o piece, !.lines = @ + (IF EndsLine(piece) THEN 1 ELSE 0)]
  ELSE [cap EXCEPT !.output = Append(@, Marker), !.truncated = TRUE]
TakeCounting(cap, opts, piece) ==
  IF cap.truncated \/ ~Occurs(opts.pattern, piece) THEN cap
  ELSE IF cap.lines < opts.maxLines
  THEN [cap EXCEPT !.output = @ \o piece, !.lines = @ + 1]
  ELSE [cap EXCEPT !.output = Append(@, Marker), !.truncated = TRUE]
TakeCountingAll(cap, opts, piece) ==
  IF cap.truncated THEN cap
  ELSE IF ~Occurs(opts.pattern, piece) THEN [cap EXCEPT !.lines = @ + 1]
  ELSE IF cap.lines < opts.maxLines
  THEN [cap EXCEPT !.output = @ \o piece, !.lines = @ + (IF EndsLine(piece) THEN 1 ELSE 0)]
  ELSE [cap EXCEPT !.output = Append(@, Marker), !.truncated = TRUE]

\* One turn of the loop of Output.  After truncation everything is ignored,
\* which is what its break and its early return come to.
TakePiece(cap, opts, piece) ==
  IF cap.truncated \/ ~Occurs(opts.pattern, piece) THEN cap
  ELSE IF cap.lines < opts.maxLines
  THEN [cap EXCEPT !.output = @ \o piece, !.lines = @ + (IF EndsLine(piece) THEN 1 ELSE 0)]
  ELSE [cap EXCEPT !.output = Append(@, Marker), !.truncated = TRUE]

TakePieces(cap, opts, pieces) ==
  LET caps[i \in 0..Len(pieces)] ==
        IF i = 0 THEN cap ELSE TakePiece(caps[i - 1], opts, pieces[i])
  IN caps[Len(pieces)]

TakeChunk(cap, opts, chunk) == TakePieces(cap, opts, Pieces(chunk))

-----------------------------------------------------------------------------
(* DbgEngCommandExecutor::Execute *)

Moves(from, to) == pc = from /\ pc' = to

Failed(error) == [success |-> FALSE, output |-> <<>>, error |-> error]

\* DebugCreate or the query for IDebugControl failed.
CreateFails ==
  /\ Moves("create", "done")
  /\ result' = Failed("setup")
  /\ UNCHANGED <<options, capture, refs, installed, printed>>

\* new OutputCaptureCallbacks: its first reference is Execute's.
Create ==
  /\ Moves("create", "install")
  /\ refs' = 1
  /\ UNCHANGED <<options, capture, installed, printed, result>>

Install ==
  /\ Moves("install", "execute")
  /\ installed' = TRUE
  /\ refs' = refs + 1
  /\ UNCHANGED <<options, capture, printed, result>>

\* Mutant of InstallFails: the capture is released twice.
InstallFailsTwice ==
  /\ Moves("install", "done")
  /\ refs' = refs - 2
  /\ result' = Failed("setup")
  /\ UNCHANGED <<options, capture, installed, printed>>

InstallFails ==
  /\ Moves("install", "done")
  /\ refs' = refs - 1
  /\ result' = Failed("setup")
  /\ UNCHANGED <<options, capture, installed, printed>>

Text == FlattenSeq(printed)

\* The engine calls Output while the command runs.
Output(chunk) ==
  /\ pc = "execute"
  /\ Len(Text) + Len(chunk) <= MaxText
  /\ printed' = Append(printed, chunk)
  /\ capture' = TakeChunk(capture, options, chunk)
  /\ UNCHANGED <<pc, options, refs, installed, result>>

\* IDebugControl::Execute returns.
Executed ==
  /\ Moves("execute", "restore")
  /\ \E ok \in BOOLEAN :
       result' = [success |-> ok, output |-> <<>>, error |-> IF ok THEN "" ELSE "execute"]
  /\ UNCHANGED <<options, capture, refs, installed, printed>>

\* The previous callbacks are put back; a failure to do so is ignored.
Restore ==
  /\ Moves("restore", "release")
  /\ \/ installed' = FALSE /\ refs' = refs - 1
     \/ UNCHANGED <<installed, refs>>
  /\ UNCHANGED <<options, capture, printed, result>>

\* Mutant of TakeAndRelease: Execute keeps its reference.
TakeOnly ==
  /\ Moves("release", "return")
  /\ result' = [result EXCEPT !.output = capture.output]
  /\ UNCHANGED <<options, capture, refs, installed, printed>>

\* TakeOutput, then Release.
TakeAndRelease ==
  /\ Moves("release", "return")
  /\ result' = [result EXCEPT !.output = capture.output]
  /\ refs' = refs - 1
  /\ UNCHANGED <<options, capture, installed, printed>>

\* Execute returns and releases its client, with the callbacks it still has.
Return ==
  /\ Moves("return", "done")
  /\ installed' = FALSE
  /\ refs' = IF installed THEN refs - 1 ELSE refs
  /\ UNCHANGED <<options, capture, printed, result>>

Chunks == BoundedSeq(Chars, MaxChunk) \ {<<>>}

Next ==
  \/ CreateFails \/ Create \/ Install \/ InstallFails
  \/ \E chunk \in Chunks : Output(chunk)
  \/ Executed \/ Restore \/ TakeAndRelease \/ Return

Spec == Init /\ [][Next]_vars

-----------------------------------------------------------------------------
(* Properties *)

\* The callbacks object lives as long as the engine may call it and no
\* longer: it is deleted when Execute has returned, whichever call failed.
CaptureAlive ==
  /\ installed => refs > 0
  /\ pc = "done" => refs = 0

\* Without a pattern the client gets what the command printed, cut after
\* max_lines lines with a marker if there was more, however the engine cut
\* the text into chunks.
Lines == Pieces(Text)
FirstLines(n) == FlattenSeq(SubSeq(Lines, 1, n))
PrefixReturned ==
  LET limit == IF options.maxLines < 0 THEN 0 ELSE options.maxLines IN
  pc = "done" /\ result.error # "setup" /\ options.pattern = <<>> =>
    result.output = IF Len(Lines) <= limit THEN Text
                    ELSE Append(FirstLines(limit), Marker)

\* What is returned has at most max_lines lines, and the marker at its end
\* only, with any pattern and any chunks.
NewlinesIn(s) == Cardinality({i \in 1..Len(s) : s[i] = NL})
OutputBounded ==
  /\ NewlinesIn(result.output) <= (IF options.maxLines < 0 THEN 0 ELSE options.maxLines)
  /\ \A i \in 1..Len(result.output) : result.output[i] = Marker => i = Len(result.output)

\* When every chunk ends a line, the pattern selects whole lines: the client
\* gets the first max_lines lines that contain it.
WholeChunks == \A i \in 1..Len(printed) : EndsLine(printed[i])
Select(pattern, lines) ==
  FlattenSeq([i \in 1..Len(lines) |-> IF Occurs(pattern, lines[i]) THEN <<lines[i]>> ELSE <<>>])
Selected == Select(options.pattern, Lines)
FilterOfWholeLines ==
  LET limit == IF options.maxLines < 0 THEN 0 ELSE options.maxLines IN
  pc = "done" /\ result.error # "setup" /\ WholeChunks =>
    result.output = IF Len(Selected) <= limit THEN FlattenSeq(Selected)
                    ELSE Append(FlattenSeq(SubSeq(Selected, 1, limit)), Marker)

\* json_rpc.cpp:79, the description of the tool: pattern is a substring
\* filter, of the lines of the output whatever the chunks they came in.
FilterOfLines ==
  pc = "done" /\ result.error # "setup" /\ Len(Lines) <= options.maxLines =>
    result.output = FlattenSeq(Selected)
=============================================================================
