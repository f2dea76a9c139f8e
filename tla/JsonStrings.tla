------------------------------- MODULE JsonStrings -------------------------------
(***************************************************************************)
(* Strings in the texts of dbgx::json: ParseJsonString and Escape.  A text *)
(* is a sequence of bytes, as in JsonText; places are those of the next    *)
(* symbol to read, and 0 stands for a function that returned false.        *)
(***************************************************************************)
EXTENDS Integers, Sequences, SequencesExt

Quote == 34
Slash == 47
Backslash == 92
Digits == 48..57
Controls == 0..31

\* text[pos], and a symbol no text holds past its end.
End == -1
At(t, p) == IF p \in 1..Len(t) THEN t[p] ELSE End

Quoted(t) == <<Quote>> \o t \o <<Quote>>

-----------------------------------------------------------------------------
(* ParseJsonString *)

\* HexDigitValue, End for what IsHexDigit rejects.
HexDigitValue(c) ==
  CASE c \in Digits -> c - 48
    [] c \in 97..102 -> c - 87
    [] c \in 65..70 -> c - 55
    [] OTHER -> End

\* Mutant of AppendUtf8: the middle byte is not masked.
AppendUnmasked(code) ==
  IF code <= 127 THEN <<code>>
  ELSE IF code <= 2047 THEN <<192 + (code \div 64), 128 + (code % 64)>>
  ELSE <<224 + (code \div 4096), 128 + (code \div 64), 128 + (code % 64)>>

\* AppendUtf8 of a code point that four hex digits can write.
AppendUtf8(code) ==
  IF code <= 127 THEN <<code>>
  ELSE IF code <= 2047 THEN <<192 + (code \div 64), 128 + (code % 64)>>
  ELSE <<224 + (code \div 4096), 128 + ((code \div 64) % 64), 128 + (code % 64)>>

\* What the letter after a backslash stands for, without the u.
EscapeLetters == {98, 102, 110, 114, 116}
Escapable == {Quote, Backslash, Slash} \cup EscapeLetters
Unescaped(c) == CASE c = 98 -> 8 [] c = 102 -> 12 [] c = 110 -> 10 [] c = 114 -> 13
                  [] c = 116 -> 9 [] OTHER -> c
LetterU == 117

\* The four digits at p.
Hex(t, p) == [i \in 0..3 |-> HexDigitValue(At(t, p + i))]
HexValue(h) == ((h[0] * 16 + h[1]) * 16 + h[2]) * 16 + h[3]

\* The escape sequence whose backslash is before p: its length and text.
EscapeOf(c, h) ==
  IF c \in Escapable
  THEN [length |-> 1, text |-> <<Unescaped(c)>>]
  ELSE IF c = LetterU /\ \A i \in 0..3 : h[i] # End
  THEN [length |-> 5, text |-> AppendUtf8(HexValue(h))]
  ELSE [length |-> 0, text |-> <<>>]
EscapeAt(t, p) == EscapeOf(At(t, p), Hex(t, p + 1))

NoString == [pos |-> 0, out |-> <<>>]

\* What stands for itself in a string.
Plain(c) == c \notin Controls \cup {Quote, Backslash, End}

\* A text before what is read of the rest, if the rest can be read.
Prefixed(text, rest) == IF rest.pos = 0 THEN NoString ELSE [rest EXCEPT !.out = text \o @]

\* What is read from p on within a string, given what is from every later place.
ReadAt(t, p, read) ==
  LET c == At(t, p) e == EscapeAt(t, p + 1) IN
  CASE c = Quote -> [pos |-> p + 1, out |-> <<>>]
    [] c = Backslash /\ e.length > 0 -> Prefixed(e.text, read[p + 1 + e.length])
    [] Plain(c) -> Prefixed(<<c>>, read[p + 1])
    [] OTHER -> NoString

StringRest(t) == LET read[p \in 1..(Len(t) + 1)] == ReadAt(t, p, read) IN read

ParseJsonString(t, p) == IF At(t, p) = Quote THEN StringRest(t)[p + 1] ELSE NoString

-----------------------------------------------------------------------------
(* Escape *)

HexDigit(n) == IF n < 10 THEN 48 + n ELSE 55 + n

\* Mutant of EscapeSymbol: a backslash is copied.
EscapeButBackslash(c) ==
  CASE c = Quote -> <<Backslash, c>> [] c = 10 -> <<Backslash, 110>> [] OTHER -> <<c>>

EscapeSymbol(c) ==
  IF c \in {Quote, Backslash} THEN <<Backslash, c>>
  ELSE IF \E letter \in EscapeLetters : Unescaped(letter) = c
  THEN <<Backslash, CHOOSE letter \in EscapeLetters : Unescaped(letter) = c>>
  ELSE IF c \in Controls
  THEN <<Backslash, LetterU, 48, 48, HexDigit(c \div 16), HexDigit(c % 16)>>
  ELSE <<c>>

Escape(t) == FlattenSeq([i \in 1..Len(t) |-> EscapeSymbol(t[i])])

-----------------------------------------------------------------------------
(* What a client writes and reads *)

HexDigits == Digits \cup 65..70 \cup 97..102
MustEscape == Controls \cup {Quote, Backslash}

\* One character of a string, or one escape sequence.
IsUnit(u) ==
  CASE Len(u) = 1 -> u[1] \notin MustEscape
    [] Len(u) = 2 -> u[1] = Backslash /\ u[2] \in Escapable
    [] OTHER -> u[1] = Backslash /\ u[2] = LetterU /\ \A i \in 3..6 : u[i] \in HexDigits

\* The length of the UTF-8 sequence a byte begins (a word is one symbol), and
\* the code point of one of two or three bytes.
Width(c) == CASE c \in 192..223 -> 2 [] c \in 224..239 -> 3 [] OTHER -> 1
CodePoint(t) ==
  CASE Len(t) = 1 -> t[1]
    [] Len(t) = 2 -> (t[1] - 192) * 64 + t[2] - 128
    [] OTHER -> ((t[1] - 224) * 64 + t[2] - 128) * 64 + t[3] - 128
=============================================================================
