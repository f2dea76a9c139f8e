-------------------------- MODULE MessageTextProofs --------------------------
(***************************************************************************)
(* What is proved of texts of any length.  ParseJsonString reads every     *)
(* string a client may write, however it spells each character, and        *)
(* nothing else; what Escape has written is read back unchanged.  Ends     *)
(* moves forward and reads a value alike wherever it stands, so that what  *)
(* is put together of values is read back as these values.  From that the  *)
(* answers are the ones McpRequest decides, whatever the client writes;    *)
(* every line of the log shows whose it is, without breaking it; and a     *)
(* command and what it printed arrive unchanged.                           *)
(***************************************************************************)
EXTENDS MessageText, SequenceLemmas

-----------------------------------------------------------------------------
(* Symbols and escape sequences *)


\* At is the symbol inside the text and End outside of it.
LEMMA SymbolAt ==
  ASSUME NEW t \in Seq(Nat), NEW p \in Int
  PROVE  /\ p \in 1..Len(t) => At(t, p) = t[p] /\ At(t, p) \in Nat
         /\ p \notin 1..Len(t) => At(t, p) = End
         /\ At(t, p) \in Nat \cup {End}
<1>1. p \in 1..Len(t) => t[p] \in Nat
  BY ElementOfSeq
<1> QED
  BY <1>1 DEF At

\* The value of a hex digit, and that nothing else has one.
LEMMA HexDigitRange ==
  ASSUME NEW c \in Nat \cup {End}
  PROVE  /\ c \in HexDigits => HexDigitValue(c) \in 0..15
         /\ c \notin HexDigits => HexDigitValue(c) = End
BY DEF HexDigits, Digits, HexDigitValue, End

\* The code points that four hex digits can write, those below 16 * 4096.
Codes == {n \in Nat : n \div 4096 < 16}

\* Four hex digits write a code point of at most sixteen bits.
LEMMA HexRange ==
  ASSUME NEW digits \in [0..3 -> 0..15]
  PROVE  HexValue(digits) \in Codes
<1> DEFINE a == digits[0]
           b == digits[1]
           c == digits[2]
           d == digits[3]
<1> HIDE DEF a, b, c, d
<1>1. a \in 0..15 /\ b \in 0..15 /\ c \in 0..15 /\ d \in 0..15
  BY DEF a, b, c, d
<1> DEFINE x == a * 16 + b
           y == x * 16 + c
<1> HIDE DEF x, y
<1>2. HexValue(digits) = y * 16 + d
  BY DEF HexValue, a, b, c, d, x, y
<1>3. x \in 0..255
  BY <1>1 DEF x
<1>4. y \in 0..4095
  BY <1>1, <1>3 DEF y
<1>5. y * 16 + d \in Codes
  BY <1>1, <1>4 DEF Codes
<1> QED
  BY <1>2, <1>5

\* AppendUtf8 appends symbols.
LEMMA Utf8Bytes ==
  ASSUME NEW code \in Codes
  PROVE  AppendUtf8(code) \in Seq(Nat)
<1>1. code \div 64 \in Nat /\ code % 64 \in Nat /\ code \div 4096 \in Nat
  <2>1. code \div 64 \in Nat
    BY DEF Codes
  <2>2. code % 64 \in Nat
    BY DEF Codes
  <2>3. code \div 4096 \in Nat
    BY DEF Codes
  <2> QED BY <2>1, <2>2, <2>3
<1>2. (code \div 64) % 64 \in Nat
  <2>1. \A n \in Nat : n % 64 \in Nat
    OBVIOUS
  <2> QED BY <1>1, <2>1
<1> DEFINE a == code \div 64
           b == code % 64
           c == code \div 4096
           d == (code \div 64) % 64
<1>3. /\ <<code>> \in Seq(Nat) /\ <<192 + a, 128 + b>> \in Seq(Nat)
      /\ <<224 + c, 128 + d, 128 + b>> \in Seq(Nat)
  <2>1. a \in Nat /\ b \in Nat /\ c \in Nat /\ d \in Nat /\ code \in Nat
    BY <1>1, <1>2 DEF Codes
  <2> HIDE DEF a, b, c, d
  <2> QED BY <2>1
<1> QED
  BY <1>3 DEF AppendUtf8

\* What an escape sequence can be, and that all of it is in the text.
LEMMA EscapeTyped ==
  ASSUME NEW t \in Seq(Nat), NEW p \in Nat \ {0}
  PROVE  LET e == EscapeAt(t, p) IN
           /\ e.length \in {0, 1, 5} /\ e.text \in Seq(Nat)
           /\ e.length # 0 => p - 1 + e.length <= Len(t)
<1> DEFINE c == At(t, p)
           h == Hex(t, p + 1)
<1>1. /\ c \in Nat \cup {End} /\ Len(t) \in Nat
      /\ c # End => p \in 1..Len(t)
  BY SymbolAt, LenProperties
<1>2. EscapeAt(t, p) = EscapeOf(c, h)
  BY DEF EscapeAt
<1>3. CASE c \in Escapable
  <2>1. Unescaped(c) \in Nat /\ c # End
    BY <1>1, <1>3 DEF Unescaped, Escapable, Quote, Backslash, Slash, EscapeLetters, End
  <2> HIDE DEF c, h
  <2>2. EscapeOf(c, h) = [length |-> 1, text |-> <<Unescaped(c)>>]
    BY <1>3 DEF EscapeOf
  <2> QED BY <1>1, <1>2, <2>1, <2>2
<1>4. CASE c \notin Escapable /\ c = LetterU /\ \A i \in 0..3 : h[i] # End
  <2>1. \A i \in 0..3 : At(t, p + 1 + i) \in Nat \cup {End} /\ h[i] = HexDigitValue(At(t, p + 1 + i))
    BY SymbolAt DEF Hex
  <2> HIDE DEF h
  <2>2. \A i \in 0..3 : At(t, p + 1 + i) \in HexDigits /\ h[i] \in 0..15
    BY <1>4, <2>1, HexDigitRange
  <2>3. h \in [0..3 -> 0..15]
    BY <2>2 DEF Hex, h
  <2>4. AppendUtf8(HexValue(h)) \in Seq(Nat)
    <3>1. HexValue(h) \in Codes
      BY <2>3, HexRange
    <3> QED BY <3>1, Utf8Bytes
  <2>5. At(t, p + 4) # End
    <3>1. At(t, p + 1 + 3) \in HexDigits /\ p + 1 + 3 = p + 4
      BY <2>2
    <3>2. End \notin HexDigits
      BY DEF HexDigits, Digits, End
    <3> QED BY <3>1, <3>2
  <2>6. p + 4 <= Len(t)
    <3>1. p + 4 \in Int
      OBVIOUS
    <3> QED BY <1>1, <2>5, <3>1, SymbolAt
  <2> HIDE DEF c, h
  <2>7. EscapeOf(c, h) = [length |-> 5, text |-> AppendUtf8(HexValue(h))]
    BY <1>4 DEF EscapeOf
  <2> QED BY <1>1, <1>2, <2>4, <2>6, <2>7
<1>5. CASE c \notin Escapable /\ ~(c = LetterU /\ \A i \in 0..3 : h[i] # End)
  <2> HIDE DEF c, h
  <2>1. EscapeOf(c, h) = [length |-> 0, text |-> <<>>]
    BY <1>5 DEF EscapeOf
  <2>2. <<>> \in Seq(Nat)
    BY EmptySeq
  <2> QED BY <1>1, <1>2, <2>1, <2>2
<1> QED
  BY <1>3, <1>4, <1>5

-----------------------------------------------------------------------------
(* What is read from a place on *)

\* What is read of a string: where the reading stands and the text so far.
Readings == [pos : Nat, out : Seq(Nat)]
\* The places of a text, the one behind its last symbol included.
Places(t) == 1..(Len(t) + 1)

\* A text before what was read.
LEMMA PrefixedTyped ==
  ASSUME NEW text \in Seq(Nat), NEW rest \in Readings
  PROVE  /\ Prefixed(text, rest) \in Readings
         /\ Prefixed(text, rest).pos = rest.pos
         /\ rest.pos # 0 => Prefixed(text, rest).out = text \o rest.out
<1>1. <<>> \in Seq(Nat) /\ text \o rest.out \in Seq(Nat)
  BY EmptySeq, ConcatProperties DEF Readings
<1> DEFINE both == text \o rest.out
<1>2. Prefixed(text, rest) = IF rest.pos = 0 THEN NoString ELSE [rest EXCEPT !.out = both]
  BY DEF Prefixed
<1> HIDE DEF both
<1>3. CASE rest.pos = 0
  BY <1>1, <1>2, <1>3 DEF NoString, Readings
<1>4. CASE rest.pos # 0
  <2>1. Prefixed(text, rest) = [rest EXCEPT !.out = both]
    BY <1>2, <1>4
  <2>2. both \in Seq(Nat)
    BY <1>1 DEF both
  <2>3. /\ [rest EXCEPT !.out = both] \in Readings /\ [rest EXCEPT !.out = both].pos = rest.pos
        /\ [rest EXCEPT !.out = both].out = both
    BY <2>2 DEF Readings
  <2> QED BY <2>1, <2>3 DEF both
<1> QED
  BY <1>3, <1>4

\* The cases of ReadAt, with the places they look at.
LEMMA ReadAtCases ==
  ASSUME NEW t \in Seq(Nat), NEW p \in Places(t), NEW read
  PROVE  LET c == At(t, p) e == EscapeAt(t, p + 1) IN
           \/ /\ c = Quote /\ p <= Len(t)
              /\ ReadAt(t, p, read) = [pos |-> p + 1, out |-> <<>>]
           \/ /\ c = Backslash /\ e.length \in {1, 5} /\ e.text \in Seq(Nat)
              /\ p + 1 + e.length \in (p + 1)..(Len(t) + 1)
              /\ ReadAt(t, p, read) = Prefixed(e.text, read[p + 1 + e.length])
           \/ /\ Plain(c) /\ c \in Nat /\ p <= Len(t)
              /\ ReadAt(t, p, read) = Prefixed(<<c>>, read[p + 1])
           \/ ReadAt(t, p, read) = NoString
<1> DEFINE c == At(t, p)
           e == EscapeAt(t, p + 1)
<1>1. /\ Len(t) \in Nat /\ p \in Nat \ {0} /\ p <= Len(t) + 1 /\ p + 1 \in Nat \ {0}
  BY LenProperties DEF Places
<1>2. c \in Nat \cup {End} /\ (c # End => p <= Len(t))
  BY <1>1, SymbolAt
<1>3. /\ e.length \in {0, 1, 5} /\ e.text \in Seq(Nat)
      /\ e.length # 0 => (p + 1) - 1 + e.length <= Len(t)
  BY <1>1, EscapeTyped
<1>4. ReadAt(t, p, read) =
        CASE c = Quote -> [pos |-> p + 1, out |-> <<>>]
          [] c = Backslash /\ e.length > 0 -> Prefixed(e.text, read[p + 1 + e.length])
          [] Plain(c) -> Prefixed(<<c>>, read[p + 1])
          [] OTHER -> NoString
  BY DEF ReadAt
<1>5. /\ Quote # Backslash /\ Quote # End /\ Backslash # End
      /\ Plain(c) => c # Quote /\ c # Backslash /\ c # End
  BY DEF Quote, Backslash, End, Plain
<1> HIDE DEF c, e
<1>6. CASE c = Quote
  BY <1>2, <1>4, <1>5, <1>6 DEF c, e
<1>7. CASE c = Backslash /\ e.length > 0
  <2>1. ReadAt(t, p, read) = Prefixed(e.text, read[p + 1 + e.length])
    BY <1>4, <1>5, <1>7
  <2>2. e.length \in {1, 5} /\ p + 1 + e.length \in (p + 1)..(Len(t) + 1)
    BY <1>1, <1>3, <1>7
  <2> QED BY <1>3, <1>7, <2>1, <2>2 DEF c, e
<1>8. CASE Plain(c)
  <2>1. ReadAt(t, p, read) = Prefixed(<<c>>, read[p + 1])
    BY <1>4, <1>5, <1>8
  <2>2. c \in Nat /\ p <= Len(t)
    BY <1>2, <1>5, <1>8
  <2> QED BY <1>8, <2>1, <2>2 DEF c, e
<1>9. CASE c # Quote /\ ~(c = Backslash /\ e.length > 0) /\ ~Plain(c)
  BY <1>4, <1>9
<1> QED
  BY <1>6, <1>7, <1>8, <1>9

\* It looks at later places only, and is a reading if they have readings.
LEMMA ReadAtLater ==
  ASSUME NEW t \in Seq(Nat), NEW p \in Places(t), NEW r, NEW s,
         \A q \in (p + 1)..(Len(t) + 1) : r[q] = s[q]
  PROVE  ReadAt(t, p, r) = ReadAt(t, p, s)
<1>1. p + 1 \in Int /\ Len(t) + 1 \in Int
  BY LenProperties DEF Places
<1>2. CASE At(t, p) = Backslash /\ EscapeAt(t, p + 1).length > 0
  <2> DEFINE e == EscapeAt(t, p + 1)
             q == p + 1 + e.length
  <2>1. q \in (p + 1)..(Len(t) + 1)
    <3>1. /\ e.length \in {0, 1, 5}
          /\ e.length # 0 => (p + 1) - 1 + e.length <= Len(t)
      <4>1. p + 1 \in Nat \ {0}
        BY DEF Places
      <4> QED BY <4>1, EscapeTyped
    <3>2. p \in Nat /\ Len(t) \in Nat
      BY LenProperties DEF Places
    <3> HIDE DEF e
    <3> QED BY SMTT(20), <1>2, <3>1, <3>2 DEF e
  <2>2. r[q] = s[q]
    BY <2>1
  <2>3. Quote # Backslash
    BY DEF Quote, Backslash
  <2>4. ASSUME NEW f PROVE ReadAt(t, p, f) = Prefixed(e.text, f[q])
    <3> DEFINE c == At(t, p)
    <3>1. c = Backslash /\ e.length > 0
      BY <1>2
    <3>2. ReadAt(t, p, f) =
            CASE c = Quote -> [pos |-> p + 1, out |-> <<>>]
              [] c = Backslash /\ e.length > 0 -> Prefixed(e.text, f[q])
              [] Plain(c) -> Prefixed(<<c>>, f[p + 1])
              [] OTHER -> NoString
      BY DEF ReadAt
    <3>3. ~Plain(c)
      BY <3>1 DEF Plain
    <3> HIDE DEF c, e, q
    <3> QED BY <2>3, <3>1, <3>2, <3>3
  <2>5. ReadAt(t, p, r) = Prefixed(e.text, r[q]) /\ ReadAt(t, p, s) = Prefixed(e.text, s[q])
    BY <2>4
  <2> QED BY <2>2, <2>5
<1>3. CASE Plain(At(t, p))
  <2>1. p <= Len(t) /\ At(t, p) \in Nat
    <3>1. At(t, p) # End
      BY <1>3 DEF Plain
    <3> QED BY <3>1, SymbolAt DEF Places
  <2>2. p + 1 \in (p + 1)..(Len(t) + 1)
    BY <2>1, LenProperties DEF Places
  <2>3. r[p + 1] = s[p + 1]
    BY <2>2
  <2>4. At(t, p) # Quote /\ At(t, p) # Backslash
    BY <1>3 DEF Plain
  <2> QED BY <1>3, <2>3, <2>4 DEF ReadAt
<1>4. CASE ~(At(t, p) = Backslash /\ EscapeAt(t, p + 1).length > 0) /\ ~Plain(At(t, p))
  BY <1>4 DEF ReadAt
<1> QED
  BY <1>2, <1>3, <1>4

\* StringRest is what it is defined to be: at each place what ReadAt makes of
\* the text there, given the readings of later places.
Reads(read, t) ==
  /\ read \in [Places(t) -> Readings]
  /\ \A p \in Places(t) : read[p] = ReadAt(t, p, read)

\* The recursion of StringRest is well defined: each place needs later ones only.
LEMMA ReadingExists ==
  ASSUME NEW t \in Seq(Nat)
  PROVE  \E read : read = [p \in Places(t) |-> ReadAt(t, p, read)]
<1> DEFINE L == Len(t)
           From(n) == (L + 1 - n)..(L + 1)
           Upto(n) == \E read : read = [p \in From(n) |-> ReadAt(t, p, read)]
           T == {n \in 0..L : Upto(n)}
<1>1. L \in Nat
  BY LenProperties
<1> HIDE DEF L
<1>2. Upto(0)
  <2> DEFINE r == [p \in From(0) |-> ReadAt(t, p, <<>>)]
  <2>1. \A p \in From(0) : p \in Places(t) /\ (p + 1)..(L + 1) = {}
    BY <1>1 DEF Places, L
  <2>2. \A p \in From(0) : ReadAt(t, p, <<>>) = ReadAt(t, p, r)
    <3> HIDE DEF r
    <3>1. ASSUME NEW p \in From(0) PROVE ReadAt(t, p, <<>>) = ReadAt(t, p, r)
      <4>1. \A q \in (p + 1)..(Len(t) + 1) : <<>>[q] = r[q]
        BY <2>1 DEF L
      <4> HIDE DEF From
      <4> QED BY <2>1, <4>1, ReadAtLater
    <3> QED BY <3>1
  <2>3. r = [p \in From(0) |-> ReadAt(t, p, r)]
    BY <2>2
  <2> HIDE DEF r, From
  <2> QED BY <2>3
<1>3. ASSUME NEW n \in 0..(L - 1), Upto(n) PROVE Upto(n + 1)
  <2>1. PICK f : f = [p \in From(n) |-> ReadAt(t, p, f)]
    BY <1>3
  <2> DEFINE g == [p \in From(n + 1) |-> IF p \in From(n) THEN f[p] ELSE ReadAt(t, p, f)]
  <2>2. /\ \A p \in From(n + 1) : p \in Places(t)
        /\ \A p \in From(n + 1), q \in Int : q \in (p + 1)..(L + 1) => q \in From(n) /\ q \in From(n + 1)
    BY <1>1 DEF Places, L
  <2> HIDE DEF From
  <2>3. \A p \in From(n + 1) : g[p] = ReadAt(t, p, f)
    BY <2>1
  <2>4. ASSUME NEW p \in From(n + 1) PROVE ReadAt(t, p, f) = ReadAt(t, p, g)
    <3>1. \A q \in (p + 1)..(Len(t) + 1) : f[q] = g[q]
      BY <2>2 DEF L
    <3> HIDE DEF g
    <3> QED BY <2>2, <3>1, ReadAtLater
  <2>5. g = [p \in From(n + 1) |-> ReadAt(t, p, g)]
    BY <2>3, <2>4
  <2> HIDE DEF g
  <2> QED BY <2>5
<1>4. \A n \in 0..L : n \in T
  <2>1. 0 \in T /\ \A n \in 0..(L - 1) : n \in T => n + 1 \in T
    <3> HIDE DEF Upto
    <3> QED BY <1>1, <1>2, <1>3
  <2> HIDE DEF T
  <2> QED BY <1>1, <2>1, BoundedInduction
<1>5. Upto(L)
  BY <1>1, <1>4
<1>6. From(L) = Places(t)
  BY <1>1 DEF Places, L
<1> HIDE DEF From
<1> QED
  BY <1>5, <1>6

\* StringRest satisfies its defining equation, and every place has a reading.
LEMMA RestReads ==
  ASSUME NEW t \in Seq(Nat)
  PROVE  Reads(StringRest(t), t)
<1> DEFINE L == Len(t)
           Def(h) == h = [p \in Places(t) |-> ReadAt(t, p, h)]
           read == CHOOSE h : Def(h)
<1>1. \E h : Def(h)
  BY ReadingExists
<1>2. Def(read)
  <2> HIDE DEF Def
  <2> QED BY <1>1
<1>3. StringRest(t) = read
  BY DEF StringRest, Places
<1> HIDE DEF read
<1>4. \A p \in Places(t) : read[p] = ReadAt(t, p, read)
  BY <1>2
<1>5. L \in Nat
  BY LenProperties
<1> DEFINE T == {n \in 0..(L + 1) : \A p \in Places(t) : p > L + 1 - n => read[p] \in Readings}
<1>6. 0 \in T
  BY <1>5 DEF Places
<1>7. ASSUME NEW n \in 0..L, n \in T PROVE n + 1 \in T
  <2> SUFFICES ASSUME NEW p \in Places(t), p > L + 1 - (n + 1) PROVE read[p] \in Readings
    BY <1>5
  <2>1. \A q \in (p + 1)..(L + 1) : read[q] \in Readings
    <3>1. p \in Nat \ {0} /\ \A q \in (p + 1)..(L + 1) : q \in Places(t) /\ q > L + 1 - n
      BY <1>5 DEF Places
    <3>2. \A q \in Places(t) : q > L + 1 - n => read[q] \in Readings
      BY <1>7
    <3> HIDE DEF T
    <3> QED BY <3>1, <3>2
  <2> DEFINE c == At(t, p)
             e == EscapeAt(t, p + 1)
  <2>2. CASE ReadAt(t, p, read) = [pos |-> p + 1, out |-> <<>>]
    <3>1. <<>> \in Seq(Nat) /\ p + 1 \in Nat
      BY EmptySeq DEF Places
    <3>2. [pos |-> p + 1, out |-> <<>>] \in Readings
      BY <3>1 DEF Readings
    <3>3. read[p] = [pos |-> p + 1, out |-> <<>>]
      BY <1>4, <2>2
    <3> QED BY <3>2, <3>3
  <2>3. CASE /\ e.text \in Seq(Nat) /\ p + 1 + e.length \in (p + 1)..(L + 1)
             /\ ReadAt(t, p, read) = Prefixed(e.text, read[p + 1 + e.length])
    <3>1. read[p + 1 + e.length] \in Readings
      BY <2>1, <2>3
    <3> QED BY <1>4, <2>3, <3>1, PrefixedTyped
  <2>4. CASE c \in Nat /\ p <= L /\ ReadAt(t, p, read) = Prefixed(<<c>>, read[p + 1])
    <3>1. p + 1 \in (p + 1)..(L + 1)
      BY <1>5, <2>4 DEF Places
    <3>2. read[p + 1] \in Readings /\ <<c>> \in Seq(Nat)
      <4> HIDE DEF c
      <4> QED BY <2>1, <2>4, <3>1
    <3> QED BY <1>4, <2>4, <3>2, PrefixedTyped
  <2>5. CASE ReadAt(t, p, read) = NoString
    <3>1. <<>> \in Seq(Nat)
      BY EmptySeq
    <3>2. NoString \in Readings
      BY <3>1 DEF NoString, Readings
    <3>3. read[p] = NoString
      BY <1>4, <2>5
    <3> QED BY <3>2, <3>3
  <2> QED BY <2>2, <2>3, <2>4, <2>5, ReadAtCases
<1>8. \A n \in 0..(L + 1) : n \in T
  <2> HIDE DEF T
  <2>1. L + 1 \in Nat /\ (L + 1) - 1 = L
    BY <1>5
  <2> QED BY <1>6, <1>7, <2>1, BoundedInduction
<1>9. \A p \in Places(t) : read[p] \in Readings
  <2>1. L + 1 \in T /\ \A p \in Places(t) : p > L + 1 - (L + 1)
    BY <1>5, <1>8 DEF Places
  <2> QED BY <2>1
<1>10. read \in [Places(t) -> Readings]
  BY <1>2, <1>9
<1> QED
  BY <1>3, <1>4, <1>10 DEF Reads

-----------------------------------------------------------------------------
(* One character or escape sequence *)

\* What may stand in a string, and the text it stands for.
Units == {u \in Seq(Nat) : Len(u) \in {1, 2, 6} /\ IsUnit(u)}
\* The text a unit stands for.
UnitText(u) == IF Len(u) = 1 THEN u ELSE EscapeAt(u, 2).text

\* u stands in t from p on.
Stands(u, t, p) == \A i \in 1..Len(u) : p - 1 + i <= Len(t) /\ t[p - 1 + i] = u[i]

\* The check on each digit of an escape sequence is the one IsHexDigit makes.
LEMMA HexDigitsHaveValues ==
  ASSUME NEW c \in Nat
  PROVE  HexDigitValue(c) # End <=> c \in HexDigits
<1>1. c \in Nat \cup {End} /\ End \notin 0..15
  BY DEF End
<1> QED
  BY <1>1, HexDigitRange

\* The three shapes of a unit.
LEMMA UnitShape ==
  ASSUME NEW u \in Units
  PROVE  /\ u \in Seq(Nat) /\ Len(u) \in {1, 2, 6}
         /\ Len(u) = 1 => u[1] \notin MustEscape
         /\ Len(u) = 2 => u[1] = Backslash /\ u[2] \in Escapable
         /\ Len(u) = 6 => /\ u[1] = Backslash /\ u[2] = LetterU
                         /\ \A i \in 3..6 : u[i] \in HexDigits
<1> DEFINE n == Len(u)
           a == u[1] \notin MustEscape
           b == u[1] = Backslash /\ u[2] \in Escapable
           c == u[1] = Backslash /\ u[2] = LetterU /\ \A i \in 3..6 : u[i] \in HexDigits
<1>1. u \in Seq(Nat) /\ n \in {1, 2, 6} /\ IsUnit(u)
  BY DEF Units
<1>2. IsUnit(u) = CASE n = 1 -> a [] n = 2 -> b [] OTHER -> c
  BY DEF IsUnit
<1>3. /\ n = 1 => n # 2
      /\ n = 6 => n # 1 /\ n # 2
  OBVIOUS
<1> HIDE DEF n, a, b, c
<1>4. /\ n = 1 => IsUnit(u) = a
      /\ n = 2 => IsUnit(u) = b
      /\ n = 6 => IsUnit(u) = c
  BY <1>2, <1>3
<1> QED
  BY <1>1, <1>4 DEF n, a, b, c

\* An escape sequence is the same wherever it stands.
LEMMA UnitEscape ==
  ASSUME NEW t \in Seq(Nat), NEW p \in Nat \ {0}, NEW u \in Units, Len(u) # 1, Stands(u, t, p)
  PROVE  /\ At(t, p) = Backslash /\ EscapeAt(t, p + 1).text = EscapeAt(u, 2).text
         /\ EscapeAt(t, p + 1).length = Len(u) - 1
<1>1. u \in Seq(Nat) /\ Len(u) \in {2, 6} /\ Len(t) \in Nat
  BY LenProperties DEF Units
<1>2. ASSUME NEW i \in 1..Len(u) PROVE At(t, p - 1 + i) = u[i] /\ At(u, i) = u[i]
  <2>1. p - 1 + i \in 1..Len(t) /\ t[p - 1 + i] = u[i]
    BY <1>1 DEF Stands
  <2>2. At(t, p - 1 + i) = t[p - 1 + i]
    BY <2>1, SymbolAt
  <2>3. At(u, i) = u[i]
    BY <1>1, SymbolAt
  <2> QED BY <2>1, <2>2, <2>3
<1>3. At(t, p) = u[1] /\ At(t, p + 1) = u[2] /\ At(u, 2) = u[2]
  <2>1. p - 1 + 1 = p /\ p - 1 + 2 = p + 1
    OBVIOUS
  <2>2. 1 \in 1..Len(u) /\ 2 \in 1..Len(u)
    <3>1. \A n \in {2, 6} : 1 \in 1..n /\ 2 \in 1..n
      OBVIOUS
    <3> QED BY <1>1, <3>1
  <2> QED BY <1>2, <2>1, <2>2
<1>4. CASE Len(u) = 2
  <2>1. u[1] = Backslash /\ u[2] \in Escapable
    BY <1>4, UnitShape
  <2>2. \A h : EscapeOf(u[2], h) = [length |-> 1, text |-> <<Unescaped(u[2])>>]
    BY <2>1 DEF EscapeOf
  <2>3. /\ EscapeAt(t, p + 1) = EscapeOf(u[2], Hex(t, p + 2))
        /\ EscapeAt(u, 2) = EscapeOf(u[2], Hex(u, 3))
    <3>1. p + 1 + 1 = p + 2 /\ 2 + 1 = 3
      OBVIOUS
    <3> QED BY <1>3, <3>1 DEF EscapeAt
  <2> QED BY <1>3, <1>4, <2>1, <2>2, <2>3
<1>5. CASE Len(u) = 6
  <2>1. u[1] = Backslash /\ u[2] = LetterU /\ \A i \in 3..6 : u[i] \in HexDigits
    BY <1>5, UnitShape
  <2>2. ASSUME NEW i \in 0..3 PROVE At(t, p + 2 + i) = u[3 + i] /\ At(u, 3 + i) = u[3 + i]
    <3>1. 3 + i \in 1..Len(u) /\ p - 1 + (3 + i) = p + 2 + i
      BY <1>5
    <3> QED BY <1>2, <3>1
  <2>3. Hex(t, p + 2) = Hex(u, 3)
    BY <2>2 DEF Hex
  <2>4. \A i \in 0..3 : Hex(u, 3)[i] # End
    <3>1. \A i \in 0..3 : Hex(u, 3)[i] = HexDigitValue(u[3 + i])
      BY <2>2 DEF Hex
    <3>2. ASSUME NEW i \in 0..3 PROVE u[3 + i] \in HexDigits /\ u[3 + i] \in Nat
      <4>1. 3 + i \in 3..6
        OBVIOUS
      <4>2. HexDigits \subseteq Nat
        BY DEF HexDigits, Digits
      <4>3. u[3 + i] \in HexDigits
        BY <2>1, <4>1
      <4> QED BY <4>2, <4>3
    <3> QED BY <3>1, <3>2, HexDigitsHaveValues
  <2>5. LetterU \notin Escapable
    BY DEF LetterU, Escapable, Quote, Backslash, Slash, EscapeLetters
  <2>6. EscapeOf(LetterU, Hex(u, 3)).length = 5
    BY <2>4, <2>5 DEF EscapeOf
  <2>7. /\ EscapeAt(t, p + 1) = EscapeOf(LetterU, Hex(u, 3))
        /\ EscapeAt(u, 2) = EscapeOf(LetterU, Hex(u, 3))
    <3>1. p + 1 + 1 = p + 2 /\ 2 + 1 = 3
      OBVIOUS
    <3> QED BY <1>3, <2>1, <2>3, <3>1 DEF EscapeAt
  <2> QED BY <1>3, <1>5, <2>1, <2>6, <2>7
<1> QED
  BY <1>1, <1>4, <1>5

\* Reading at the first symbol of a unit gives its text and goes on after it.
LEMMA OneUnit ==
  ASSUME NEW t \in Seq(Nat), NEW p \in Places(t), NEW u \in Units, Stands(u, t, p), NEW read
  PROVE  /\ ReadAt(t, p, read) = Prefixed(UnitText(u), read[p + Len(u)])
         /\ p + Len(u) \in Places(t)
<1>1. /\ u \in Seq(Nat) /\ Len(u) \in {1, 2, 6} /\ p \in Nat \ {0} /\ Len(t) \in Nat
  BY LenProperties DEF Units, Places
<1>2. p + Len(u) \in Places(t)
  <2>1. p - 1 + Len(u) <= Len(t)
    <3>1. \A n \in {1, 2, 6} : n \in 1..n
      OBVIOUS
    <3>2. Len(u) \in 1..Len(u)
      BY <1>1, <3>1
    <3> QED BY <3>2 DEF Stands
  <2> QED BY <1>1, <2>1 DEF Places
<1>3. CASE Len(u) = 1
  <2>1. At(t, p) = u[1] /\ u[1] \in Nat
    <3>1. p - 1 + 1 = p /\ 1 \in 1..Len(u)
      BY <1>3, <1>1
    <3>2. p \in 1..Len(t) /\ t[p] = u[1]
      BY <1>1, <3>1 DEF Stands
    <3> QED BY <1>1, <3>1, <3>2, SymbolAt, ElementOfSeq
  <2>2. u[1] \notin MustEscape
    BY <1>3, UnitShape
  <2>3. Plain(u[1]) /\ u[1] # Quote /\ u[1] # Backslash
    BY <2>1, <2>2 DEF Plain, MustEscape, Controls, End, Quote, Backslash
  <2>4. u = <<u[1]>>
    BY <1>1, <1>3
  <2>5. ReadAt(t, p, read) = Prefixed(<<u[1]>>, read[p + 1])
    BY <2>1, <2>3 DEF ReadAt
  <2>6. UnitText(u) = <<u[1]>>
    BY <1>3, <2>4 DEF UnitText
  <2> QED BY <1>2, <1>3, <2>5, <2>6
<1>4. CASE Len(u) # 1
  <2> DEFINE e == EscapeAt(t, p + 1)
             c == At(t, p)
  <2>1. c = Backslash /\ e.text = UnitText(u) /\ e.length = Len(u) - 1
    BY <1>1, <1>4, UnitEscape DEF UnitText
  <2>2. p + 1 + e.length = p + Len(u) /\ e.length > 0
    <3>1. \A n \in {1, 2, 6} : n # 1 => p + 1 + (n - 1) = p + n /\ n - 1 > 0
      BY <1>1
    <3> HIDE DEF e
    <3> QED BY <1>1, <1>4, <2>1, <3>1
  <2>3. ReadAt(t, p, read) =
          CASE c = Quote -> [pos |-> p + 1, out |-> <<>>]
            [] c = Backslash /\ e.length > 0 -> Prefixed(e.text, read[p + 1 + e.length])
            [] Plain(c) -> Prefixed(<<c>>, read[p + 1])
            [] OTHER -> NoString
    BY DEF ReadAt
  <2>4. Quote # Backslash /\ ~Plain(Backslash)
    BY DEF Quote, Backslash, Plain
  <2> HIDE DEF c, e
  <2>5. ReadAt(t, p, read) = Prefixed(e.text, read[p + 1 + e.length])
    BY <2>1, <2>2, <2>3, <2>4
  <2> QED BY <1>2, <2>1, <2>2, <2>5
<1> QED
  BY <1>3, <1>4

-----------------------------------------------------------------------------
(* Sequences of them *)

\* The texts the units of a sequence stand for.
Texts(us) == [i \in 1..Len(us) |-> UnitText(us[i])]

\* A reading is its place and its text.
LEMMA SameReading ==
  ASSUME NEW r \in Readings, NEW s \in Readings, r.pos = s.pos, r.out = s.out
  PROVE  r = s
<1>1. r = [pos |-> r.pos, out |-> r.out]
  BY DEF Readings
<1>2. s = [pos |-> s.pos, out |-> s.out]
  BY DEF Readings
<1> QED
  BY <1>1, <1>2

\* Nothing before what was read changes it.
LEMMA PrefixedNothing ==
  ASSUME NEW rest \in Readings, rest.pos # 0
  PROVE  Prefixed(<<>>, rest) = rest
<1>1. <<>> \in Seq(Nat) /\ <<>> \o rest.out = rest.out
  <2>1. rest.out \in Seq(Nat)
    BY DEF Readings
  <2>2. \A s \in Seq(Nat) : <<>> \o s = s
    BY ConcatEmptySeq
  <2> QED BY <2>1, <2>2, EmptySeq
<1>2. Prefixed(<<>>, rest).out = rest.out /\ Prefixed(<<>>, rest).pos = rest.pos
  BY <1>1, PrefixedTyped
<1>3. Prefixed(<<>>, rest) \in Readings
  BY <1>1, PrefixedTyped
<1> QED
  BY <1>2, <1>3, SameReading

\* Two texts in turn are their concatenation.
LEMMA PrefixedTwice ==
  ASSUME NEW a \in Seq(Nat), NEW b \in Seq(Nat), NEW rest \in Readings
  PROVE  Prefixed(a, Prefixed(b, rest)) = Prefixed(a \o b, rest)
<1> DEFINE r == Prefixed(b, rest)
           ab == a \o b
<1>1. r \in Readings /\ r.pos = rest.pos /\ ab \in Seq(Nat)
  BY PrefixedTyped, ConcatProperties
<1>2. CASE rest.pos = 0
  <2>1. \A text, s : s.pos = 0 => Prefixed(text, s) = NoString
    BY DEF Prefixed
  <2> HIDE DEF r, ab
  <2>2. Prefixed(a, r) = NoString /\ Prefixed(ab, rest) = NoString
    BY <1>1, <1>2, <2>1
  <2> QED BY <2>2 DEF r, ab
<1>3. CASE rest.pos # 0
  <2>1. r.out = b \o rest.out
    BY <1>3, PrefixedTyped
  <2>2. a \o (b \o rest.out) = ab \o rest.out
    <3>1. rest.out \in Seq(Nat)
      BY DEF Readings
    <3>2. \A s \in Seq(Nat) : (a \o b) \o s = a \o (b \o s)
      BY ConcatAssociative, SMTT(30)
    <3> QED BY <3>1, <3>2
  <2> HIDE DEF r, ab
  <2>3. Prefixed(a, r).out = a \o r.out /\ Prefixed(ab, rest).out = ab \o rest.out
    BY <1>1, <1>3, PrefixedTyped
  <2>4. Prefixed(a, r) \in Readings /\ Prefixed(ab, rest) \in Readings
    BY <1>1, PrefixedTyped
  <2>5. Prefixed(a, r).pos = Prefixed(ab, rest).pos
    BY <1>1, PrefixedTyped
  <2>6. Prefixed(a, r).out = Prefixed(ab, rest).out
    BY <2>1, <2>2, <2>3
  <2>7. Prefixed(a, r) = Prefixed(ab, rest)
    BY <2>4, <2>5, <2>6, SameReading
  <2> QED BY <2>7 DEF r, ab
<1> QED
  BY <1>2, <1>3

\* What a unit stands for is a text.
LEMMA UnitTextTyped ==
  ASSUME NEW u \in Units
  PROVE  UnitText(u) \in Seq(Nat)
<1>1. u \in Seq(Nat) /\ 2 \in Nat \ {0}
  BY DEF Units
<1>2. EscapeAt(u, 2).text \in Seq(Nat)
  BY <1>1, EscapeTyped
<1> QED
  BY <1>1, <1>2 DEF UnitText

\* A function on 1..n is a sequence of length n.
LEMMA FunctionIsSeq ==
  ASSUME NEW S, NEW n \in Nat, NEW f \in [1..n -> S]
  PROVE  f \in Seq(S) /\ Len(f) = n
<1>1. f \in Seq(S)
  BY SeqDef
<1>2. Len(f) \in Nat /\ 1..Len(f) = 1..n
  BY <1>1, LenProperties
<1>3. \A k, m \in Nat : 1..k = 1..m => k = m
  <2>1. \A k, m \in Nat : k < m => m \in 1..m /\ m \notin 1..k
    OBVIOUS
  <2>2. \A k, m \in Nat : k = m \/ k < m \/ m < k
    OBVIOUS
  <2> QED BY <2>1, <2>2
<1> QED
  BY <1>1, <1>2, <1>3

\* Units, and what they stand for, are texts.
LEMMA UnitsTyped ==
  ASSUME NEW us \in Seq(Units)
  PROVE  us \in Seq(Seq(Nat)) /\ Texts(us) \in Seq(Seq(Nat))
<1>1. Len(us) \in Nat /\ us = [i \in 1..Len(us) |-> us[i]]
  BY LenProperties
<1>2. \A i \in 1..Len(us) : us[i] \in Seq(Nat) /\ UnitText(us[i]) \in Seq(Nat)
  <2>1. \A i \in 1..Len(us) : us[i] \in Units
    BY ElementOfSeq
  <2>2. Units \subseteq Seq(Nat)
    BY DEF Units
  <2> QED BY <2>1, <2>2, UnitTextTyped
<1>3. us \in Seq(Seq(Nat))
  <2> DEFINE A == Seq(Nat)
             n == Len(us)
  <2>1. us = [i \in 1..n |-> us[i]] /\ n \in Nat /\ \A i \in 1..n : us[i] \in A
    BY <1>1, <1>2
  <2> HIDE DEF A, n
  <2>2. us \in [1..n -> A]
    BY <2>1
  <2>3. us \in Seq(A)
    BY <2>1, <2>2, FunctionIsSeq
  <2> QED BY <2>3 DEF A
<1>4. Texts(us) \in Seq(Seq(Nat))
  <2> DEFINE A == Seq(Nat)
             n == Len(us)
  <2>1. Texts(us) = [i \in 1..n |-> UnitText(us[i])] /\ n \in Nat
        /\ \A i \in 1..n : UnitText(us[i]) \in A
    BY <1>1, <1>2 DEF Texts
  <2> HIDE DEF A, n
  <2>2. Texts(us) \in [1..n -> A]
    BY <2>1
  <2>3. Texts(us) \in Seq(A)
    BY <2>1, <2>2, FunctionIsSeq
  <2> QED BY <2>3 DEF A
<1> QED
  BY <1>3, <1>4

\* The texts of one more unit.
LEMMA TextsAppend ==
  ASSUME NEW us \in Seq(Units), NEW u \in Units
  PROVE  Texts(Append(us, u)) = Append(Texts(us), UnitText(u))
<1> DEFINE vs == Append(us, u)
           n == Len(us)
           A == Seq(Nat)
           ts == Texts(us)
           e == UnitText(u)
<1>1. /\ n \in Nat /\ Len(vs) = n + 1 /\ vs[n + 1] = u
      /\ \A i \in 1..n : vs[i] = us[i]
  BY AppendProperties, LenProperties
<1>2. Texts(vs) = [i \in 1..(n + 1) |-> UnitText(vs[i])]
  <2> HIDE DEF vs, n
  <2> QED BY <1>1 DEF Texts
<1>3. ts \in Seq(A) /\ e \in A /\ Len(ts) = n /\ \A i \in 1..n : ts[i] = UnitText(us[i])
  <2>1. ts \in Seq(A) /\ e \in A
    BY UnitsTyped, UnitTextTyped
  <2>2. ts = [i \in 1..n |-> UnitText(us[i])]
    BY DEF Texts
  <2> HIDE DEF ts, n
  <2> QED BY <1>1, <2>1, <2>2
<1> HIDE DEF A, n, e
<1>4. /\ Append(ts, e) = [i \in 1..(n + 1) |-> IF i <= n THEN ts[i] ELSE e]
  <2> HIDE DEF ts
  <2> DEFINE x == Append(ts, e)
  <2>1. /\ x \in Seq(A) /\ Len(x) = n + 1
        /\ \A i \in 1..n : x[i] = ts[i]
        /\ x[n + 1] = e
    BY <1>1, <1>3, AppendProperties
  <2>2. x \in [1..(n + 1) -> A]
    BY <2>1, LenProperties
  <2> HIDE DEF x
  <2>3. \A i \in 1..(n + 1) : x[i] = IF i <= n THEN ts[i] ELSE e
    <3>1. /\ \A i \in 1..(n + 1) : i <= n => i \in 1..n
          /\ \A i \in 1..(n + 1) : ~(i <= n) => i = n + 1
      BY <1>1
    <3> QED BY <2>1, <3>1
  <2> QED BY <2>2, <2>3 DEF x
<1>5. \A i \in 1..(n + 1) : UnitText(vs[i]) = IF i <= n THEN ts[i] ELSE e
  <2>1. /\ \A i \in 1..(n + 1) : i <= n => i \in 1..n
        /\ \A i \in 1..(n + 1) : ~(i <= n) => i = n + 1
    BY <1>1
  <2> HIDE DEF vs, ts
  <2> QED BY <1>1, <1>3, <2>1 DEF e
<1> HIDE DEF ts, vs
<1>6. Texts(vs) = Append(ts, e)
  BY <1>2, <1>4, <1>5
<1> QED
  BY <1>6 DEF vs, ts, e

\* A concatenation stands where its parts stand one after the other.
LEMMA StandsConcat ==
  ASSUME NEW t \in Seq(Nat), NEW p \in Nat \ {0}, NEW u \in Seq(Nat), NEW v \in Seq(Nat)
  PROVE  Stands(u \o v, t, p) <=> Stands(u, t, p) /\ Stands(v, t, p + Len(u))
<1> DEFINE uv == u \o v
           m == Len(u)
           n == Len(v)
<1>1. m \in Nat /\ n \in Nat /\ Len(t) \in Nat /\ Len(uv) = m + n
  BY LenProperties, ConcatProperties
<1>2. \A i \in 1..(m + n) : uv[i] = IF i <= m THEN u[i] ELSE v[i - m]
  BY ConcatProperties
<1> HIDE DEF uv, m, n
<1>3. /\ Stands(uv, t, p) <=> \A i \in 1..(m + n) : p - 1 + i <= Len(t) /\ t[p - 1 + i] = uv[i]
      /\ Stands(u, t, p) <=> \A i \in 1..m : p - 1 + i <= Len(t) /\ t[p - 1 + i] = u[i]
      /\ Stands(v, t, p + m) <=> \A i \in 1..n : p + m - 1 + i <= Len(t) /\ t[p + m - 1 + i] = v[i]
  BY <1>1 DEF Stands, m, n
<1>4. ASSUME Stands(uv, t, p) PROVE Stands(u, t, p) /\ Stands(v, t, p + m)
  <2>1. ASSUME NEW i \in 1..m PROVE p - 1 + i <= Len(t) /\ t[p - 1 + i] = u[i]
    <3>1. i \in 1..(m + n) /\ i <= m
      BY <1>1
    <3> QED BY <1>2, <1>3, <1>4, <3>1
  <2>2. ASSUME NEW i \in 1..n PROVE p + m - 1 + i <= Len(t) /\ t[p + m - 1 + i] = v[i]
    <3>1. m + i \in 1..(m + n) /\ ~(m + i <= m) /\ (m + i) - m = i
          /\ p - 1 + (m + i) = p + m - 1 + i
      BY <1>1
    <3>2. uv[m + i] = v[(m + i) - m]
      BY <1>2, <3>1
    <3>3. p - 1 + (m + i) <= Len(t) /\ t[p - 1 + (m + i)] = uv[m + i]
      BY <1>3, <1>4, <3>1
    <3> QED BY <3>1, <3>2, <3>3
  <2> QED BY <1>3, <2>1, <2>2
<1>5. ASSUME Stands(u, t, p), Stands(v, t, p + m) PROVE Stands(uv, t, p)
  <2>1. ASSUME NEW i \in 1..(m + n) PROVE p - 1 + i <= Len(t) /\ t[p - 1 + i] = uv[i]
    <3>1. CASE i <= m
      <4>1. i \in 1..m
        BY <1>1, <3>1
      <4>2. uv[i] = u[i]
        BY <1>2, <3>1
      <4> QED BY <1>3, <1>5, <4>1, <4>2
    <3>2. CASE ~(i <= m)
      <4>1. i - m \in 1..n /\ p + m - 1 + (i - m) = p - 1 + i
        BY <1>1, <3>2
      <4>2. uv[i] = v[i - m]
        BY <1>2, <3>2
      <4>3. p + m - 1 + (i - m) <= Len(t) /\ t[p + m - 1 + (i - m)] = v[i - m]
        BY <1>3, <1>5, <4>1
      <4> QED BY <4>1, <4>2, <4>3
    <3> QED BY <3>1, <3>2
  <2> QED BY <1>3, <2>1
<1>6. Stands(uv, t, p) <=> Stands(u, t, p) /\ Stands(v, t, p + m)
  BY <1>4, <1>5
<1> QED
  BY <1>6 DEF uv, m

\* Reading where characters and escape sequences stand one after the other
\* gives their texts in order, and goes on after the last.
LEMMA UnitsRead ==
  ASSUME NEW t \in Seq(Nat), NEW read, Reads(read, t), NEW p \in Places(t)
  PROVE  \A us \in Seq(Units) : Stands(FlattenSeq(us), t, p) =>
           LET q == p + Len(FlattenSeq(us)) IN
           /\ q \in Places(t)
           /\ read[q].pos # 0 => read[p] = Prefixed(FlattenSeq(Texts(us)), read[q])
<1> DEFINE Goal(us) == LET q == p + Len(FlattenSeq(us)) IN
             /\ q \in Places(t)
             /\ read[q].pos # 0 => read[p] = Prefixed(FlattenSeq(Texts(us)), read[q])
           T == {us \in Seq(Units) : Stands(FlattenSeq(us), t, p) => Goal(us)}
<1>1. p \in Nat \ {0} /\ Len(t) \in Nat /\ \A q \in Places(t) : q \in Nat \ {0}
  BY LenProperties DEF Places
<1>2. \A q \in Places(t) : read[q] \in Readings /\ read[q] = ReadAt(t, q, read)
  BY DEF Reads
<1>3. <<>> \in T
  <2>1. FlattenSeq(<<>>) = <<>> /\ Len(<<>>) = 0 /\ <<>> \in Seq(Units)
    BY FlattenEmpty, EmptySeq
  <2>2. Texts(<<>>) = <<>>
    <3>1. Texts(<<>>) = [i \in 1..0 |-> UnitText(<<>>[i])]
      BY <2>1 DEF Texts
    <3> DEFINE A == Seq(Nat)
               d == Texts(<<>>)
    <3>2. d \in Seq(A) /\ DOMAIN d = 1..0
      BY <2>1, <3>1, UnitsTyped
    <3> HIDE DEF A, d
    <3>3. Len(d) \in Nat /\ 1..Len(d) = 1..0
      BY <3>2, LenProperties
    <3>4. Len(d) = 0
      <4>1. (\A n \in Nat : n # 0 => 1 \in 1..n) /\ 1 \notin 1..0
        OBVIOUS
      <4> QED BY <3>3, <4>1
    <3>5. d = <<>>
      BY <3>2, <3>4, EmptySeq
    <3> QED BY <3>5 DEF d
  <2>3. p + 0 = p
    BY <1>1
  <2>4. Goal(<<>>)
    BY <1>2, <2>1, <2>2, <2>3, PrefixedNothing
  <2> HIDE DEF Goal
  <2> QED BY <2>1, <2>4
<1>4. ASSUME NEW us \in Seq(Units), NEW u \in Units, us \in T PROVE Append(us, u) \in T
  <2> DEFINE a == FlattenSeq(us)
             vs == Append(us, u)
             q == p + Len(a)
             r == q + Len(u)
             x == FlattenSeq(Texts(us))
             y == UnitText(u)
  <2>1. us \in Seq(Seq(Nat)) /\ Texts(us) \in Seq(Seq(Nat)) /\ u \in Seq(Nat) /\ y \in Seq(Nat)
    BY UnitsTyped, UnitTextTyped DEF Units
  <2>2. FlattenSeq(vs) = a \o u /\ a \in Seq(Nat) /\ x \in Seq(Nat)
    BY <2>1, FlattenAppend, FlattenType
  <2>3. FlattenSeq(Texts(vs)) = x \o y
    BY <2>1, FlattenAppend, TextsAppend
  <2>4. vs \in Seq(Units) /\ Len(a \o u) = Len(a) + Len(u) /\ Len(a) \in Nat /\ Len(u) \in Nat
    BY <2>1, <2>2, AppendProperties, ConcatProperties, LenProperties
  <2>5. p + Len(FlattenSeq(vs)) = r
    <3> HIDE DEF a, vs
    <3>1. Len(FlattenSeq(vs)) = Len(a) + Len(u)
      BY <2>2, <2>4
    <3> QED BY <1>1, <2>4, <3>1
  <2>6. ASSUME Stands(FlattenSeq(vs), t, p) PROVE Goal(vs)
    <3>1. Stands(a, t, p) /\ Stands(u, t, q)
      BY <1>1, <2>1, <2>2, <2>6, StandsConcat
    <3>2. Goal(us)
      BY <1>4, <3>1
    <3>3. q \in Places(t)
      BY <3>2
    <3>4. r \in Places(t) /\ read[q] = Prefixed(y, read[r])
      <4> HIDE DEF q
      <4> QED BY <1>2, <3>1, <3>3, OneUnit
    <3>5. ASSUME read[r].pos # 0 PROVE read[p] = Prefixed(x \o y, read[r])
      <4>1. read[r] \in Readings
        BY <1>2, <3>4
      <4>2. read[q].pos # 0
        <5> HIDE DEF q, r, y
        <5> QED BY <2>1, <3>4, <3>5, <4>1, PrefixedTyped
      <4>3. read[p] = Prefixed(x, read[q])
        BY <3>2, <4>2
      <4> HIDE DEF q, r, x, y
      <4>4. Prefixed(x, Prefixed(y, read[r])) = Prefixed(x \o y, read[r])
        BY <2>1, <2>2, <4>1, PrefixedTwice
      <4> QED BY <3>4, <4>3, <4>4
    <3> HIDE DEF q, r, x, y, vs, a
    <3> QED BY <2>3, <2>5, <3>4, <3>5
  <2> HIDE DEF Goal, vs
  <2>7. vs \in T
    BY <2>4, <2>6
  <2> QED BY <2>7 DEF vs
<1>5. \A us \in Seq(Units) : us \in T
  <2> HIDE DEF T
  <2> QED BY <1>3, <1>4, SeqInduction
<1> QED
  BY <1>5

-----------------------------------------------------------------------------
(* Strings *)

\* The same for a text between quotes.
LEMMA QuotedStands ==
  ASSUME NEW t \in Seq(Nat), NEW p \in Nat \ {0}, NEW a \in Seq(Nat)
  PROVE  Stands(Quoted(a), t, p) <=>
           At(t, p) = Quote /\ Stands(a, t, p + 1) /\ At(t, p + 1 + Len(a)) = Quote
<1> DEFINE mark == <<Quote>>
<1>1. mark \in Seq(Nat) /\ Len(mark) = 1 /\ mark[1] = Quote
  BY DEF Quote
<1>2. ASSUME NEW q \in Nat \ {0} PROVE Stands(mark, t, q) <=> At(t, q) = Quote
  <2>1. Quote # End /\ q - 1 + 1 = q /\ Len(t) \in Nat
    BY LenProperties DEF Quote, End
  <2>2. Stands(mark, t, q) <=> q - 1 + 1 <= Len(t) /\ t[q - 1 + 1] = Quote
    <3>1. \A i : i \in 1..1 <=> i = 1
      OBVIOUS
    <3> HIDE DEF mark
    <3> QED BY <1>1, <3>1 DEF Stands
  <2>3. /\ q <= Len(t) => At(t, q) = t[q]
        /\ ~(q <= Len(t)) => At(t, q) = End
    BY <2>1, SymbolAt
  <2> HIDE DEF mark
  <2> QED BY <2>1, <2>2, <2>3
<1>3. Len(a) \in Nat /\ mark \o a \in Seq(Nat) /\ Len(mark \o a) = 1 + Len(a)
  BY <1>1, LenProperties, ConcatProperties
<1> DEFINE b == mark \o a
<1>4. Quoted(a) = b \o mark
  BY DEF Quoted
<1> HIDE DEF mark
<1>5. Stands(b \o mark, t, p) <=> Stands(b, t, p) /\ Stands(mark, t, p + Len(b))
  <2>1. b \in Seq(Nat)
    BY <1>3
  <2> HIDE DEF b
  <2> QED BY <1>1, <2>1, StandsConcat
<1>6. Stands(b, t, p) <=> Stands(mark, t, p) /\ Stands(a, t, p + 1)
  BY <1>1, StandsConcat
<1>7. p + Len(b) = p + 1 + Len(a) /\ p + 1 + Len(a) \in Nat \ {0}
  <2>1. Len(b) = 1 + Len(a)
    BY <1>3
  <2> HIDE DEF b
  <2> QED BY <1>3, <2>1
<1> HIDE DEF b
<1> QED
  BY <1>2, <1>4, <1>5, <1>6, <1>7

\* Every string is read: wherever a quoted sequence of characters and escape
\* sequences stands, each spelled as the client likes, ParseJsonString gives
\* their texts in order and the place after the closing quote.
THEOREM StringsAreRead ==
  ASSUME NEW t \in Seq(Nat), NEW p \in Nat \ {0}, NEW us \in Seq(Units),
         Stands(Quoted(FlattenSeq(us)), t, p)
  PROVE  ParseJsonString(t, p) = [pos |-> p + Len(FlattenSeq(us)) + 2,
                                  out |-> FlattenSeq(Texts(us))]
<1> DEFINE a == FlattenSeq(us)
           x == FlattenSeq(Texts(us))
           q == p + 1 + Len(a)
           read == StringRest(t)
<1>1. a \in Seq(Nat) /\ x \in Seq(Nat) /\ Len(a) \in Nat
  BY UnitsTyped, FlattenType, LenProperties
<1>2. At(t, p) = Quote /\ Stands(a, t, p + 1) /\ At(t, q) = Quote
  <2> HIDE DEF a
  <2> QED BY <1>1, QuotedStands DEF a
<1>3. Reads(read, t)
  BY RestReads
<1>4. p + 1 \in Places(t)
  <2>1. Quote # End /\ Len(t) \in Nat
    BY LenProperties DEF Quote, End
  <2>2. p \in 1..Len(t)
    BY <1>2, <2>1, SymbolAt
  <2> QED BY <2>1, <2>2 DEF Places
<1> HIDE DEF read
<1>5. q \in Places(t) /\ (read[q].pos # 0 => read[p + 1] = Prefixed(x, read[q]))
  BY <1>2, <1>3, <1>4, UnitsRead
<1> HIDE DEF a, x
<1>6. read[q] = [pos |-> q + 1, out |-> <<>>]
  <2>1. read[q] = ReadAt(t, q, read)
    BY <1>3, <1>5 DEF Reads
  <2>2. Quote # Backslash /\ ~Plain(Quote)
    BY DEF Quote, Backslash, Plain
  <2> HIDE DEF q
  <2>3. ReadAt(t, q, read) = [pos |-> q + 1, out |-> <<>>]
    BY <1>2, <2>2 DEF ReadAt
  <2> QED BY <2>1, <2>3
<1>7. read[q].pos # 0 /\ q + 1 = p + Len(a) + 2
  BY <1>1, <1>6
<1>8. Prefixed(x, read[q]) = [pos |-> q + 1, out |-> x \o <<>>]
  <2>1. \A e : \A n \in Nat \ {0} : Prefixed(x, [pos |-> n, out |-> e]) = [pos |-> n, out |-> x \o e]
    BY DEF Prefixed
  <2>2. q + 1 \in Nat \ {0}
    BY <1>1
  <2> HIDE DEF q
  <2> QED BY <1>6, <2>1, <2>2
<1>9. x \o <<>> = x
  BY <1>1, ConcatEmptySeq
<1>10. ParseJsonString(t, p) = read[p + 1]
  BY <1>2 DEF ParseJsonString, read
<1>11. ParseJsonString(t, p) = [pos |-> q + 1, out |-> x]
  <2> HIDE DEF q
  <2> QED BY <1>5, <1>7, <1>8, <1>9, <1>10
<1>12. ParseJsonString(t, p) = [pos |-> p + Len(a) + 2, out |-> x]
  <2> HIDE DEF q
  <2> QED BY <1>7, <1>11
<1> QED
  BY <1>12 DEF a, x

\* What is read at a place that holds no quote begins with a unit.
LEMMA FirstUnit ==
  ASSUME NEW t \in Seq(Nat), NEW p \in Places(t), NEW read, At(t, p) # Quote,
         ReadAt(t, p, read).pos # 0
  PROVE  \E u \in Units : Stands(u, t, p)
<1> DEFINE c == At(t, p)
           e == EscapeAt(t, p + 1)
<1>1. /\ Len(t) \in Nat /\ p \in Nat \ {0} /\ p + 1 \in Nat \ {0}
  BY LenProperties DEF Places
<1>2. ASSUME NEW n \in {1, 2, 6}, p - 1 + n <= Len(t)
      PROVE  \E u \in Seq(Nat) : /\ Len(u) = n /\ \A i \in 1..n : u[i] = t[p - 1 + i]
                                /\ Stands(u, t, p)
  <2> DEFINE u == SubSeq(t, p, p + n - 1)
             m == p + n - 1
  <2>1. /\ p <= m /\ m - p + 1 = n /\ p \in Int /\ m \in Int /\ p..m \subseteq 1..Len(t)
        /\ \A i \in 1..n : p + i - 1 = p - 1 + i /\ p - 1 + i <= Len(t)
    BY <1>1, <1>2
  <2>2. \A i \in p..m : t[i] \in Nat
    BY <2>1, ElementOfSeq
  <2> HIDE DEF m
  <2>3. /\ SubSeq(t, p, m) \in Seq(Nat) /\ Len(SubSeq(t, p, m)) = n
        /\ \A i \in 1..n : SubSeq(t, p, m)[i] = t[p + i - 1]
    <3>1. /\ SubSeq(t, p, m) \in Seq(Nat)
          /\ Len(SubSeq(t, p, m)) = IF p <= m THEN m - p + 1 ELSE 0
          /\ \A i \in 1..(m - p + 1) : SubSeq(t, p, m)[i] = t[p + i - 1]
      BY <2>1, <2>2, SubSeqProperties
    <3> QED BY <2>1, <3>1
  <2> HIDE DEF u
  <2>4. /\ u \in Seq(Nat) /\ Len(u) = n /\ \A i \in 1..n : u[i] = t[p + i - 1]
    BY <2>3 DEF u, m
  <2>5. \A i \in 1..n : u[i] = t[p - 1 + i]
    BY <2>1, <2>4
  <2>6. Stands(u, t, p)
    BY <2>1, <2>4, <2>5 DEF Stands
  <2> QED BY <2>4, <2>5, <2>6
<1>3. CASE Plain(c) /\ p <= Len(t) /\ c \in Nat
  <2>1. p - 1 + 1 <= Len(t) /\ p - 1 + 1 = p
    BY <1>1, <1>3
  <2>2. PICK u \in Seq(Nat) : Len(u) = 1 /\ u[1] = t[p] /\ Stands(u, t, p)
    <3>1. 1 \in 1..1 /\ 1 \in {1, 2, 6}
      OBVIOUS
    <3>2. PICK u \in Seq(Nat) : Len(u) = 1 /\ (\A i \in 1..1 : u[i] = t[p - 1 + i]) /\ Stands(u, t, p)
      BY <1>2, <2>1, <3>1
    <3> QED BY <2>1, <3>1, <3>2
  <2>3. u[1] = c
    <3>1. p \in 1..Len(t)
      BY <1>1, <1>3
    <3> QED BY <2>2, <3>1, SymbolAt
  <2>4. c \notin MustEscape
    BY <1>3 DEF Plain, MustEscape
  <2>5. IsUnit(u)
    BY <2>2, <2>3, <2>4 DEF IsUnit
  <2> QED BY <2>2, <2>5 DEF Units
<1>4. CASE c = Backslash /\ e.length \in {1, 5}
  <2> DEFINE n == 1 + e.length
             h == Hex(t, p + 2)
             d == At(t, p + 1)
  <2>1. /\ e.length # 0 => (p + 1) - 1 + e.length <= Len(t)
    BY <1>1, EscapeTyped
  <2>2. n \in {2, 6} /\ p - 1 + n <= Len(t)
    <3> HIDE DEF e
    <3> QED BY <1>1, <1>4, <2>1
  <2>3. PICK u \in Seq(Nat) : Len(u) = n /\ (\A i \in 1..n : u[i] = t[p - 1 + i]) /\ Stands(u, t, p)
    <3> HIDE DEF n
    <3> QED BY <1>2, <2>2
  <2>4. ASSUME NEW i \in 1..n PROVE u[i] = At(t, p - 1 + i) /\ u[i] \in Nat
    <3>1. p - 1 + i \in 1..Len(t)
      <4> HIDE DEF n
      <4> QED BY <1>1, <2>2
    <3>2. \A q \in 1..Len(t) : At(t, q) = t[q] /\ At(t, q) \in Nat
      BY SymbolAt
    <3> HIDE DEF n
    <3> QED BY <2>3, <3>1, <3>2
  <2>5. u[1] = Backslash /\ u[2] = d
    <3>1. 1 \in 1..n /\ 2 \in 1..n /\ p - 1 + 1 = p /\ p - 1 + 2 = p + 1
      <4>1. \A m \in {2, 6} : 1 \in 1..m /\ 2 \in 1..m
        OBVIOUS
      <4> HIDE DEF n
      <4> QED BY <1>1, <2>2, <4>1
    <3> HIDE DEF n, d
    <3> QED BY <1>4, <2>4, <3>1 DEF d
  <2>6. e = EscapeOf(d, h)
    <3>1. p + 1 + 1 = p + 2
      BY <1>1
    <3> QED BY <3>1 DEF EscapeAt
  <2>7. /\ d \in Escapable => EscapeOf(d, h).length = 1
        /\ d \notin Escapable => EscapeOf(d, h).length \in {0, 5}
        /\ EscapeOf(d, h).length = 5 => d = LetterU /\ \A i \in 0..3 : h[i] # End
    <3> HIDE DEF d, h
    <3> QED BY DEF EscapeOf
  <2>8. CASE e.length = 1
    <3>1. d \in Escapable
      <4>1. 1 \notin {0, 5}
        OBVIOUS
      <4> HIDE DEF d, h, e
      <4> QED BY <2>6, <2>7, <2>8, <4>1
    <3>2. n = 2
      <4> HIDE DEF e
      <4> QED BY <2>8
    <3>3. IsUnit(u)
      <4> HIDE DEF n, d
      <4> QED BY <2>3, <2>5, <3>1, <3>2 DEF IsUnit
    <3> HIDE DEF n
    <3> QED BY <2>3, <3>2, <3>3 DEF Units
  <2>9. CASE e.length = 5
    <3>1. d = LetterU /\ \A i \in 0..3 : h[i] # End
      <4> HIDE DEF d, h, e
      <4> QED BY <2>6, <2>7, <2>9
    <3>2. n = 6
      <4> HIDE DEF e
      <4> QED BY <2>9
    <3>3. ASSUME NEW i \in 3..6 PROVE u[i] \in HexDigits
      <4>1. /\ i - 3 \in 0..3 /\ p + 2 + (i - 3) = p - 1 + i /\ i \in 1..6
        BY <1>1
      <4>2. \A j \in 0..3 : h[j] = HexDigitValue(At(t, p + 2 + j))
        BY DEF Hex
      <4> HIDE DEF n, h
      <4>3. HexDigitValue(At(t, p - 1 + i)) # End
        BY <3>1, <4>1, <4>2
      <4>4. u[i] = At(t, p - 1 + i) /\ u[i] \in Nat
        BY <2>4, <3>2, <4>1
      <4> QED BY <4>3, <4>4, HexDigitsHaveValues
    <3>4. IsUnit(u)
      <4>1. Len(u) # 1 /\ Len(u) # 2
        BY <2>3, <3>2
      <4> HIDE DEF n, d
      <4> QED BY <2>5, <3>1, <3>3, <4>1 DEF IsUnit
    <3> HIDE DEF n
    <3> QED BY <2>3, <3>2, <3>4 DEF Units
  <2> QED BY <1>4, <2>8, <2>9
<1>5. NoString.pos = 0
  BY DEF NoString
<1> HIDE DEF c, e
<1>6. (Plain(c) /\ p <= Len(t) /\ c \in Nat) \/ (c = Backslash /\ e.length \in {1, 5})
  BY <1>5, ReadAtCases DEF c, e
<1> QED
  BY <1>3, <1>4, <1>6

\* One more unit in front.
LEMMA FlattenPrepend ==
  ASSUME NEW us \in Seq(Units), NEW u \in Units
  PROVE  /\ <<u>> \o us \in Seq(Units)
         /\ FlattenSeq(<<u>> \o us) = u \o FlattenSeq(us)
<1> DEFINE A == Seq(Nat)
           one == <<u>>
           vs == one \o us
<1>1. one \in Seq(Units) /\ vs \in Seq(Units)
  <2>1. one \in Seq(Units)
    OBVIOUS
  <2> HIDE DEF one
  <2> QED BY <2>1, ConcatProperties
<1>2. u \in Seq(Nat) /\ FlattenSeq(one) = u
  <2>1. u \in Seq(Nat)
    BY DEF Units
  <2> QED BY <2>1, FlattenOne
<1>3. one \in Seq(A) /\ us \in Seq(A)
  BY <1>1, UnitsTyped
<1>4. FlattenSeq(vs) = FlattenSeq(one) \o FlattenSeq(us)
  <2> HIDE DEF one
  <2> QED BY <1>3, FlattenConcat
<1> QED
  BY <1>1, <1>2, <1>4

\* Nothing else is read: where ParseJsonString accepts, characters and escape
\* sequences stand between two quotes (StringsAreRead then says what it gives).
THEOREM OnlyStringsAreRead ==
  ASSUME NEW t \in Seq(Nat), NEW p \in Nat \ {0}, ParseJsonString(t, p).pos # 0
  PROVE  \E us \in Seq(Units) : Stands(Quoted(FlattenSeq(us)), t, p)
<1> DEFINE L == Len(t)
           read == StringRest(t)
           Rest(us, q) == Stands(FlattenSeq(us), t, q) /\ At(t, q + Len(FlattenSeq(us))) = Quote
           Found(q) == read[q].pos # 0 => \E us \in Seq(Units) : Rest(us, q)
           T == {n \in 0..(L + 1) : \A q \in Places(t) : q > L + 1 - n => Found(q)}
<1>1. L \in Nat /\ \A q \in Places(t) : q \in Nat \ {0} /\ q <= L + 1
  BY LenProperties DEF Places
<1>2. \A q \in Places(t) : read[q] \in Readings /\ read[q] = ReadAt(t, q, read)
  BY RestReads DEF Reads
<1> HIDE DEF read
<1>3. 0 \in T
  <2>1. \A q \in Places(t) : ~(q > L + 1 - 0)
    BY <1>1
  <2> HIDE DEF Found
  <2> QED BY <1>1, <2>1
<1>4. ASSUME NEW n \in 0..L, n \in T PROVE n + 1 \in T
  <2>1. \A q \in Places(t) : q > L + 1 - n => Found(q)
    BY <1>4
  <2>2. ASSUME NEW q \in Places(t), q > L + 1 - (n + 1), read[q].pos # 0
        PROVE  \E us \in Seq(Units) : Rest(us, q)
    <3>1. CASE At(t, q) = Quote
      <4>1. <<>> \in Seq(Units) /\ FlattenSeq(<<>>) = <<>> /\ Len(<<>>) = 0 /\ q + 0 = q
        BY <1>1, EmptySeq, FlattenEmpty
      <4>2. Stands(<<>>, t, q)
        <5>1. 1..0 = {}
          OBVIOUS
        <5> QED BY <4>1, <5>1 DEF Stands
      <4>3. Rest(<<>>, q)
        BY <3>1, <4>1, <4>2
      <4> HIDE DEF Rest
      <4> QED BY <4>1, <4>3
    <3>2. CASE At(t, q) # Quote
      <4>1. PICK u \in Units : Stands(u, t, q)
        <5>1. ReadAt(t, q, read).pos # 0
          BY <1>2, <2>2
        <5> QED BY <3>2, <5>1, FirstUnit
      <4> DEFINE r == q + Len(u)
      <4>2. ReadAt(t, q, read) = Prefixed(UnitText(u), read[r]) /\ r \in Places(t)
        BY <4>1, OneUnit
      <4>3. read[r].pos # 0
        <5> HIDE DEF r
        <5>1. Prefixed(UnitText(u), read[r]).pos = read[r].pos
          BY <1>2, <4>2, UnitTextTyped, PrefixedTyped
        <5> QED BY <1>2, <2>2, <4>2, <5>1
      <4>4. r > L + 1 - n
        <5>1. Len(u) \in Nat /\ Len(u) > 0
          <6>1. Len(u) \in {1, 2, 6}
            BY UnitShape
          <6>2. \A m \in {1, 2, 6} : m \in Nat /\ m > 0
            OBVIOUS
          <6> QED BY <6>1, <6>2
        <5> QED BY <1>1, <2>2, <5>1
      <4>5. PICK us \in Seq(Units) : Rest(us, r)
        <5> HIDE DEF r, Rest
        <5> QED BY <2>1, <4>2, <4>3, <4>4
      <4> DEFINE vs == <<u>> \o us
                 a == FlattenSeq(us)
      <4>6. vs \in Seq(Units) /\ FlattenSeq(vs) = u \o a
        BY FlattenPrepend
      <4>7. u \in Seq(Nat) /\ a \in Seq(Nat)
        BY UnitsTyped, FlattenType DEF Units
      <4>8. Stands(a, t, r) /\ At(t, r + Len(a)) = Quote
        BY <4>5
      <4> HIDE DEF a
      <4>9. Stands(u \o a, t, q)
        BY <1>1, <4>1, <4>7, <4>8, StandsConcat
      <4>10. q + Len(u \o a) = r + Len(a)
        <5>1. Len(u \o a) = Len(u) + Len(a) /\ Len(u) \in Nat /\ Len(a) \in Nat
          BY <4>7, ConcatProperties, LenProperties
        <5> QED BY <1>1, <5>1
      <4> HIDE DEF vs, r
      <4>11. Rest(vs, q)
        BY <4>6, <4>8, <4>9, <4>10
      <4> HIDE DEF Rest
      <4> QED BY <4>6, <4>11
    <3> QED BY <3>1, <3>2
  <2>3. \A q \in Places(t) : q > L + 1 - (n + 1) => Found(q)
    <3> HIDE DEF Rest
    <3> QED BY <2>2
  <2>4. n + 1 \in 0..(L + 1)
    BY <1>1
  <2> HIDE DEF Found
  <2> QED BY <2>3, <2>4
<1>5. \A n \in 0..(L + 1) : n \in T
  <2> HIDE DEF T
  <2>1. L + 1 \in Nat /\ (L + 1) - 1 = L
    BY <1>1
  <2> QED BY <1>3, <1>4, <2>1, BoundedInduction
<1>6. At(t, p) = Quote /\ read[p + 1].pos # 0
  BY DEF ParseJsonString, NoString, read
<1>7. p + 1 \in Places(t)
  <2>1. Quote # End
    BY DEF Quote, End
  <2>2. p \in 1..Len(t)
    BY <1>6, <2>1, SymbolAt
  <2> QED BY <1>1, <2>2 DEF Places
<1>8. Found(p + 1)
  <2>1. L + 1 \in T /\ p + 1 > L + 1 - (L + 1)
    <3>1. L + 1 \in 0..(L + 1) /\ p + 1 > L + 1 - (L + 1)
      BY <1>1
    <3> HIDE DEF T
    <3> QED BY <1>5, <3>1
  <2>2. \A q \in Places(t) : q > L + 1 - (L + 1) => Found(q)
    <3> HIDE DEF Found
    <3> QED BY <2>1
  <2> HIDE DEF Found
  <2> QED BY <1>7, <2>1, <2>2
<1>9. PICK us \in Seq(Units) : Rest(us, p + 1)
  <2> HIDE DEF Rest
  <2> QED BY <1>6, <1>8
<1>10. FlattenSeq(us) \in Seq(Nat)
  BY UnitsTyped, FlattenType
<1>11. Stands(Quoted(FlattenSeq(us)), t, p)
  BY <1>6, <1>9, <1>10, QuotedStands
<1> QED
  BY <1>11

-----------------------------------------------------------------------------
(* What Escape writes *)

\* EscapeSymbol writes a unit that stands for the symbol itself.
LEMMA EscapeUnit ==
  ASSUME NEW c \in Nat
  PROVE  EscapeSymbol(c) \in Units /\ UnitText(EscapeSymbol(c)) = <<c>>
<1> DEFINE u == EscapeSymbol(c)
           Short(letter) == <<Backslash, letter>>
<1>1. ASSUME NEW letter \in Escapable
      PROVE  Short(letter) \in Units /\ UnitText(Short(letter)) = <<Unescaped(letter)>>
  <2> DEFINE v == Short(letter)
  <2>1. v \in Seq(Nat) /\ Len(v) = 2 /\ v[1] = Backslash /\ v[2] = letter
    BY DEF Escapable, Quote, Backslash, Slash, EscapeLetters
  <2> HIDE DEF v
  <2>2. v \in Units
    <3>1. IsUnit(v)
      BY <2>1 DEF IsUnit
    <3> QED BY <2>1, <3>1 DEF Units
  <2>3. At(v, 2) = letter
    BY <2>1 DEF At
  <2>4. EscapeAt(v, 2) = [length |-> 1, text |-> <<Unescaped(letter)>>]
    BY <2>3 DEF EscapeAt, EscapeOf
  <2> QED BY <2>1, <2>2, <2>4 DEF UnitText, v
<1>2. CASE c \in {Quote, Backslash}
  <2>1. u = Short(c) /\ c \in Escapable
    BY <1>2 DEF EscapeSymbol, Escapable
  <2>2. Unescaped(c) = c
    BY <1>2 DEF Unescaped, Quote, Backslash
  <2> QED BY <1>1, <2>1, <2>2
<1>3. CASE c \notin {Quote, Backslash} /\ \E letter \in EscapeLetters : Unescaped(letter) = c
  <2> DEFINE letter == CHOOSE letter \in EscapeLetters : Unescaped(letter) = c
  <2>1. letter \in EscapeLetters /\ Unescaped(letter) = c
    BY <1>3
  <2>2. u = Short(letter)
    BY <1>3 DEF EscapeSymbol
  <2> HIDE DEF letter
  <2>3. letter \in Escapable
    BY <2>1 DEF Escapable
  <2> QED BY <1>1, <2>1, <2>2, <2>3
<1>4. CASE /\ c \notin {Quote, Backslash} /\ ~\E letter \in EscapeLetters : Unescaped(letter) = c
           /\ c \in Controls
  <2> DEFINE a == HexDigit(c \div 16)
             b == HexDigit(c % 16)
  <2>1. u = <<Backslash, LetterU, 48, 48, a, b>>
    BY <1>4 DEF EscapeSymbol
  <2>2. ASSUME NEW n \in 0..15
        PROVE  HexDigit(n) \in HexDigits /\ HexDigit(n) \in Nat /\ HexDigitValue(HexDigit(n)) = n
    BY DEF HexDigit, HexDigits, Digits, HexDigitValue
  <2>3. c \div 16 \in 0..15 /\ c % 16 \in 0..15 /\ (c \div 16) * 16 + (c % 16) = c /\ c <= 127
    BY <1>4 DEF Controls
  <2>4. /\ a \in HexDigits /\ b \in HexDigits /\ a \in Nat /\ b \in Nat
        /\ HexDigitValue(a) = c \div 16 /\ HexDigitValue(b) = c % 16
    BY <2>2, <2>3
  <2>5. 48 \in HexDigits /\ HexDigitValue(48) = 0
    BY DEF HexDigits, Digits, HexDigitValue
  <2> HIDE DEF a, b, u
  <2>6. /\ u \in Seq(Nat) /\ Len(u) = 6 /\ u[1] = Backslash /\ u[2] = LetterU
        /\ u[3] = 48 /\ u[4] = 48 /\ u[5] = a /\ u[6] = b
    BY <2>1, <2>4 DEF Backslash, LetterU
  <2>7. \A i \in 3..6 : u[i] \in HexDigits
    <3>1. \A i \in 3..6 : i = 3 \/ i = 4 \/ i = 5 \/ i = 6
      OBVIOUS
    <3> QED BY <2>4, <2>5, <2>6, <3>1
  <2>8. u \in Units
    <3>1. IsUnit(u)
      BY <2>6, <2>7 DEF IsUnit
    <3> QED BY <2>6, <3>1 DEF Units
  <2> DEFINE h == Hex(u, 3)
  <2>9. h[0] = 0 /\ h[1] = 0 /\ h[2] = c \div 16 /\ h[3] = c % 16 /\ h \in [0..3 -> 0..15]
    <3>1. \A i \in 0..3 : h[i] = HexDigitValue(u[3 + i])
      <4>1. \A i \in 0..3 : At(u, 3 + i) = u[3 + i]
        BY <2>6 DEF At
      <4> QED BY <4>1 DEF Hex
    <3> HIDE DEF h
    <3>2. /\ h[0] = HexDigitValue(48) /\ h[1] = HexDigitValue(48)
          /\ h[2] = HexDigitValue(a) /\ h[3] = HexDigitValue(b)
      <4>1. /\ 0 \in 0..3 /\ 1 \in 0..3 /\ 2 \in 0..3 /\ 3 \in 0..3
            /\ 3 + 0 = 3 /\ 3 + 1 = 4 /\ 3 + 2 = 5 /\ 3 + 3 = 6
        OBVIOUS
      <4> QED BY <2>6, <3>1, <4>1
    <3>3. h[0] = 0 /\ h[1] = 0 /\ h[2] = c \div 16 /\ h[3] = c % 16
      BY <2>4, <2>5, <3>2
    <3>4. \A i \in 0..3 : h[i] \in 0..15
      <4>1. \A i \in 0..3 : i = 0 \/ i = 1 \/ i = 2 \/ i = 3
        OBVIOUS
      <4>2. 0 \in 0..15
        OBVIOUS
      <4> QED BY <2>3, <3>3, <4>1, <4>2
    <3> QED BY <3>3, <3>4 DEF Hex, h
  <2>10. HexValue(h) = c
    <3> HIDE DEF h
    <3>1. HexValue(h) = (0 * 16 + 0) * 16 * 16 + (c \div 16) * 16 + (c % 16)
      BY <2>3, <2>9 DEF HexValue
    <3> QED BY <2>3, <3>1
  <2>11. AppendUtf8(c) = <<c>>
    BY <2>3 DEF AppendUtf8
  <2>12. EscapeAt(u, 2).text = <<c>>
    <3>1. At(u, 2) = LetterU
      BY <2>6 DEF At
    <3>2. LetterU \notin Escapable /\ End \notin 0..15
      BY DEF LetterU, Escapable, Quote, Backslash, Slash, EscapeLetters, End
    <3>3. \A i \in 0..3 : h[i] # End
      BY <2>9, <3>2
    <3>4. EscapeAt(u, 2) = EscapeOf(LetterU, h)
      <4>1. 2 + 1 = 3
        OBVIOUS
      <4> QED BY <3>1, <4>1 DEF EscapeAt
    <3> HIDE DEF h
    <3>5. EscapeOf(LetterU, h) = [length |-> 5, text |-> AppendUtf8(HexValue(h))]
      BY <3>2, <3>3 DEF EscapeOf
    <3> QED BY <2>10, <2>11, <3>4, <3>5
  <2> QED BY <2>6, <2>8, <2>12 DEF UnitText, u
<1>5. CASE /\ c \notin {Quote, Backslash} /\ ~\E letter \in EscapeLetters : Unescaped(letter) = c
           /\ c \notin Controls
  <2>1. u = <<c>>
    BY <1>5 DEF EscapeSymbol
  <2>2. IsUnit(<<c>>)
    <3>1. Len(<<c>>) = 1 /\ <<c>>[1] = c
      OBVIOUS
    <3> QED BY <1>5, <3>1 DEF IsUnit, MustEscape
  <2>3. <<c>> \in Units /\ UnitText(<<c>>) = <<c>>
    BY <2>2 DEF Units, UnitText
  <2> QED BY <2>1, <2>3
<1> QED
  BY <1>2, <1>3, <1>4, <1>5

\* The sequence of one-symbol texts of a text.
Singles(s) == [i \in 1..Len(s) |-> <<s[i]>>]

\* It is as long as the text.
LEMMA SinglesTyped ==
  ASSUME NEW s \in Seq(Nat)
  PROVE  Singles(s) \in Seq(Seq(Nat)) /\ Len(Singles(s)) = Len(s)
<1> DEFINE A == Seq(Nat)
           n == Len(s)
           x == Singles(s)
<1>1. n \in Nat /\ \A i \in 1..n : <<s[i]>> \in A
  <2>1. \A c \in Nat : <<c>> \in Seq(Nat)
    OBVIOUS
  <2>2. \A i \in 1..n : s[i] \in Nat
    BY ElementOfSeq
  <2> QED BY <2>1, <2>2, LenProperties
<1>2. x = [i \in 1..n |-> <<s[i]>>]
  BY DEF Singles
<1> HIDE DEF A, n, x
<1>3. x \in [1..n -> A]
  BY <1>1, <1>2
<1>4. x \in Seq(A) /\ Len(x) = n
  BY <1>1, <1>3, FunctionIsSeq
<1> QED
  BY <1>4 DEF A, n, x

\* Put together it is the text.
LEMMA FlattenSingles ==
  \A s \in Seq(Nat) : FlattenSeq(Singles(s)) = s
<1> DEFINE A == Seq(Nat)
           T == {s \in Seq(Nat) : FlattenSeq(Singles(s)) = s}
<1>1. <<>> \in T
  <2>1. <<>> \in Seq(Nat) /\ Len(<<>>) = 0
    BY EmptySeq
  <2> DEFINE x == Singles(<<>>)
  <2>2. x \in Seq(A) /\ Len(x) = 0
    BY <2>1, SinglesTyped
  <2> HIDE DEF x, A
  <2>3. x = <<>>
    BY <2>2, EmptySeq
  <2>4. FlattenSeq(x) = <<>>
    BY <2>3, FlattenEmpty
  <2> QED BY <2>1, <2>4 DEF x
<1>2. ASSUME NEW s \in Seq(Nat), NEW c \in Nat, s \in T PROVE Append(s, c) \in T
  <2> DEFINE v == Append(s, c)
             n == Len(s)
             x == Singles(s)
             y == Singles(v)
             e == <<c>>
             z == Append(x, e)
  <2>1. /\ v \in Seq(Nat) /\ n \in Nat /\ Len(v) = n + 1 /\ v[n + 1] = c
        /\ \A i \in 1..n : v[i] = s[i]
    BY AppendProperties, LenProperties
  <2>2. x \in Seq(A) /\ Len(x) = n /\ y \in Seq(A) /\ e \in A
    <3>1. e \in A
      OBVIOUS
    <3> HIDE DEF A, n, v, e
    <3> QED BY <2>1, <3>1, SinglesTyped DEF A, n
  <2>3. /\ \A i \in 1..n : x[i] = <<s[i]>>
        /\ \A i \in 1..(n + 1) : y[i] = <<v[i]>>
        /\ Len(y) = n + 1
    <3>1. Len(y) = Len(v)
      BY <2>1, SinglesTyped
    <3>2. y = [i \in 1..Len(v) |-> <<v[i]>>] /\ x = [i \in 1..n |-> <<s[i]>>]
      BY DEF Singles
    <3> HIDE DEF v, n, x, y
    <3> QED BY <2>1, <3>1, <3>2
  <2> HIDE DEF A, n, v, x, y, e
  <2>4. /\ z \in Seq(A) /\ Len(z) = n + 1 /\ z[n + 1] = e
        /\ \A i \in 1..n : z[i] = x[i]
    BY <2>2, AppendProperties
  <2> HIDE DEF z
  <2>5. \A i \in 1..(n + 1) : y[i] = z[i]
    <3>1. \A i \in 1..(n + 1) : i \in 1..n \/ i = n + 1
      BY <2>1
    <3>2. \A i \in 1..n : y[i] = z[i]
      <4>1. \A i \in 1..n : i \in 1..(n + 1)
        BY <2>1
      <4> QED BY <2>1, <2>3, <2>4, <4>1
    <3>3. y[n + 1] = z[n + 1]
      <4>1. n + 1 \in 1..(n + 1)
        BY <2>1
      <4> QED BY <2>1, <2>3, <2>4, <4>1 DEF e
    <3> QED BY <3>1, <3>2, <3>3
  <2>6. y = z
    <3>1. y \in [1..(n + 1) -> A] /\ z \in [1..(n + 1) -> A]
      BY <2>2, <2>3, <2>4, LenProperties
    <3>2. y = [i \in 1..(n + 1) |-> y[i]] /\ z = [i \in 1..(n + 1) |-> z[i]]
      BY <3>1
    <3> QED BY <2>5, <3>2
  <2>7. FlattenSeq(z) = FlattenSeq(x) \o e
    BY <2>2, FlattenAppend DEF A, z
  <2>8. FlattenSeq(x) = s
    BY <1>2 DEF x
  <2>9. s \o e = v
    BY AppendIsConcat DEF e, v
  <2>10. FlattenSeq(y) = v
    BY <2>6, <2>7, <2>8, <2>9
  <2> QED BY <2>1, <2>10 DEF v, y
<1>3. \A s \in Seq(Nat) : s \in T
  <2> HIDE DEF T
  <2> QED BY <1>1, <1>2, SeqInduction
<1> QED
  BY <1>3

\* Escape writes units that stand for the symbols of the text.
LEMMA EscapeUnits ==
  ASSUME NEW s \in Seq(Nat)
  PROVE  LET us == [i \in 1..Len(s) |-> EscapeSymbol(s[i])] IN
           us \in Seq(Units) /\ Len(us) = Len(s) /\ Texts(us) = Singles(s)
<1> DEFINE n == Len(s)
           us == [i \in 1..n |-> EscapeSymbol(s[i])]
<1>1. n \in Nat /\ \A i \in 1..n : EscapeSymbol(s[i]) \in Units /\ UnitText(EscapeSymbol(s[i])) = <<s[i]>>
  <2>1. \A i \in 1..n : s[i] \in Nat
    BY ElementOfSeq
  <2> QED BY <2>1, EscapeUnit, LenProperties
<1>2. us \in [1..n -> Units] /\ \A i \in 1..n : us[i] = EscapeSymbol(s[i])
  <2> HIDE DEF n
  <2> QED BY <1>1
<1>3. Singles(s) = [i \in 1..n |-> <<s[i]>>]
  BY DEF Singles
<1> HIDE DEF n, us
<1>4. us \in Seq(Units) /\ Len(us) = n
  BY <1>1, <1>2, FunctionIsSeq
<1>5. Texts(us) = Singles(s)
  BY <1>1, <1>2, <1>3, <1>4 DEF Texts
<1> QED
  BY <1>4, <1>5 DEF n, us

\* What Escape has written is read back unchanged, wherever it stands between
\* quotes.
THEOREM EscapedReadBack ==
  ASSUME NEW t \in Seq(Nat), NEW p \in Nat \ {0}, NEW s \in Seq(Nat),
         Stands(Quoted(Escape(s)), t, p)
  PROVE  ParseJsonString(t, p) = [pos |-> p + Len(Escape(s)) + 2, out |-> s]
<1> DEFINE us == [i \in 1..Len(s) |-> EscapeSymbol(s[i])]
<1>1. us \in Seq(Units) /\ Texts(us) = Singles(s)
  BY EscapeUnits
<1>2. Escape(s) = FlattenSeq(us)
  BY DEF Escape
<1>3. FlattenSeq(Texts(us)) = s
  BY <1>1, FlattenSingles
<1> HIDE DEF us
<1>4. ParseJsonString(t, p) = [pos |-> p + Len(FlattenSeq(us)) + 2, out |-> FlattenSeq(Texts(us))]
  BY <1>1, <1>2, StringsAreRead
<1> QED
  BY <1>2, <1>3, <1>4

\* An escape sequence is read as the UTF-8 of the code point it names: as many
\* bytes as the first announces, each of the others a continuation byte, and
\* decoding them gives the code point back.
THEOREM EscapesAreUtf8 ==
  ASSUME NEW code \in Codes
  PROVE  LET bytes == AppendUtf8(code) IN
           /\ bytes \in Seq(0..255) /\ Len(bytes) = Width(bytes[1])
           /\ \A i \in 2..Len(bytes) : bytes[i] \in 128..191
           /\ CodePoint(bytes) = code
<1> DEFINE a == code \div 64
           b == code % 64
           c == a \div 64
           d == a % 64
           w == code \div 4096
<1>1. code \in Nat
  BY DEF Codes
<1>2. a \in Nat /\ b \in 0..63 /\ code = a * 64 + b
  BY <1>1
<1>3. c \in Nat /\ d \in 0..63 /\ a = c * 64 + d
  <2> HIDE DEF a
  <2> QED BY <1>2
<1>4. w = c /\ w < 16
  <2>1. w < 16
    BY DEF Codes
  <2>2. /\ w \in Nat /\ code >= w * 4096 /\ code < (w + 1) * 4096
    BY <1>1
  <2> HIDE DEF a, b, c, d, w
  <2>3. code >= c * 4096 /\ code < (c + 1) * 4096
    BY <1>2, <1>3
  <2>4. w <= c /\ c <= w
    <3>1. \A i, j \in Nat : i < j => (i + 1) * 4096 <= j * 4096
      OBVIOUS
    <3>2. \A i, j \in Nat : ~(i < j) => j <= i
      OBVIOUS
    <3>3. ~(c < w)
      <4>1. c < w => (c + 1) * 4096 <= w * 4096
        BY <1>3, <2>2, <3>1
      <4> QED BY <1>1, <1>3, <2>2, <2>3, <4>1
    <3>4. ~(w < c)
      <4>1. w < c => (w + 1) * 4096 <= c * 4096
        BY <1>3, <2>2, <3>1
      <4> QED BY <1>1, <1>3, <2>2, <2>3, <4>1
    <3> QED BY <1>3, <2>2, <3>2, <3>3, <3>4
  <2> QED BY <1>3, <2>1, <2>2, <2>4
<1>5. AppendUtf8(code) = IF code <= 127 THEN <<code>>
                         ELSE IF code <= 2047 THEN <<192 + a, 128 + b>>
                         ELSE <<224 + w, 128 + d, 128 + b>>
  BY DEF AppendUtf8
<1> HIDE DEF a, b, c, d, w
<1>6. CASE code <= 127
  BY <1>1, <1>5, <1>6 DEF Width, CodePoint
<1>7. CASE ~(code <= 127) /\ code <= 2047
  <2>1. a \in 2..31
    BY <1>1, <1>2, <1>7
  <2> DEFINE x == 192 + a
             y == 128 + b
  <2>2. /\ x \in 192..223 /\ y \in 128..191 /\ (x - 192) * 64 + y - 128 = code
    BY <1>2, <2>1
  <2>3. AppendUtf8(code) = <<x, y>>
    BY <1>5, <1>7
  <2> HIDE DEF x, y
  <2>4. <<x, y>> \in Seq(0..255)
    BY <2>2
  <2>5. Width(x) = 2
    BY <2>2 DEF Width
  <2>6. CodePoint(<<x, y>>) = code
    BY <2>2 DEF CodePoint
  <2>7. \A i \in 2..2 : <<x, y>>[i] = y
    OBVIOUS
  <2> QED BY <2>2, <2>3, <2>4, <2>5, <2>6, <2>7
<1>8. CASE ~(code <= 2047)
  <2> DEFINE x == 224 + w
             y == 128 + d
             z == 128 + b
  <2>1. /\ x \in 224..239 /\ y \in 128..191 /\ z \in 128..191
        /\ ((x - 224) * 64 + y - 128) * 64 + z - 128 = code
    BY <1>2, <1>3, <1>4
  <2>2. AppendUtf8(code) = <<x, y, z>>
    BY <1>1, <1>5, <1>8
  <2> HIDE DEF x, y, z
  <2>3. <<x, y, z>> \in Seq(0..255)
    BY <2>1
  <2>4. Width(x) = 3
    BY <2>1 DEF Width
  <2>5. CodePoint(<<x, y, z>>) = code
    BY <2>1 DEF CodePoint
  <2>6. \A i \in 2..3 : <<x, y, z>>[i] \in {y, z}
    <3>1. \A i \in 2..3 : i = 2 \/ i = 3
      OBVIOUS
    <3> QED BY <3>1
  <2> QED BY <2>1, <2>2, <2>3, <2>4, <2>5, <2>6
<1> QED
  BY <1>6, <1>7, <1>8

-----------------------------------------------------------------------------
(* Places of a text *)

\* From p on, the first place in T is q.
First(T, p, q) == p <= q /\ q \in T /\ \A r \in p..(q - 1) : r \notin T

\* There is a first place if all places past the end of the text are in T.
LEMMA FirstExists ==
  ASSUME NEW n \in Nat, NEW T \in SUBSET Nat, \A q \in Nat : q > n => q \in T,
         NEW p \in Nat \ {0}
  PROVE  \E q \in p..(p + n) : First(T, p, q)
<1> DEFINE U == {q \in T : p <= q}
<1>1. p + n \in U
  OBVIOUS
<1>2. U \in SUBSET Nat /\ U # {}
  BY <1>1
<1>3. \A q : q \in U <=> q \in T /\ p <= q
  OBVIOUS
<1> HIDE DEF U
<1>4. PICK q \in U : \A r \in U : q <= r
  BY <1>2, LeastExists
<1>5. q \in Nat /\ q \in T /\ p <= q /\ q <= p + n
  BY <1>1, <1>2, <1>3, <1>4
<1>6. \A r \in p..(q - 1) : r \notin T
  <2>1. \A r \in p..(q - 1) : p <= r /\ ~(q <= r)
    BY <1>5
  <2> QED BY <1>3, <1>4, <2>1
<1> QED
  BY <1>5, <1>6 DEF First

\* It is the only one.
LEMMA FirstUnique ==
  ASSUME NEW T, NEW p \in Nat, NEW q \in Nat, NEW r \in Nat, First(T, p, q), First(T, p, r)
  PROVE  q = r
<1>1. ~(q < r)
  <2>1. q < r => q \in p..(r - 1)
    BY DEF First
  <2> QED BY <2>1 DEF First
<1>2. ~(r < q)
  <2>1. r < q => r \in p..(q - 1)
    BY DEF First
  <2> QED BY <2>1 DEF First
<1> QED
  BY <1>1, <1>2

\* Where SkipWhitespace stops, and where a scalar ends.
Stops(t) == {q \in Nat : At(t, q) \notin Whitespace}
\* The places at which a scalar ends.
Separators(t) == {q \in Nat : At(t, q) \in ScalarStops}

\* A text ends with a stop, and a separator.
LEMMA StopsAtEnd ==
  ASSUME NEW t \in Seq(Nat), NEW q \in Nat, q > Len(t)
  PROVE  At(t, q) = End /\ q \in Stops(t) /\ q \in Separators(t)
<1>1. At(t, q) = End
  <2>1. q \notin 1..Len(t)
    BY LenProperties
  <2> QED BY <2>1, SymbolAt
<1>2. End \notin Whitespace /\ End \in ScalarStops
  BY DEF End, Whitespace, ScalarStops
<1> QED
  BY <1>1, <1>2 DEF Stops, Separators

\* Skip gives the first stop.
LEMMA SkipFirst ==
  ASSUME NEW t \in Seq(Nat), NEW p \in Nat \ {0}
  PROVE  Skip(t, p) \in Nat /\ First(Stops(t), p, Skip(t, p))
<1> DEFINE L == Len(t)
           Is(q) == At(t, q) \notin Whitespace /\ \A r \in p..(q - 1) : At(t, r) \in Whitespace
<1>1. L \in Nat
  BY LenProperties
<1>2. PICK q \in p..(p + L) : First(Stops(t), p, q)
  <2>1. Stops(t) \in SUBSET Nat /\ \A q \in Nat : q > L => q \in Stops(t)
    BY StopsAtEnd DEF Stops
  <2> QED BY <1>1, <2>1, FirstExists
<1>3. \A r \in p..(p + L) : First(Stops(t), p, r) <=> Is(r)
  <2>1. \A r \in p..(p + L) : r \in Nat /\ p <= r /\ \A s \in p..(r - 1) : s \in Nat
    BY <1>1
  <2>2. \A r \in Nat : r \in Stops(t) <=> At(t, r) \notin Whitespace
    BY DEF Stops
  <2> HIDE DEF L
  <2> QED BY <2>1, <2>2 DEF First
<1>4. Skip(t, p) = CHOOSE r \in p..(p + L) : Is(r)
  BY DEF Skip
<1> HIDE DEF L, Is
<1>5. Skip(t, p) \in p..(p + L) /\ Is(Skip(t, p))
  BY <1>2, <1>3, <1>4
<1> QED
  BY <1>1, <1>3, <1>5

\* Scalar gives the first separator.
LEMMA ScalarFirst ==
  ASSUME NEW t \in Seq(Nat), NEW p \in Nat \ {0}
  PROVE  Scalar(t, p) \in Nat /\ First(Separators(t), p, Scalar(t, p))
<1> DEFINE L == Len(t)
           Is(q) == At(t, q) \in ScalarStops /\ \A r \in p..(q - 1) : At(t, r) \notin ScalarStops
<1>1. L \in Nat
  BY LenProperties
<1>2. PICK q \in p..(p + L) : First(Separators(t), p, q)
  <2>1. Separators(t) \in SUBSET Nat /\ \A q \in Nat : q > L => q \in Separators(t)
    BY StopsAtEnd DEF Separators
  <2> QED BY <1>1, <2>1, FirstExists
<1>3. \A r \in p..(p + L) : First(Separators(t), p, r) <=> Is(r)
  <2>1. \A r \in p..(p + L) : r \in Nat /\ p <= r /\ \A s \in p..(r - 1) : s \in Nat
    BY <1>1
  <2>2. \A r \in Nat : r \in Separators(t) <=> At(t, r) \in ScalarStops
    BY DEF Separators
  <2> HIDE DEF L
  <2> QED BY <2>1, <2>2 DEF First
<1>4. Scalar(t, p) = CHOOSE r \in p..(p + L) : Is(r)
  BY DEF Scalar
<1> HIDE DEF L, Is
<1>5. Scalar(t, p) \in p..(p + L) /\ Is(Scalar(t, p))
  BY <1>2, <1>3, <1>4
<1> QED
  BY <1>1, <1>3, <1>5

\* Skip stops within the text or right after it, and where no whitespace is.
LEMMA SkipTo ==
  ASSUME NEW t \in Seq(Nat), NEW p \in Nat \ {0}
  PROVE  LET q == Skip(t, p) IN
           /\ q \in Nat \ {0} /\ p <= q /\ At(t, q) \notin Whitespace
           /\ \A r \in p..(q - 1) : At(t, r) \in Whitespace
           /\ p \in Places(t) => q \in Places(t)
           /\ p \notin Places(t) => q = p
<1> DEFINE q == Skip(t, p)
           L == Len(t)
<1>1. L \in Nat /\ q \in Nat /\ First(Stops(t), p, q)
  BY LenProperties, SkipFirst
<1> HIDE DEF q
<1>2. /\ q \in Nat \ {0} /\ p <= q /\ At(t, q) \notin Whitespace
      /\ \A r \in p..(q - 1) : At(t, r) \in Whitespace
  BY <1>1 DEF First, Stops
<1>3. \A r \in Nat : r > L => At(t, r) \notin Whitespace
  BY StopsAtEnd DEF Stops
<1>4. p <= L + 1 => q <= L + 1
  <2>1. ASSUME p <= L + 1, q > L + 1 PROVE FALSE
    <3>1. L + 1 \in p..(q - 1) /\ L + 1 > L /\ L + 1 \in Nat
      BY <1>1, <1>2, <2>1
    <3> HIDE DEF L
    <3> QED BY <1>2, <1>3, <3>1
  <2> QED BY <1>1, <1>2, <2>1
<1>5. p > L + 1 => q = p
  <2>1. ASSUME p > L + 1, q # p PROVE FALSE
    <3>1. p \in p..(q - 1) /\ p > L
      BY <1>1, <1>2, <2>1
    <3> HIDE DEF L
    <3> QED BY <1>2, <1>3, <3>1
  <2> QED BY <2>1
<1>6. \A r \in Nat \ {0} : r \in Places(t) <=> r <= L + 1
  BY <1>1 DEF Places
<1>7. q \in Places(t) <=> q <= L + 1
  BY <1>2, <1>6
<1>8. p \in Places(t) <=> p <= L + 1
  BY <1>6
<1>9. p \notin Places(t) => p > L + 1
  BY <1>1, <1>8
<1> HIDE DEF L
<1> QED
  BY <1>2, <1>4, <1>5, <1>7, <1>8, <1>9 DEF q

\* Skip is at the first symbol that is no whitespace.
LEMMA SkipIs ==
  ASSUME NEW t \in Seq(Nat), NEW p \in Nat \ {0}, NEW q \in Nat, p <= q,
         At(t, q) \notin Whitespace, \A r \in p..(q - 1) : At(t, r) \in Whitespace
  PROVE  Skip(t, p) = q
<1>1. First(Stops(t), p, q)
  BY DEF First, Stops
<1> QED
  BY <1>1, SkipFirst, FirstUnique

\* What a function that returned false has left is kept.
LEMMA SkipZero ==
  ASSUME NEW t \in Seq(Nat)
  PROVE  Skip(t, 0) = 0 /\ At(t, 0) = End
<1>1. At(t, 0) = End
  BY DEF At
<1>2. End \notin Whitespace
  BY DEF End, Whitespace
<1>3. \A q \in 0..(0 + Len(t)) :
        (At(t, q) \notin Whitespace /\ \A r \in 0..(q - 1) : At(t, r) \in Whitespace) <=> q = 0
  <2>1. \A q \in 0..(0 + Len(t)) : q = 0 \/ 0 \in 0..(q - 1)
    BY LenProperties
  <2>2. \A r \in 0..(0 - 1) : FALSE
    OBVIOUS
  <2> QED BY <1>1, <1>2, <2>1, <2>2
<1>4. 0 \in 0..(0 + Len(t))
  BY LenProperties
<1>5. Skip(t, 0) = CHOOSE q \in 0..(0 + Len(t)) :
        At(t, q) \notin Whitespace /\ \A r \in 0..(q - 1) : At(t, r) \in Whitespace
  BY DEF Skip
<1> QED
  BY <1>1, <1>3, <1>4, <1>5

-----------------------------------------------------------------------------
(* What is read of a value *)

\* False, or a place after p, at most the one past the end.
Beyond(t, p) == {0} \cup (p + 1)..(Len(t) + 1)

\* The tables of ends that go on within the text.
AllEnds(t) ==
  {f \in [Places(t) -> [Kinds -> Nat]] : \A p \in Places(t) : \A kind \in Kinds : f[p][kind] \in Beyond(t, p)}

\* Two readings of a text agree behind a place.
SameAfter(f, g, t, p) == \A q \in (p + 1)..(Len(t) + 1) : f[q] = g[q]

\* The place after a symbol, and the next stop, are in the text or right after it.
LEMMA NextPlace ==
  ASSUME NEW t \in Seq(Nat), NEW p \in Nat \ {0}, At(t, p) # End
  PROVE  LET q == Skip(t, p + 1) IN
           /\ p \in Places(t) /\ p <= Len(t) /\ p + 1 \in Places(t)
           /\ q \in Places(t) /\ q \in (p + 1)..(Len(t) + 1)
           /\ At(t, p) = t[p]
<1>1. p \in 1..Len(t) /\ Len(t) \in Nat
  BY SymbolAt, LenProperties
<1>2. p \in Places(t) /\ p <= Len(t) /\ p + 1 \in Places(t) /\ p + 1 \in Nat \ {0} /\ At(t, p) = t[p]
  BY <1>1 DEF Places, At
<1> DEFINE q == Skip(t, p + 1)
<1>3. q \in Places(t) /\ p + 1 <= q
  BY <1>2, SkipTo
<1> HIDE DEF q
<1>4. q \in (p + 1)..(Len(t) + 1)
  BY <1>1, <1>3 DEF Places
<1> QED
  BY <1>2, <1>3, <1>4 DEF q

\* What ParseJsonString accepts ends with a quote, within the text.
LEMMA StringEnd ==
  ASSUME NEW t \in Seq(Nat), NEW p \in Nat \ {0}
  PROVE  LET s == ParseJsonString(t, p) IN
           /\ s \in Readings /\ s.pos \in Beyond(t, p)
           /\ s.pos # 0 => /\ s.pos \in (p + 2)..(Len(t) + 1)
                           /\ At(t, p) = Quote /\ t[s.pos - 1] = Quote
<1> DEFINE s == ParseJsonString(t, p)
<1>1. s \in Readings
  <2>1. CASE At(t, p) = Quote
    <3>1. Quote # End
      BY DEF Quote, End
    <3>2. p + 1 \in Places(t)
      BY <2>1, <3>1, NextPlace
    <3>3. StringRest(t)[p + 1] \in Readings
      BY <3>2, RestReads DEF Reads
    <3> QED BY <2>1, <3>3 DEF ParseJsonString
  <2>2. CASE At(t, p) # Quote
    <3>1. <<>> \in Seq(Nat)
      BY EmptySeq
    <3> QED BY <2>2, <3>1 DEF ParseJsonString, NoString, Readings
  <2> QED BY <2>1, <2>2
<1>2. CASE s.pos = 0
  BY <1>1, <1>2 DEF Beyond
<1>3. CASE s.pos # 0
  <2>1. PICK us \in Seq(Units) : Stands(Quoted(FlattenSeq(us)), t, p)
    BY <1>3, OnlyStringsAreRead
  <2> DEFINE a == FlattenSeq(us)
  <2>2. s = [pos |-> p + Len(a) + 2, out |-> FlattenSeq(Texts(us))]
    BY <2>1, StringsAreRead
  <2>3. a \in Seq(Nat) /\ Len(a) \in Nat
    BY UnitsTyped, FlattenType, LenProperties
  <2> HIDE DEF a
  <2>4. At(t, p) = Quote /\ At(t, p + 1 + Len(a)) = Quote
    BY <2>1, <2>3, QuotedStands DEF a
  <2>5. Quote # End /\ Len(t) \in Nat
    BY LenProperties DEF Quote, End
  <2>6. p + 1 + Len(a) \in 1..Len(t)
    <3>1. p + 1 + Len(a) \in Int
      BY <2>3
    <3> QED BY <2>4, <2>5, <3>1, SymbolAt
  <2>7. t[p + 1 + Len(a)] = Quote
    BY <2>4, <2>6 DEF At
  <2>8. s.pos = p + Len(a) + 2
    BY <2>2
  <2> HIDE DEF s
  <2>9. s.pos \in (p + 2)..(Len(t) + 1) /\ s.pos \in (p + 1)..(Len(t) + 1) /\ s.pos - 1 = p + 1 + Len(a)
    BY <2>3, <2>5, <2>6, <2>8
  <2>10. s.pos \in Beyond(t, p)
    BY <2>9 DEF Beyond
  <2>11. t[s.pos - 1] = Quote
    BY <2>7, <2>9
  <2> QED BY <1>1, <2>4, <2>9, <2>10, <2>11 DEF s
<1> QED
  BY <1>2, <1>3

\* The cases of More, and the places it looks at.
LEMMA MoreCases ==
  ASSUME NEW t \in Seq(Nat), NEW p \in Places(t), NEW end \in Beyond(t, p), NEW kind,
         NEW close \in {RBrace, RBracket}, NEW read
  PROVE  LET next == Skip(t, end) more == More(t, end, kind, close, read) IN
           \/ /\ end # 0 /\ At(t, next) = Comma /\ next \in end..Len(t)
              /\ Skip(t, next + 1) \in (next + 1)..(Len(t) + 1)
              /\ more = read[Skip(t, next + 1)][kind]
           \/ /\ end # 0 /\ At(t, next) = close /\ next \in end..Len(t) /\ more = next + 1
           \/ /\ At(t, next) \notin {Comma, close} /\ more = 0
<1> DEFINE next == Skip(t, end)
           more == More(t, end, kind, close, read)
<1>1. Comma # close /\ Comma # End /\ close # End
  BY DEF Comma, RBrace, RBracket, End
<1>2. more = CASE At(t, next) = Comma -> read[Skip(t, next + 1)][kind]
                 [] At(t, next) = close -> next + 1
                 [] OTHER -> 0
  BY DEF More
<1>3. CASE At(t, next) \notin {Comma, close}
  <2> HIDE DEF next, more
  <2>1. more = 0
    BY <1>2, <1>3
  <2> QED BY <1>3, <2>1 DEF next, more
<1>4. CASE At(t, next) \in {Comma, close}
  <2>1. end # 0
    BY <1>1, <1>4, SkipZero
  <2>2. end \in Nat \ {0} /\ p \in Nat \ {0}
    BY <2>1 DEF Beyond, Places
  <2>3. next \in Nat \ {0} /\ end <= next
    BY <2>2, SkipTo
  <2> HIDE DEF next
  <2>4. /\ next <= Len(t) /\ Skip(t, next + 1) \in (next + 1)..(Len(t) + 1)
    BY <1>1, <1>4, <2>3, NextPlace
  <2>5. next \in end..Len(t)
    BY <2>2, <2>3, <2>4, LenProperties
  <2>6. CASE At(t, next) = Comma
    <3> HIDE DEF more
    <3>1. more = read[Skip(t, next + 1)][kind]
      BY <1>1, <1>2, <2>6
    <3> QED BY <2>1, <2>4, <2>5, <2>6, <3>1 DEF next, more
  <2>7. CASE At(t, next) = close
    <3> HIDE DEF more
    <3>1. more = next + 1
      BY <1>1, <1>2, <2>7
    <3> QED BY <2>1, <2>4, <2>5, <2>7, <3>1 DEF next, more
  <2> QED BY <1>4, <2>6, <2>7
<1> QED
  BY <1>3, <1>4

\* More goes on from a place beyond p to one, and looks at later places only.
LEMMA MoreLater ==
  ASSUME NEW t \in Seq(Nat), NEW p \in Places(t), NEW end \in Beyond(t, p), NEW kind \in Kinds,
         NEW close \in {RBrace, RBracket}, NEW f \in AllEnds(t), NEW g, SameAfter(f, g, t, p)
  PROVE  /\ More(t, end, kind, close, f) = More(t, end, kind, close, g)
         /\ More(t, end, kind, close, f) \in Beyond(t, p)
         /\ end = 0 => More(t, end, kind, close, f) = 0
<1> DEFINE next == Skip(t, end)
           q == Skip(t, next + 1)
           x == More(t, end, kind, close, f)
           y == More(t, end, kind, close, g)
<1>1. /\ p \in Nat \ {0} /\ Len(t) \in Nat /\ end \in Nat /\ (end # 0 => end > p)
      /\ \A r \in Int : r \in (p + 1)..(Len(t) + 1) => r \in Places(t)
  BY LenProperties DEF Beyond, Places
<1>2. Comma # close
  BY DEF Comma, RBrace, RBracket
<1>3. CASE At(t, next) = Comma
  <2>1. /\ end # 0 /\ next \in end..Len(t) /\ q \in (next + 1)..(Len(t) + 1)
        /\ x = f[q][kind]
    BY <1>2, <1>3, MoreCases
  <2>2. y = g[q][kind]
    BY <1>2, <1>3, MoreCases
  <2> HIDE DEF next, q, x, y
  <2>3. q \in (p + 1)..(Len(t) + 1) /\ q \in Places(t)
    BY <1>1, <2>1
  <2>4. f[q] = g[q] /\ f[q][kind] \in Beyond(t, q)
    BY <2>3 DEF SameAfter, AllEnds
  <2>5. f[q][kind] \in Beyond(t, p)
    <3>1. \A e \in Beyond(t, q) : e \in Beyond(t, p)
      BY <1>1, <2>3 DEF Beyond
    <3> QED BY <2>4, <3>1
  <2> QED BY <2>1, <2>2, <2>4, <2>5 DEF x, y
<1>4. CASE At(t, next) = close
  <2>1. end # 0 /\ next \in end..Len(t) /\ x = next + 1
    BY <1>2, <1>4, MoreCases
  <2>2. y = next + 1
    BY <1>2, <1>4, MoreCases
  <2> HIDE DEF next, x, y
  <2>3. next + 1 \in Beyond(t, p)
    BY <1>1, <2>1 DEF Beyond
  <2> QED BY <2>1, <2>2, <2>3 DEF x, y
<1>5. CASE At(t, next) \notin {Comma, close}
  <2>1. x = 0 /\ y = 0
    <3>1. x = 0
      BY <1>5, MoreCases
    <3>2. y = 0
      BY <1>5, MoreCases
    <3> QED BY <3>1, <3>2
  <2> HIDE DEF next, x, y
  <2>2. 0 \in Beyond(t, p)
    BY DEF Beyond
  <2> QED BY <2>1, <2>2 DEF x, y
<1> QED
  BY <1>3, <1>4, <1>5

\* The same of what an open brace or bracket begins.
LEMMA OpenedLater ==
  ASSUME NEW t \in Seq(Nat), NEW p \in Nat \ {0}, At(t, p) # End, NEW kind \in Kinds,
         NEW close \in {RBrace, RBracket}, NEW f \in AllEnds(t), NEW g, SameAfter(f, g, t, p)
  PROVE  /\ Opened(t, p, kind, close, f) = Opened(t, p, kind, close, g)
         /\ Opened(t, p, kind, close, f) \in Beyond(t, p)
<1> DEFINE first == Skip(t, p + 1)
<1>1. first \in Places(t) /\ first \in (p + 1)..(Len(t) + 1) /\ first \in Nat \ {0} /\ Len(t) \in Nat
  BY NextPlace, LenProperties DEF Places
<1> HIDE DEF first
<1>2. f[first] = g[first] /\ f[first][kind] \in Beyond(t, first)
  BY <1>1 DEF SameAfter, AllEnds
<1>3. f[first][kind] \in Beyond(t, p)
  <2>1. \A e \in Beyond(t, first) : e \in Beyond(t, p)
    BY <1>1 DEF Beyond
  <2> QED BY <1>2, <2>1
<1>4. At(t, first) = close => first + 1 \in Beyond(t, p)
  <2>1. close # End
    BY DEF RBrace, RBracket, End
  <2>2. At(t, first) = close => first <= Len(t)
    BY <1>1, <2>1, NextPlace
  <2> QED BY <1>1, <2>2 DEF Beyond
<1> QED
  BY <1>2, <1>3, <1>4 DEF Opened, first

\* The same of a value.
LEMMA ValueLater ==
  ASSUME NEW t \in Seq(Nat), NEW p \in Places(t), NEW f \in AllEnds(t), NEW g, SameAfter(f, g, t, p)
  PROVE  ValueAt(t, p, f) = ValueAt(t, p, g) /\ ValueAt(t, p, f) \in Beyond(t, p)
<1> DEFINE start == Skip(t, p)
           c == At(t, start)
           end == Scalar(t, start)
           last == IF end = start THEN 0 ELSE end
<1>1. p \in Nat \ {0} /\ Len(t) \in Nat /\ p <= Len(t) + 1
  BY LenProperties DEF Places
<1>2. start \in Places(t) /\ p <= start /\ start \in Nat \ {0}
  BY <1>1, SkipTo
<1> HIDE DEF start
<1>3. SameAfter(f, g, t, start)
  BY <1>1, <1>2 DEF SameAfter
<1>4. \A e \in Beyond(t, start) : e \in Beyond(t, p)
  BY <1>1, <1>2 DEF Beyond
<1>5. {"members", "elements"} \subseteq Kinds /\ {RBrace, RBracket} = {RBrace, RBracket}
  BY DEF Kinds
<1>6. \A h : ValueAt(t, p, h) =
        CASE c = LBrace -> Opened(t, start, "members", RBrace, h)
          [] c = LBracket -> Opened(t, start, "elements", RBracket, h)
          [] c = Quote -> ParseJsonString(t, start).pos
          [] OTHER -> last
  BY DEF ValueAt, ValueFrom, start
<1>7. LBrace # LBracket /\ LBrace # Quote /\ LBracket # Quote /\ LBrace # End /\ LBracket # End
  BY DEF LBrace, LBracket, Quote, End
<1>8. last \in Beyond(t, start)
  <2>1. end \in Nat /\ First(Separators(t), start, end)
    BY <1>2, ScalarFirst
  <2> HIDE DEF end
  <2>2. start <= end
    BY <2>1 DEF First
  <2>3. end <= Len(t) + 1
    <3>1. ASSUME end > Len(t) + 1 PROVE FALSE
      <4>1. Len(t) + 1 \in start..(end - 1)
        BY <1>1, <1>2, <2>1, <3>1 DEF Places
      <4>2. Len(t) + 1 \in Separators(t)
        BY <1>1, StopsAtEnd
      <4> QED BY <2>1, <4>1, <4>2 DEF First
    <3> QED BY <1>1, <2>1, <3>1
  <2> QED BY <1>1, <1>2, <2>1, <2>2, <2>3 DEF Beyond
<1> HIDE DEF c, last
<1>9. CASE c = LBrace
  <2>1. \A h : ValueAt(t, p, h) = Opened(t, start, "members", RBrace, h)
    BY <1>6, <1>7, <1>9
  <2>2. /\ Opened(t, start, "members", RBrace, f) = Opened(t, start, "members", RBrace, g)
        /\ Opened(t, start, "members", RBrace, f) \in Beyond(t, start)
    BY <1>2, <1>3, <1>5, <1>7, <1>9, OpenedLater DEF c
  <2> QED BY <1>4, <2>1, <2>2
<1>10. CASE c = LBracket
  <2>1. \A h : ValueAt(t, p, h) = Opened(t, start, "elements", RBracket, h)
    BY <1>6, <1>7, <1>10
  <2>2. /\ Opened(t, start, "elements", RBracket, f) = Opened(t, start, "elements", RBracket, g)
        /\ Opened(t, start, "elements", RBracket, f) \in Beyond(t, start)
    BY <1>2, <1>3, <1>5, <1>7, <1>10, OpenedLater DEF c
  <2> QED BY <1>4, <2>1, <2>2
<1>11. CASE c = Quote
  <2>1. \A h : ValueAt(t, p, h) = ParseJsonString(t, start).pos
    BY <1>6, <1>7, <1>11
  <2>2. ParseJsonString(t, start).pos \in Beyond(t, start)
    BY <1>2, StringEnd
  <2> QED BY <1>4, <2>1, <2>2
<1>12. CASE c \notin {LBrace, LBracket, Quote}
  <2>1. \A h : ValueAt(t, p, h) = last
    BY <1>6, <1>12
  <2> QED BY <1>4, <1>8, <2>1
<1> QED
  BY <1>9, <1>10, <1>11, <1>12

\* The same of a member, whose value starts at a later place.
LEMMA MemberLater ==
  ASSUME NEW t \in Seq(Nat), NEW p \in Places(t), NEW f \in AllEnds(t), NEW g, SameAfter(f, g, t, p)
  PROVE  /\ MemberAt(t, p, f) = MemberAt(t, p, g)
         /\ LET m == MemberAt(t, p, f) IN
              /\ m.name \in Seq(Nat) /\ m.start \in Nat \ {0} /\ m.end \in Beyond(t, p)
              /\ m.end # 0 =>
                   LET name == ParseJsonString(t, p) colon == Skip(t, name.pos) IN
                   /\ name.pos # 0 /\ At(t, colon) = Colon /\ colon \in name.pos..Len(t)
                   /\ m.start = Skip(t, colon + 1) /\ m.start \in Places(t) /\ m.start > p
                   /\ m.name = name.out /\ m.end = f[m.start]["value"]
                   /\ m.end \in (m.start + 1)..(Len(t) + 1)
<1> DEFINE name == ParseJsonString(t, p)
           colon == Skip(t, name.pos)
           start == Skip(t, colon + 1)
           m == MemberAt(t, p, f)
<1>1. p \in Nat \ {0} /\ Len(t) \in Nat
  BY LenProperties DEF Places
<1>2. name \in Readings /\ name.pos \in Beyond(t, p)
  BY <1>1, StringEnd
<1>3. name.pos \in Nat /\ name.out \in Seq(Nat) /\ (name.pos # 0 => name.pos > p)
  BY <1>1, <1>2 DEF Readings, Beyond
<1>4. \A h : MemberAt(t, p, h) =
        [name |-> name.out, start |-> start, end |-> IF At(t, colon) = Colon THEN h[start]["value"] ELSE 0]
  BY DEF MemberAt, MemberNamed
<1> HIDE DEF name
<1>5. colon \in Nat /\ start \in Nat \ {0}
  <2>1. colon \in Nat
    BY SMTT(20), <1>3, SkipTo, SkipZero
  <2> HIDE DEF colon
  <2>2. colon + 1 \in Nat \ {0}
    BY <2>1
  <2> QED BY <2>1, <2>2, SkipTo
<1>6. CASE At(t, colon) = Colon
  <2>1. Colon # End /\ "value" \in Kinds
    BY DEF Colon, End, Kinds
  <2>2. name.pos # 0
    BY <1>6, <2>1, SkipZero
  <2>3. colon \in Nat \ {0} /\ name.pos <= colon
    BY <1>3, <2>2, SkipTo
  <2> HIDE DEF colon
  <2>4. start \in Places(t) /\ start \in (colon + 1)..(Len(t) + 1) /\ colon <= Len(t)
    BY <1>6, <2>1, <2>3, NextPlace
  <2> HIDE DEF start
  <2>5. start \in (p + 1)..(Len(t) + 1) /\ start > p /\ colon \in name.pos..Len(t)
    BY <1>1, <1>3, <2>2, <2>3, <2>4
  <2>6. f[start] = g[start] /\ f[start]["value"] \in Beyond(t, start)
    BY <2>1, <2>4, <2>5 DEF SameAfter, AllEnds
  <2>7. f[start]["value"] \in Beyond(t, p) /\ (f[start]["value"] # 0 => f[start]["value"] \in (start + 1)..(Len(t) + 1))
    <3>1. \A e \in Beyond(t, start) : e \in Beyond(t, p) /\ (e # 0 => e \in (start + 1)..(Len(t) + 1))
      BY <1>1, <2>5 DEF Beyond
    <3> QED BY <2>6, <3>1
  <2>8. \A h : MemberAt(t, p, h) = [name |-> name.out, start |-> start, end |-> h[start]["value"]]
    BY <1>4, <1>6
  <2>9. MemberAt(t, p, f) = MemberAt(t, p, g)
    BY <2>6, <2>8
  <2>10. m.name = name.out /\ m.start = start /\ m.end = f[start]["value"]
    BY <2>8
  <2> HIDE DEF m
  <2> QED BY <1>3, <1>5, <1>6, <2>2, <2>4, <2>5, <2>7, <2>9, <2>10 DEF m, start, colon, name
<1>7. CASE At(t, colon) # Colon
  <2>1. \A h : MemberAt(t, p, h) = [name |-> name.out, start |-> start, end |-> 0]
    BY <1>4, <1>7
  <2>2. 0 \in Beyond(t, p)
    BY DEF Beyond
  <2> HIDE DEF start, colon
  <2> QED BY <1>3, <1>5, <2>1, <2>2
<1> QED
  BY <1>6, <1>7

\* The same of all three kinds.
LEMMA EndOfLater ==
  ASSUME NEW t \in Seq(Nat), NEW p \in Places(t), NEW kind \in Kinds, NEW f \in AllEnds(t), NEW g,
         SameAfter(f, g, t, p)
  PROVE  EndOf(t, p, kind, f) = EndOf(t, p, kind, g) /\ EndOf(t, p, kind, f) \in Beyond(t, p)
<1>1. kind = "value" \/ kind = "members" \/ kind = "elements"
  BY DEF Kinds
<1>2. /\ ValueAt(t, p, f) = ValueAt(t, p, g) /\ ValueAt(t, p, f) \in Beyond(t, p)
      /\ MemberAt(t, p, f) = MemberAt(t, p, g) /\ MemberAt(t, p, f).end \in Beyond(t, p)
  <2>1. ValueAt(t, p, f) = ValueAt(t, p, g) /\ ValueAt(t, p, f) \in Beyond(t, p)
    BY ValueLater
  <2>2. MemberAt(t, p, f) = MemberAt(t, p, g) /\ MemberAt(t, p, f).end \in Beyond(t, p)
    BY MemberLater
  <2> QED BY <2>1, <2>2
<1>3. \A end \in Beyond(t, p) : \A close \in {RBrace, RBracket} :
        /\ More(t, end, kind, close, f) = More(t, end, kind, close, g)
        /\ More(t, end, kind, close, f) \in Beyond(t, p)
  BY MoreLater
<1>4. CASE kind = "value"
  <2>1. \A h : EndOf(t, p, kind, h) = ValueAt(t, p, h)
    BY <1>4 DEF EndOf
  <2> QED BY <1>2, <2>1
<1>5. CASE kind = "members"
  <2>1. \A h : EndOf(t, p, kind, h) = More(t, MemberAt(t, p, h).end, kind, RBrace, h)
    BY <1>5 DEF EndOf
  <2>2. /\ More(t, MemberAt(t, p, f).end, kind, RBrace, f) = More(t, MemberAt(t, p, f).end, kind, RBrace, g)
        /\ More(t, MemberAt(t, p, f).end, kind, RBrace, f) \in Beyond(t, p)
    BY <1>2, <1>3
  <2> QED BY <1>2, <2>1, <2>2
<1>6. CASE kind = "elements"
  <2>1. \A h : EndOf(t, p, kind, h) = More(t, ValueAt(t, p, h), kind, RBracket, h)
    BY <1>6 DEF EndOf
  <2>2. /\ More(t, ValueAt(t, p, f), kind, RBracket, f) = More(t, ValueAt(t, p, f), kind, RBracket, g)
        /\ More(t, ValueAt(t, p, f), kind, RBracket, f) \in Beyond(t, p)
    BY <1>2, <1>3
  <2> QED BY <1>2, <2>1, <2>2
<1> QED
  BY <1>1, <1>4, <1>5, <1>6

\* The place of the text where nothing is left has rank 0.
PlaceRank(t) == [p \in Places(t) |-> Len(t) + 1 - p]

\* Functions that agree on lower ranks agree on later places.
LEMMA LowerIsLater ==
  ASSUME NEW t \in Seq(Nat), NEW p \in Places(t), NEW f, NEW g, Agree(f, g, Places(t), PlaceRank(t), p)
  PROVE  SameAfter(f, g, t, p)
<1>1. Len(t) \in Nat /\ p \in Nat \ {0}
  BY LenProperties DEF Places
<1>2. \A q \in (p + 1)..(Len(t) + 1) : q \in Places(t)
  BY <1>1 DEF Places
<1>3. \A q \in Places(t) : PlaceRank(t)[q] = Len(t) + 1 - q
  BY DEF PlaceRank
<1>4. \A q \in (p + 1)..(Len(t) + 1) : Len(t) + 1 - q < Len(t) + 1 - p
  BY <1>1
<1>5. \A q \in (p + 1)..(Len(t) + 1) : f[q] = g[q]
  BY <1>2, <1>3, <1>4 DEF Agree
<1> QED
  BY <1>5 DEF SameAfter

\* Every place has a rank: the number of symbols from it on.
LEMMA PlaceRankTyped ==
  ASSUME NEW t \in Seq(Nat)
  PROVE  Len(t) \in Nat /\ PlaceRank(t) \in [Places(t) -> 0..Len(t)]
<1>1. Len(t) \in Nat
  BY LenProperties
<1> QED
  BY <1>1 DEF PlaceRank, Places

\* Ends satisfies its defining equation, and what it gives is 0 or a later place
\* within the text: SkipJsonValue, SkipJsonObject and SkipJsonArray end.
THEOREM EndsAdvance ==
  ASSUME NEW t \in Seq(Nat)
  PROVE  /\ Ends(t) \in AllEnds(t)
         /\ \A p \in Places(t) : \A kind \in Kinds : Ends(t)[p][kind] = EndOf(t, p, kind, Ends(t))
<1> DEFINE P == Places(t)
           F == AllEnds(t)
           At1(p, f) == [kind \in Kinds |-> EndOf(t, p, kind, f)]
           step == [p \in P |-> [f \in F |-> At1(p, f)]]
           Def(h) == h = [p \in P |-> At1(p, h)]
           none == [p \in P |-> [kind \in Kinds |-> 0]]
<1>1. none \in F
  <2>1. none \in [P -> [Kinds -> Nat]]
    OBVIOUS
  <2>2. \A p \in P : 0 \in Beyond(t, p)
    BY DEF Beyond
  <2>3. \A p \in P : \A kind \in Kinds : none[p][kind] = 0
    OBVIOUS
  <2> HIDE DEF none
  <2> QED BY <2>1, <2>2, <2>3 DEF AllEnds
<1>2. ASSUME NEW f \in F PROVE \E g \in F : \A p \in P : g[p] = step[p][f]
  <2>1. \A p \in P : \A kind \in Kinds : EndOf(t, p, kind, f) \in Beyond(t, p) /\ EndOf(t, p, kind, f) \in Nat
    <3>1. ASSUME NEW p \in P, NEW kind \in Kinds
          PROVE  EndOf(t, p, kind, f) \in Beyond(t, p) /\ EndOf(t, p, kind, f) \in Nat
      <4>1. SameAfter(f, f, t, p)
        BY DEF SameAfter
      <4>2. EndOf(t, p, kind, f) \in Beyond(t, p)
        BY <4>1, EndOfLater
      <4>3. \A e \in Beyond(t, p) : e \in Nat
        BY DEF Beyond, Places
      <4> QED BY <4>2, <4>3
    <3> QED BY <3>1
  <2> DEFINE g == [p \in P |-> step[p][f]]
  <2>2. \A p \in P : \A kind \in Kinds : g[p][kind] = EndOf(t, p, kind, f)
    OBVIOUS
  <2>3. g = [p \in P |-> At1(p, f)]
    OBVIOUS
  <2>4. g \in [P -> [Kinds -> Nat]]
    <3>1. \A p \in P : At1(p, f) \in [Kinds -> Nat]
      BY <2>1
    <3> HIDE DEF At1, g
    <3> QED BY <2>3, <3>1
  <2>5. \A p \in P : g[p] = step[p][f]
    OBVIOUS
  <2> HIDE DEF g
  <2>6. g \in F
    BY <2>1, <2>2, <2>4 DEF AllEnds
  <2> HIDE DEF F, step
  <2> QED BY <2>5, <2>6
<1>3. ASSUME NEW p \in P, NEW f \in F, NEW g, SameAfter(f, g, t, p) PROVE At1(p, f) = At1(p, g)
  <2>1. \A kind \in Kinds : EndOf(t, p, kind, f) = EndOf(t, p, kind, g)
    BY <1>3, EndOfLater
  <2> QED BY <2>1
<1>4. \A p \in P : \A f \in F : step[p][f] = At1(p, f)
  OBVIOUS
<1> HIDE DEF step, At1, none
<1>5. PICK f \in F : \A p \in P : f[p] = step[p][f]
  <2>1. \A p \in P : \A f, g \in F : Agree(f, g, P, PlaceRank(t), p) => step[p][f] = step[p][g]
    <3>1. ASSUME NEW p \in P, NEW f \in F, NEW g \in F, Agree(f, g, P, PlaceRank(t), p)
          PROVE  step[p][f] = step[p][g]
      <4>1. SameAfter(f, g, t, p)
        BY <3>1, LowerIsLater
      <4> QED BY <1>3, <1>4, <4>1
    <3> QED BY <3>1
  <2> DEFINE m == Len(t)
             rank == PlaceRank(t)
  <2>2. m \in Nat /\ rank \in [P -> 0..m]
    BY PlaceRankTyped
  <2>3. \A i \in P : \A f, g \in F : Agree(f, g, P, rank, i) => step[i][f] = step[i][g]
    BY <2>1
  <2>4. \A f \in F : \E g \in F : \A p \in P : g[p] = step[p][f]
    BY <1>2
  <2> HIDE DEF P, F, m, rank, Def
  <2>5. WellRanked(step, F, P, rank)
    BY <2>3, <2>4 DEF WellRanked
  <2>6. \E f \in F : Solves(f, step, P)
    BY <1>1, <2>2, <2>5, RankedRecursion
  <2> QED BY <2>6 DEF Solves
<1>6. Def(f)
  <2>1. f = [p \in P |-> f[p]]
    BY DEF AllEnds
  <2>2. \A p \in P : f[p] = At1(p, f)
    BY <1>4, <1>5
  <2> QED BY <2>1, <2>2
<1> DEFINE read == CHOOSE h : Def(h)
<1>7. Ends(t) = read
  BY DEF Ends, Places, At1
<1>8. Def(read)
  <2> HIDE DEF Def
  <2> QED BY <1>6
<1> HIDE DEF read
<1>9. \A p \in P : f[p] = read[p]
  <2>1. ASSUME NEW p \in P, Agree(f, read, P, PlaceRank(t), p) PROVE f[p] = read[p]
    <3>1. At1(p, f) = At1(p, read)
      BY <1>3, <2>1, LowerIsLater
    <3>2. read[p] = At1(p, read)
      BY <1>8
    <3> QED BY <1>4, <1>5, <3>1, <3>2
  <2> DEFINE m == Len(t)
             rank == PlaceRank(t)
  <2>2. m \in Nat /\ rank \in [P -> 0..m]
    BY PlaceRankTyped
  <2>3. \A i \in P : Agree(f, read, P, rank, i) => f[i] = read[i]
    BY <2>1
  <2> HIDE DEF P, F, m, rank, Def
  <2> QED BY <2>2, <2>3, RankedUnique
<1>10. f = read
  <2>1. f = [p \in P |-> f[p]]
    BY DEF AllEnds
  <2>2. read = [p \in P |-> read[p]]
    BY <1>8
  <2> QED BY <1>9, <2>1, <2>2
<1>11. \A p \in P : \A kind \in Kinds : read[p][kind] = EndOf(t, p, kind, read)
  <2>1. \A p \in P : read[p] = At1(p, read)
    BY <1>8
  <2> QED BY <2>1 DEF At1
<1> QED
  BY <1>7, <1>10, <1>11

-----------------------------------------------------------------------------
(* The same text at other places *)

\* Induction from the end of a text to its start.
LEMMA PlacesInduction ==
  ASSUME NEW t \in Seq(Nat), NEW T,
         \A p \in Places(t) : (\A q \in (p + 1)..(Len(t) + 1) : q \in T) => p \in T
  PROVE  \A p \in Places(t) : p \in T
<1> DEFINE L == Len(t)
           U == {n \in 0..(L + 1) : \A p \in Places(t) : p > L + 1 - n => p \in T}
<1>1. L \in Nat /\ \A p \in Int : p \in Places(t) <=> p \in 1..(L + 1)
  BY LenProperties DEF Places
<1>2. 0 \in U
  BY <1>1 DEF Places
<1>3. ASSUME NEW n \in 0..L, n \in U PROVE n + 1 \in U
  <2>1. ASSUME NEW p \in Places(t), p > L + 1 - (n + 1) PROVE p \in T
    <3>1. p \in Nat /\ \A q \in (p + 1)..(L + 1) : q \in Places(t) /\ q > L + 1 - n
      BY <1>1, <2>1 DEF Places
    <3>2. \A q \in (p + 1)..(L + 1) : q \in T
      BY <1>3, <3>1
    <3> QED BY <3>2
  <2> QED BY <1>1, <2>1
<1>4. \A n \in 0..(L + 1) : n \in U
  <2>1. L + 1 \in Nat /\ (L + 1) - 1 = L
    BY <1>1
  <2> HIDE DEF U, L
  <2> QED BY <1>2, <1>3, <2>1, BoundedInduction
<1>5. L + 1 \in U
  <2>1. L + 1 \in 0..(L + 1)
    BY <1>1
  <2> HIDE DEF U, L
  <2> QED BY <1>4, <2>1
<1>6. \A p \in Places(t) : p > L + 1 - (L + 1)
  BY <1>1 DEF Places
<1> QED
  BY <1>5, <1>6

\* The symbols of t from p to before q are those of u, d places further.
Copied(t, p, q, u, d) == \A i \in p..(q - 1) : At(u, i + d) = At(t, i)

\* A part of what is copied is copied.
LEMMA CopiedPart ==
  ASSUME NEW t, NEW u, NEW d, NEW p \in Int, NEW q \in Int, Copied(t, p, q, u, d),
         NEW a \in Int, NEW b \in Int, p <= a, b <= q
  PROVE  Copied(t, a, b, u, d)
<1>1. \A i \in a..(b - 1) : i \in p..(q - 1)
  OBVIOUS
<1> QED
  BY <1>1 DEF Copied

\* Where a symbol is copied to is a place of the other text.
LEMMA CopiedPlace ==
  ASSUME NEW t \in Seq(Nat), NEW u \in Seq(Nat), NEW d \in Int, NEW p \in Nat \ {0}, NEW q \in Int,
         p < q, q <= Len(t) + 1, Copied(t, p, q, u, d)
  PROVE  /\ p + d \in 1..Len(u) /\ p + d \in Nat \ {0} /\ p + d \in Places(u)
         /\ At(u, p + d) = At(t, p) /\ At(u, p + d) # End
<1>1. p \in p..(q - 1) /\ p \in 1..Len(t) /\ Len(u) \in Nat
  BY LenProperties
<1>2. At(u, p + d) = At(t, p) /\ At(t, p) \in Nat
  BY <1>1, SymbolAt DEF Copied
<1>3. At(u, p + d) # End
  BY <1>2 DEF End
<1>4. p + d \in 1..Len(u)
  BY <1>3, SymbolAt
<1> QED
  BY <1>1, <1>2, <1>3, <1>4 DEF Places

\* Whitespace is skipped alike.
LEMMA SkipCopied ==
  ASSUME NEW t \in Seq(Nat), NEW u \in Seq(Nat), NEW d \in Int, NEW p \in Nat \ {0}, p + d \in Nat \ {0},
         Copied(t, p, Skip(t, p) + 1, u, d)
  PROVE  Skip(u, p + d) = Skip(t, p) + d /\ At(u, Skip(t, p) + d) = At(t, Skip(t, p))
<1> DEFINE q == Skip(t, p)
<1>1. /\ q \in Nat \ {0} /\ p <= q /\ At(t, q) \notin Whitespace
      /\ \A r \in p..(q - 1) : At(t, r) \in Whitespace
  BY SkipTo
<1> HIDE DEF q
<1>2. \A r \in p..q : At(u, r + d) = At(t, r)
  <2>1. Copied(t, p, q + 1, u, d) /\ (q + 1) - 1 = q
    BY <1>1 DEF q
  <2> QED BY <2>1 DEF Copied
<1>3. At(u, q + d) = At(t, q)
  BY <1>1, <1>2
<1>4. \A r \in (p + d)..(q + d - 1) : At(u, r) \in Whitespace
  <2>1. ASSUME NEW r \in (p + d)..(q + d - 1) PROVE At(u, r) \in Whitespace
    <3>1. r - d \in p..q /\ r - d \in p..(q - 1) /\ (r - d) + d = r
      BY <1>1
    <3>2. At(u, (r - d) + d) = At(t, r - d)
      BY <1>2, <3>1
    <3>3. At(t, r - d) \in Whitespace
      BY <1>1, <3>1
    <3> QED BY <3>1, <3>2, <3>3
  <2> QED BY <2>1
<1>5. q + d \in Nat /\ p + d <= q + d
  BY <1>1
<1>6. Skip(u, p + d) = q + d
  BY <1>1, <1>3, <1>4, <1>5, SkipIs
<1> QED
  BY <1>3, <1>6 DEF q

\* A scalar ends alike, if a separator follows.
LEMMA ScalarCopied ==
  ASSUME NEW t \in Seq(Nat), NEW u \in Seq(Nat), NEW d \in Int, NEW p \in Nat \ {0}, p + d \in Nat \ {0},
         Copied(t, p, Scalar(t, p), u, d), At(u, Scalar(t, p) + d) \in ScalarStops
  PROVE  Scalar(u, p + d) = Scalar(t, p) + d
<1> DEFINE q == Scalar(t, p)
<1>1. q \in Nat /\ First(Separators(t), p, q)
  BY ScalarFirst
<1> HIDE DEF q
<1>2. p <= q /\ \A r \in p..(q - 1) : At(t, r) \notin ScalarStops
  <2>1. \A r \in p..(q - 1) : r \in Nat
    BY <1>1
  <2> QED BY <1>1, <2>1 DEF First, Separators
<1>3. \A r \in (p + d)..(q + d - 1) : At(u, r) \notin ScalarStops
  <2>1. ASSUME NEW r \in (p + d)..(q + d - 1) PROVE At(u, r) \notin ScalarStops
    <3>1. r - d \in p..(q - 1) /\ (r - d) + d = r
      BY <1>1
    <3>2. At(u, (r - d) + d) = At(t, r - d)
      BY <3>1 DEF Copied, q
    <3>3. At(t, r - d) \notin ScalarStops
      BY <1>2, <3>1
    <3> QED BY <3>1, <3>2, <3>3
  <2> QED BY <2>1
<1>4. q + d \in Nat /\ p + d <= q + d
  BY <1>1, <1>2
<1>5. First(Separators(u), p + d, q + d)
  <2>1. q + d \in Separators(u)
    BY <1>4 DEF Separators, q
  <2>2. ASSUME NEW r \in (p + d)..((q + d) - 1) PROVE r \notin Separators(u)
    <3>1. r \in (p + d)..(q + d - 1)
      BY <1>1
    <3>2. At(u, r) \notin ScalarStops
      BY <1>3, <3>1
    <3> QED BY <3>2 DEF Separators
  <2> HIDE DEF Copied
  <2> DEFINE a == p + d
             b == q + d
  <2>3. a <= b /\ b \in Separators(u) /\ \A r \in a..(b - 1) : r \notin Separators(u)
    BY <1>4, <2>1, <2>2
  <2> HIDE DEF a, b
  <2>4. First(Separators(u), a, b)
    BY <2>3 DEF First
  <2> QED BY <2>4 DEF a, b
<1>6. Scalar(u, p + d) \in Nat /\ First(Separators(u), p + d, Scalar(u, p + d))
  BY ScalarFirst
<1> QED
  BY <1>4, <1>5, <1>6, FirstUnique DEF q

\* Quotes add one symbol at each end.
LEMMA QuotedTyped ==
  ASSUME NEW a \in Seq(Nat)
  PROVE  Quoted(a) \in Seq(Nat) /\ Len(Quoted(a)) = Len(a) + 2
<1> DEFINE c == <<Quote>>
           b == c \o a
<1>1. c \in Seq(Nat) /\ Len(c) = 1
  BY DEF Quote
<1>2. Quoted(a) = b \o c
  BY DEF Quoted
<1> HIDE DEF c
<1>3. b \in Seq(Nat) /\ Len(b) = 1 + Len(a) /\ Len(a) \in Nat
  <2>1. Len(a) \in Nat
    BY LenProperties
  <2>2. b \in Seq(Nat) /\ Len(b) = Len(c) + Len(a)
    BY <1>1, ConcatProperties
  <2> QED BY <1>1, <2>1, <2>2
<1> HIDE DEF b
<1>4. b \o c \in Seq(Nat) /\ Len(b \o c) = Len(b) + Len(c)
  BY <1>1, <1>3, ConcatProperties
<1>5. Len(b \o c) = Len(a) + 2
  BY <1>1, <1>3, <1>4
<1> QED
  BY <1>2, <1>4, <1>5

\* A string is read alike.
LEMMA StringCopied ==
  ASSUME NEW t \in Seq(Nat), NEW u \in Seq(Nat), NEW d \in Int, NEW p \in Nat \ {0},
         ParseJsonString(t, p).pos # 0, Copied(t, p, ParseJsonString(t, p).pos, u, d)
  PROVE  LET s == ParseJsonString(t, p) IN
           ParseJsonString(u, p + d) = [pos |-> s.pos + d, out |-> s.out]
<1> DEFINE s == ParseJsonString(t, p)
<1>1. PICK us \in Seq(Units) : Stands(Quoted(FlattenSeq(us)), t, p)
  BY OnlyStringsAreRead
<1> DEFINE a == FlattenSeq(us)
           v == Quoted(a)
           out == FlattenSeq(Texts(us))
<1>2. s = [pos |-> p + Len(a) + 2, out |-> out]
  BY <1>1, StringsAreRead
<1>3. a \in Seq(Nat) /\ Len(a) \in Nat
  BY UnitsTyped, FlattenType, LenProperties
<1>4. v \in Seq(Nat) /\ Len(v) = Len(a) + 2
  BY <1>3, QuotedTyped
<1>5. Stands(v, t, p)
  BY <1>1
<1> HIDE DEF s, a, v, out
<1>6. s.pos = p + Len(v) /\ Copied(t, p, p + Len(v), u, d) /\ Len(v) \in Nat /\ Len(v) > 0
  <2>1. s.pos = p + Len(a) + 2
    BY <1>2
  <2>2. Copied(t, p, s.pos, u, d)
    BY DEF s
  <2>3. p + Len(a) + 2 = p + Len(v)
    BY <1>3, <1>4
  <2>4. Len(v) > 0 /\ Len(v) \in Nat
    BY <1>3, <1>4
  <2> QED BY <2>1, <2>2, <2>3, <2>4
<1>7. Len(t) \in Nat /\ Len(u) \in Nat
  BY LenProperties
<1>8. ASSUME NEW i \in 1..Len(v) PROVE p + d - 1 + i \in 1..Len(u) /\ u[p + d - 1 + i] = v[i]
  <2> DEFINE j == p - 1 + i
  <2>1. j \in p..(p + Len(v) - 1) /\ j + d = p + d - 1 + i /\ j \in Nat \ {0} /\ j + d \in Int
    BY <1>6
  <2>2. j <= Len(t) /\ t[j] = v[i]
    BY <1>5 DEF Stands
  <2> HIDE DEF j
  <2>3. At(u, j + d) = At(t, j)
    BY <1>6, <2>1 DEF Copied
  <2>4. At(t, j) = t[j] /\ t[j] \in Nat
    <3>1. j \in 1..Len(t)
      BY <1>7, <2>1, <2>2
    <3> QED BY <3>1, SymbolAt
  <2>5. At(u, j + d) # End
    BY <2>3, <2>4 DEF End
  <2>6. j + d \in 1..Len(u) /\ At(u, j + d) = u[j + d]
    BY <2>1, <2>5, SymbolAt
  <2> QED BY <2>1, <2>2, <2>3, <2>4, <2>6
<1>9. p + d \in Nat \ {0}
  <2>1. 1 \in 1..Len(v)
    BY <1>6
  <2>2. p + d - 1 + 1 \in 1..Len(u)
    BY <1>8, <2>1
  <2> QED BY <1>7, <2>2
<1>10. Stands(v, u, p + d)
  BY <1>7, <1>8 DEF Stands
<1>11. ParseJsonString(u, p + d) = [pos |-> (p + d) + Len(a) + 2, out |-> out]
  BY <1>9, <1>10, StringsAreRead DEF v, a, out
<1>12. (p + d) + Len(a) + 2 = (p + Len(a) + 2) + d
  BY <1>3
<1>13. s.pos = p + Len(a) + 2 /\ s.out = out
  BY <1>2
<1> QED
  BY <1>11, <1>12, <1>13 DEF s

-----------------------------------------------------------------------------
(* A value is read alike wherever it is copied to *)

\* What ends in t ends in u, where it is copied to, if a separator follows a value.
Transfers(t, u, d, p) ==
  \A kind \in Kinds :
    LET q == Ends(t)[p][kind] IN
    q # 0 /\ Copied(t, p, q, u, d) /\ (kind = "value" => At(u, q + d) \in ScalarStops)
      => Ends(u)[p + d][kind] = q + d

\* Read from a place, what Ends gives is a later place, or 0.
LEMMA EndsTyped ==
  ASSUME NEW t \in Seq(Nat), NEW p \in Places(t), NEW kind \in Kinds
  PROVE  /\ Ends(t)[p][kind] \in Nat /\ Ends(t)[p][kind] \in Beyond(t, p)
         /\ Ends(t)[p][kind] # 0 => Ends(t)[p][kind] > p /\ Ends(t)[p][kind] <= Len(t) + 1
<1>1. Ends(t)[p][kind] \in Beyond(t, p)
  BY EndsAdvance DEF AllEnds
<1>2. \A q \in Beyond(t, p) : q \in Nat /\ (q # 0 => q > p /\ q <= Len(t) + 1)
  BY LenProperties DEF Beyond, Places
<1> QED
  BY <1>1, <1>2

\* The cases of More that go on.
Follows(t, end, kind, close, read) ==
  LET next == Skip(t, end) more == More(t, end, kind, close, read) IN
  \/ /\ At(t, next) = Comma /\ next \in end..Len(t)
     /\ Skip(t, next + 1) \in (next + 1)..(Len(t) + 1)
     /\ more = read[Skip(t, next + 1)][kind]
  \/ At(t, next) = close /\ next \in end..Len(t) /\ more = next + 1

\* What stands after a member or an element that is followed by more, or by the
\* end of its object or array.
LEMMA MoreFollows ==
  ASSUME NEW t \in Seq(Nat), NEW p \in Places(t), NEW end \in Beyond(t, p), NEW kind,
         NEW close \in {RBrace, RBracket}, NEW read, More(t, end, kind, close, read) # 0
  PROVE  Follows(t, end, kind, close, read)
BY SMTT(20), MoreCases DEF Follows

\* What follows a member or an element is read alike wherever the text is copied to.
LEMMA MoreCopied ==
  ASSUME NEW t \in Seq(Nat), NEW u \in Seq(Nat), NEW d \in Int, NEW p \in Places(t),
         NEW end \in Beyond(t, p), end # 0, end + d \in Nat \ {0}, NEW kind \in {"members", "elements"},
         NEW close \in {RBrace, RBracket},
         \A r \in (p + 1)..(Len(t) + 1) : Transfers(t, u, d, r),
         More(t, end, kind, close, Ends(t)) # 0,
         Copied(t, end, More(t, end, kind, close, Ends(t)), u, d)
  PROVE  LET m == More(t, end, kind, close, Ends(t)) IN
           /\ More(u, end + d, kind, close, Ends(u)) = m + d
           /\ At(u, end + d) = At(t, end) /\ At(t, end) \in ScalarStops /\ m > end /\ m \in Nat
<1> DEFINE next == Skip(t, end)
           q == Skip(t, next + 1)
           m == More(t, end, kind, close, Ends(t))
           last == Skip(u, end + d)
<1>1. /\ p \in Nat \ {0} /\ Len(t) \in Nat /\ end \in Nat \ {0} /\ end > p /\ kind \in Kinds /\ kind # "value"
      /\ \A r \in Int : r \in (p + 1)..(Len(t) + 1) => r \in Places(t)
  BY LenProperties DEF Beyond, Places, Kinds
<1>2. Comma # close /\ {Comma, close} \subseteq ScalarStops /\ Whitespace \subseteq ScalarStops
  BY DEF Comma, RBrace, RBracket, ScalarStops
<1>3. next \in Nat \ {0} /\ end <= next /\ \A r \in end..(next - 1) : At(t, r) \in Whitespace
  BY <1>1, SkipTo
<1>4. \/ /\ At(t, next) = Comma /\ next \in end..Len(t) /\ q \in (next + 1)..(Len(t) + 1)
         /\ m = Ends(t)[q][kind]
      \/ At(t, next) = close /\ next \in end..Len(t) /\ m = next + 1
  <2>1. Follows(t, end, kind, close, Ends(t))
    BY MoreFollows
  <2> QED BY <2>1 DEF Follows
<1>5. Copied(t, end, m, u, d) /\ m # 0
  OBVIOUS
<1>6. m \in Nat /\ m > next /\ (At(t, next) = Comma => q \in Places(t) /\ m > q)
  <2> HIDE DEF m, q, next
  <2>1. CASE At(t, next) = Comma /\ m = Ends(t)[q][kind] /\ q \in (next + 1)..(Len(t) + 1)
    <3>1. q \in Places(t) /\ q > next
      BY <1>1, <1>3, <2>1
    <3> QED BY <1>1, <1>3, <1>5, <2>1, <3>1, EndsTyped
  <2>2. CASE At(t, next) = close /\ m = next + 1
    BY <1>2, <1>3, <2>2
  <2> QED BY <1>4, <2>1, <2>2
<1> HIDE DEF m, next, q, last
<1>7. last = next + d /\ At(u, last) = At(t, next)
  <2>1. Copied(t, end, next + 1, u, d)
    BY <1>1, <1>3, <1>5, <1>6, CopiedPart
  <2> QED BY <1>1, <2>1, SkipCopied DEF next, last
<1>8. At(u, end + d) = At(t, end) /\ At(t, end) \in ScalarStops
  <2>1. end \in end..(m - 1)
    BY <1>1, <1>3, <1>6
  <2>2. At(u, end + d) = At(t, end)
    BY <1>5, <2>1 DEF Copied
  <2>3. CASE next = end
    BY <1>2, <1>4, <2>2, <2>3
  <2>4. CASE next # end
    <3>1. end \in end..(next - 1)
      BY <1>1, <1>3, <2>4
    <3> QED BY <1>2, <1>3, <2>2, <3>1
  <2> QED BY <2>3, <2>4
<1>9. More(u, end + d, kind, close, Ends(u)) = m + d
  <2>1. CASE At(t, next) = close /\ m = next + 1
    <3>1. At(u, last) = close /\ close # Comma
      BY <1>2, <1>7, <2>1
    <3>2. More(u, end + d, kind, close, Ends(u)) = last + 1
      BY <3>1 DEF More, last
    <3> QED BY <1>3, <1>7, <2>1, <3>2
  <2>2. CASE At(t, next) = Comma /\ m = Ends(t)[q][kind] /\ q \in (next + 1)..(Len(t) + 1)
    <3>1. q \in (p + 1)..(Len(t) + 1) /\ q \in Nat \ {0} /\ q <= m - 1
      <4>1. q \in (next + 1)..(Len(t) + 1) /\ m > q
        BY <1>6, <2>2
      <4>2. next \in Nat /\ Len(t) \in Nat /\ p \in Nat /\ p < next /\ m \in Nat
        BY <1>1, <1>3, <1>6
      <4>3. q \in Nat \ {0} /\ q > p
        BY <4>1, <4>2
      <4> QED BY <4>1, <4>2, <4>3
    <3>2. Skip(u, next + 1 + d) = q + d
      <4>1. next + 1 \in Nat \ {0} /\ next + 1 + d \in Nat \ {0}
        BY <1>1, <1>3
      <4>2. Copied(t, next + 1, q + 1, u, d)
        BY <1>1, <1>3, <1>5, <1>6, <3>1, CopiedPart
      <4> QED BY <4>1, <4>2, SkipCopied DEF q
    <3>3. last + 1 = next + 1 + d /\ At(u, last) = Comma
      BY <1>3, <1>7, <2>2
    <3>4. More(u, end + d, kind, close, Ends(u)) = Ends(u)[Skip(u, last + 1)][kind]
      <4>1. At(u, Skip(u, end + d)) = Comma
        BY <3>3 DEF last
      <4>2. More(u, end + d, kind, close, Ends(u)) = Ends(u)[Skip(u, Skip(u, end + d) + 1)][kind]
        BY <1>2, <4>1 DEF More
      <4> QED BY <4>2 DEF last
    <3>5. Skip(u, last + 1) = q + d
      BY <3>2, <3>3
    <3>6. Ends(u)[q + d][kind] = m + d
      <4>0. q \in Int /\ m \in Int /\ end \in Int /\ end <= q /\ m <= m
        <5>1. end \in Nat /\ next \in Nat /\ end <= next /\ m \in Nat
          BY <1>1, <1>3, <1>6
        <5>2. q \in Nat /\ q > next
          BY <2>2, <3>1, <5>1
        <5> QED BY <5>1, <5>2
      <4>1. Copied(t, q, m, u, d)
        BY <1>5, <4>0, CopiedPart
      <4>2. Transfers(t, u, d, q)
        BY <3>1
      <4> QED BY <1>1, <1>5, <2>2, <4>1, <4>2 DEF Transfers
    <3> QED BY <3>4, <3>5, <3>6
  <2> QED BY <1>4, <2>1, <2>2
<1>10. m > end
  BY <1>1, <1>3, <1>6
<1> QED
  BY <1>6, <1>8, <1>9, <1>10 DEF m

\* What follows an opening brace or bracket is read alike wherever the text is
\* copied to.
LEMMA OpenedCopied ==
  ASSUME NEW t \in Seq(Nat), NEW u \in Seq(Nat), NEW d \in Int, NEW p \in Nat \ {0}, At(t, p) # End,
         p + d \in Nat \ {0}, NEW kind \in {"members", "elements"}, NEW close \in {RBrace, RBracket},
         \A r \in (p + 1)..(Len(t) + 1) : Transfers(t, u, d, r),
         Opened(t, p, kind, close, Ends(t)) # 0,
         Copied(t, p, Opened(t, p, kind, close, Ends(t)), u, d)
  PROVE  Opened(u, p + d, kind, close, Ends(u)) = Opened(t, p, kind, close, Ends(t)) + d
<1> DEFINE first == Skip(t, p + 1)
           m == Opened(t, p, kind, close, Ends(t))
<1>1. first \in Places(t) /\ first \in (p + 1)..(Len(t) + 1) /\ first \in Nat \ {0} /\ Len(t) \in Nat
  BY NextPlace, LenProperties DEF Places
<1>2. m = IF At(t, first) = close THEN first + 1 ELSE Ends(t)[first][kind]
  BY DEF Opened
<1>3. Copied(t, p, m, u, d) /\ m # 0 /\ kind \in Kinds /\ kind # "value"
  BY DEF Kinds
<1> HIDE DEF first, m
<1>4. m \in Nat /\ m > first
  <2>1. Ends(t)[first][kind] \in Nat /\ (Ends(t)[first][kind] # 0 => Ends(t)[first][kind] > first)
    BY <1>1, <1>3, EndsTyped
  <2> QED BY <1>1, <1>2, <1>3, <2>1
<1>5. Skip(u, p + 1 + d) = first + d /\ At(u, first + d) = At(t, first)
  <2>1. p + 1 \in Nat \ {0} /\ p + 1 + d \in Nat \ {0}
    OBVIOUS
  <2>2. Copied(t, p + 1, first + 1, u, d)
    BY <1>1, <1>3, <1>4, CopiedPart
  <2> QED BY <2>1, <2>2, SkipCopied DEF first
<1>6. Opened(u, p + d, kind, close, Ends(u)) =
        IF At(t, first) = close THEN first + d + 1 ELSE Ends(u)[first + d][kind]
  <2>1. (p + d) + 1 = p + 1 + d
    OBVIOUS
  <2> QED BY <1>5, <2>1 DEF Opened
<1>7. CASE At(t, first) = close
  BY <1>1, <1>2, <1>6, <1>7 DEF m
<1>8. CASE At(t, first) # close
  <2>1. Copied(t, first, m, u, d)
    BY <1>1, <1>3, <1>4, CopiedPart
  <2>2. Ends(u)[first + d][kind] = m + d
    BY <1>1, <1>2, <1>3, <1>8, <2>1 DEF Transfers
  <2> QED BY <1>6, <1>8, <2>2 DEF m
<1> QED
  BY <1>7, <1>8

\* A value, whitespace before it included.
LEMMA ValueCopied ==
  ASSUME NEW t \in Seq(Nat), NEW u \in Seq(Nat), NEW d \in Int, NEW p \in Places(t), p + d \in Nat \ {0},
         \A r \in (p + 1)..(Len(t) + 1) : Transfers(t, u, d, r),
         ValueAt(t, p, Ends(t)) # 0, Copied(t, p, ValueAt(t, p, Ends(t)), u, d),
         At(u, ValueAt(t, p, Ends(t)) + d) \in ScalarStops
  PROVE  ValueAt(u, p + d, Ends(u)) = ValueAt(t, p, Ends(t)) + d
<1> DEFINE start == Skip(t, p)
           c == At(t, start)
           end == Scalar(t, start)
           q == ValueAt(t, p, Ends(t))
<1>1. /\ p \in Nat \ {0} /\ Len(t) \in Nat /\ start \in Places(t) /\ start \in Nat \ {0} /\ p <= start
      /\ \A r \in Int : r \in (start + 1)..(Len(t) + 1) => r \in (p + 1)..(Len(t) + 1)
  <2>1. p \in Nat \ {0} /\ Len(t) \in Nat
    BY LenProperties DEF Places
  <2>2. start \in Nat \ {0} /\ p <= start /\ start \in Places(t)
    BY <2>1, SkipTo
  <2> HIDE DEF start
  <2> QED BY <2>1, <2>2
<1>2. q \in Nat /\ q > start
  <2>1. SameAfter(Ends(t), Ends(t), t, start) /\ Ends(t) \in AllEnds(t)
    BY EndsAdvance DEF SameAfter
  <2>2. q \in Beyond(t, start)
    <3>1. Skip(t, start) = start
      <4>1. At(t, start) \notin Whitespace
        BY <1>1, SkipTo
      <4>2. \A r \in start..(start - 1) : FALSE
        BY <1>1
      <4> HIDE DEF start
      <4> QED BY <1>1, <4>1, <4>2, SkipIs
    <3>2. q = ValueAt(t, start, Ends(t))
      BY <3>1 DEF ValueAt
    <3> HIDE DEF q
    <3> QED BY <1>1, <2>1, <3>2, ValueLater
  <2>3. q # 0
    OBVIOUS
  <2> HIDE DEF q, start
  <2> QED BY <1>1, <2>2, <2>3 DEF Beyond
<1>3. Copied(t, p, q, u, d) /\ At(u, q + d) \in ScalarStops
  OBVIOUS
<1>4. LBrace # LBracket /\ LBrace # Quote /\ LBracket # Quote /\ LBrace # End /\ LBracket # End
  BY DEF LBrace, LBracket, Quote, End
<1>5. \A v, s, f : ValueFrom(v, s, f) =
        CASE At(v, s) = LBrace -> Opened(v, s, "members", RBrace, f)
          [] At(v, s) = LBracket -> Opened(v, s, "elements", RBracket, f)
          [] At(v, s) = Quote -> ParseJsonString(v, s).pos
          [] OTHER -> IF Scalar(v, s) = s THEN 0 ELSE Scalar(v, s)
  BY DEF ValueFrom
<1>6. q = ValueFrom(t, start, Ends(t))
  BY DEF ValueAt
<1>7. q # 0
  OBVIOUS
<1> HIDE DEF q, start, c, end
<1>8. Skip(u, p + d) = start + d /\ At(u, start + d) = c /\ start + d \in Nat \ {0}
  <2>1. Copied(t, p, start + 1, u, d)
    BY <1>1, <1>2, <1>3, CopiedPart
  <2> QED BY <1>1, <2>1, SkipCopied DEF start, c
<1>9. ValueAt(u, p + d, Ends(u)) = ValueFrom(u, start + d, Ends(u))
  BY <1>8 DEF ValueAt
<1>10. Copied(t, start, q, u, d)
  BY <1>1, <1>2, <1>3, CopiedPart
<1>11. \A r \in (start + 1)..(Len(t) + 1) : Transfers(t, u, d, r)
  BY <1>1
<1>12. CASE c = LBrace
  <2>1. q = Opened(t, start, "members", RBrace, Ends(t))
    BY <1>5, <1>6, <1>12, <1>4 DEF c
  <2>2. ValueFrom(u, start + d, Ends(u)) = Opened(u, start + d, "members", RBrace, Ends(u))
    BY <1>5, <1>8, <1>12, <1>4
  <2>3. At(t, start) # End
    BY <1>4, <1>12 DEF c
  <2>4. Opened(u, start + d, "members", RBrace, Ends(u)) = q + d
    BY <1>1, <1>7, <1>8, <1>10, <1>11, <2>1, <2>3, OpenedCopied
  <2> QED BY <1>9, <2>2, <2>4 DEF q
<1>13. CASE c = LBracket
  <2>1. q = Opened(t, start, "elements", RBracket, Ends(t))
    BY <1>5, <1>6, <1>13, <1>4 DEF c
  <2>2. ValueFrom(u, start + d, Ends(u)) = Opened(u, start + d, "elements", RBracket, Ends(u))
    BY <1>5, <1>8, <1>13, <1>4
  <2>3. At(t, start) # End
    BY <1>4, <1>13 DEF c
  <2>4. Opened(u, start + d, "elements", RBracket, Ends(u)) = q + d
    BY <1>1, <1>7, <1>8, <1>10, <1>11, <2>1, <2>3, OpenedCopied
  <2> QED BY <1>9, <2>2, <2>4 DEF q
<1>14. CASE c = Quote
  <2>1. q = ParseJsonString(t, start).pos
    BY <1>5, <1>6, <1>14, <1>4 DEF c
  <2>2. ValueFrom(u, start + d, Ends(u)) = ParseJsonString(u, start + d).pos
    BY <1>5, <1>8, <1>14, <1>4
  <2>3. ParseJsonString(u, start + d) = [pos |-> q + d, out |-> ParseJsonString(t, start).out]
    BY <1>1, <1>7, <1>10, <2>1, StringCopied
  <2> QED BY <1>9, <2>2, <2>3 DEF q
<1>15. CASE c \notin {LBrace, LBracket, Quote}
  <2>1. q = IF end = start THEN 0 ELSE end
    BY <1>5, <1>6, <1>15 DEF c, end
  <2>2. ValueFrom(u, start + d, Ends(u)) = IF Scalar(u, start + d) = start + d THEN 0 ELSE Scalar(u, start + d)
    BY <1>5, <1>8, <1>15
  <2>3. q = end
    BY <1>7, <2>1
  <2>4. Scalar(u, start + d) = q + d
    BY <1>1, <1>3, <1>8, <1>10, <2>3, ScalarCopied DEF end
  <2>5. q + d # start + d
    BY <1>1, <1>2
  <2> QED BY <1>9, <2>2, <2>4, <2>5 DEF q
<1> QED
  BY <1>12, <1>13, <1>14, <1>15

\* A member, if a separator follows its value.
LEMMA MemberCopied ==
  ASSUME NEW t \in Seq(Nat), NEW u \in Seq(Nat), NEW d \in Int, NEW p \in Places(t),
         \A r \in (p + 1)..(Len(t) + 1) : Transfers(t, u, d, r),
         MemberAt(t, p, Ends(t)).end # 0, Copied(t, p, MemberAt(t, p, Ends(t)).end, u, d),
         At(u, MemberAt(t, p, Ends(t)).end + d) \in ScalarStops
  PROVE  LET m == MemberAt(t, p, Ends(t)) IN
           MemberAt(u, p + d, Ends(u)) = [name |-> m.name, start |-> m.start + d, end |-> m.end + d]
<1> DEFINE m == MemberAt(t, p, Ends(t))
           name == ParseJsonString(t, p)
           colon == Skip(t, name.pos)
           start == m.start
           end == m.end
<1>1. /\ p \in Nat \ {0} /\ Len(t) \in Nat
      /\ \A r \in Places(t) : r \in 1..(Len(t) + 1)
  BY LenProperties DEF Places
<1>2. /\ name.pos # 0 /\ At(t, colon) = Colon /\ colon \in name.pos..Len(t)
      /\ start = Skip(t, colon + 1) /\ start \in Places(t) /\ start > p
      /\ m.name = name.out /\ end = Ends(t)[start]["value"]
      /\ end \in (start + 1)..(Len(t) + 1)
  <2>1. SameAfter(Ends(t), Ends(t), t, p) /\ Ends(t) \in AllEnds(t)
    BY EndsAdvance DEF SameAfter
  <2> QED BY <2>1, MemberLater
<1>3. end # 0 /\ Copied(t, p, end, u, d) /\ At(u, end + d) \in ScalarStops
  OBVIOUS
<1>4. MemberAt(u, p + d, Ends(u)) = MemberNamed(u, ParseJsonString(u, p + d), Ends(u))
  BY DEF MemberAt
<1> HIDE DEF m, colon, start, end
<1>5. /\ name.pos \in Nat \ {0} /\ name.pos > p /\ colon \in Nat \ {0} /\ colon >= name.pos
      /\ start \in Nat \ {0} /\ end \in Nat /\ start < end
  <2>1. name.pos \in (p + 2)..(Len(t) + 1)
    BY <1>1, <1>2, StringEnd
  <2>2. colon \in name.pos..Len(t) /\ start > p /\ end \in (start + 1)..(Len(t) + 1) /\ start \in 1..(Len(t) + 1)
    BY <1>1, <1>2
  <2>3. p \in Nat /\ Len(t) \in Nat
    BY <1>1
  <2> DEFINE n == name.pos
  <2>4. n \in (p + 2)..(Len(t) + 1) /\ colon \in n..Len(t)
    BY <2>1, <2>2
  <2> HIDE DEF n, name
  <2>5. n \in Nat \ {0} /\ n > p /\ colon \in Nat \ {0} /\ colon >= n
    BY <2>3, <2>4
  <2>6. start \in Nat \ {0} /\ end \in Nat /\ start < end
    BY <2>2, <2>3
  <2> QED BY <2>5, <2>6 DEF n
<1>6. colon + 1 <= start
  BY <1>2, <1>5, SkipTo
<1>7. p + d \in Nat \ {0}
  <2>1. start > p /\ end <= Len(t) + 1 /\ start < end
    BY <1>1, <1>2, <1>5
  <2>2. p < end /\ end <= Len(t) + 1 /\ end \in Int
    BY <1>1, <1>5, <2>1
  <2> QED BY <1>1, <1>3, <2>2, CopiedPlace
<1>8. ParseJsonString(u, p + d) = [pos |-> name.pos + d, out |-> name.out]
  <2>1. Copied(t, p, name.pos, u, d)
    BY <1>1, <1>3, <1>5, <1>6, CopiedPart
  <2> QED BY <1>1, <1>2, <2>1, StringCopied
<1> HIDE DEF name
<1>9. Skip(u, name.pos + d) = colon + d /\ At(u, colon + d) = Colon
  <2> DEFINE n == name.pos
  <2>1. n \in Nat \ {0} /\ colon = Skip(t, n) /\ At(t, colon) = Colon
    BY <1>2, <1>5 DEF colon
  <2>2. Copied(t, n, colon + 1, u, d)
    BY <1>1, <1>3, <1>5, <1>6, CopiedPart
  <2>3. n + d \in Nat \ {0}
    BY <1>1, <1>5, <1>7
  <2> HIDE DEF n
  <2>4. Skip(u, n + d) = colon + d /\ At(u, colon + d) = Colon
    BY <2>1, <2>2, <2>3, SkipCopied
  <2> QED BY <2>4 DEF n
<1>10. Skip(u, (colon + d) + 1) = start + d
  <2>1. Copied(t, colon + 1, start + 1, u, d)
    BY <1>1, <1>3, <1>5, <1>6, CopiedPart
  <2>2. colon + 1 \in Nat \ {0} /\ colon + 1 + d \in Nat \ {0} /\ (colon + d) + 1 = colon + 1 + d
    BY <1>1, <1>5, <1>7
  <2> QED BY <1>2, <2>1, <2>2, SkipCopied
<1>11. Ends(u)[start + d]["value"] = end + d
  <2>0. start > p /\ start \in 1..(Len(t) + 1)
    BY <1>1, <1>2
  <2>1. Copied(t, start, end, u, d)
    BY <1>1, <1>3, <1>5, <2>0, CopiedPart
  <2>2. Transfers(t, u, d, start) /\ "value" \in Kinds
    <3>1. start \in (p + 1)..(Len(t) + 1)
      BY <1>1, <2>0
    <3> QED BY <3>1 DEF Kinds
  <2> QED BY <1>2, <1>3, <2>1, <2>2 DEF Transfers
<1>12. MemberAt(u, p + d, Ends(u)) = [name |-> name.out, start |-> start + d, end |-> end + d]
  BY <1>4, <1>8, <1>9, <1>10, <1>11 DEF MemberNamed
<1> QED
  BY <1>2, <1>12 DEF m, start, end

\* What ends in a text ends alike in every text it is copied to, if a separator
\* follows: whether SkipJsonValue accepts a value does not depend on its surroundings.
THEOREM EndsCopied ==
  ASSUME NEW t \in Seq(Nat), NEW u \in Seq(Nat), NEW d \in Int, NEW p \in Places(t)
  PROVE  Transfers(t, u, d, p)
<1> DEFINE T == {r \in Places(t) : Transfers(t, u, d, r)}
<1>1. ASSUME NEW r \in Places(t), \A s \in (r + 1)..(Len(t) + 1) : s \in T
      PROVE  Transfers(t, u, d, r)
  <2> SUFFICES ASSUME NEW kind \in Kinds, Ends(t)[r][kind] # 0,
                      Copied(t, r, Ends(t)[r][kind], u, d),
                      kind = "value" => At(u, Ends(t)[r][kind] + d) \in ScalarStops
               PROVE  Ends(u)[r + d][kind] = Ends(t)[r][kind] + d
    BY DEF Transfers
  <2> DEFINE q == Ends(t)[r][kind]
  <2>1. \A s \in (r + 1)..(Len(t) + 1) : Transfers(t, u, d, s)
    BY <1>1
  <2>2. /\ q # 0 /\ Copied(t, r, q, u, d) /\ q \in Nat /\ q > r /\ q <= Len(t) + 1
        /\ kind = "value" => At(u, q + d) \in ScalarStops
    BY EndsTyped
  <2>3. /\ r \in Nat \ {0} /\ Len(t) \in Nat
        /\ \A e \in Beyond(t, r) : e \in Nat /\ (e # 0 => e > r)
    BY LenProperties DEF Places, Beyond
  <2> HIDE DEF q, T
  <2>4. r + d \in Nat \ {0} /\ r + d \in Places(u)
    BY <2>2, <2>3, CopiedPlace
  <2>5. q = EndOf(t, r, kind, Ends(t)) /\ Ends(u)[r + d][kind] = EndOf(u, r + d, kind, Ends(u))
    BY <2>4, EndsAdvance DEF q
  <2>6. SameAfter(Ends(t), Ends(t), t, r) /\ Ends(t) \in AllEnds(t)
    BY EndsAdvance DEF SameAfter
  <2>7. CASE kind = "value"
    <3>1. q = ValueAt(t, r, Ends(t)) /\ Ends(u)[r + d][kind] = ValueAt(u, r + d, Ends(u))
      BY <2>5, <2>7 DEF EndOf
    <3>2. ValueAt(u, r + d, Ends(u)) = q + d
      BY <2>1, <2>2, <2>4, <2>7, <3>1, ValueCopied
    <3> QED BY <3>1, <3>2 DEF q
  <2>8. CASE kind = "members"
    <3> DEFINE m == MemberAt(t, r, Ends(t))
               end == m.end
    <3>1. q = More(t, end, kind, RBrace, Ends(t))
      BY <2>5, <2>8 DEF EndOf
    <3>2. Ends(u)[r + d][kind] = More(u, MemberAt(u, r + d, Ends(u)).end, kind, RBrace, Ends(u))
      BY <2>5, <2>8 DEF EndOf
    <3>3. end \in Beyond(t, r)
      BY <2>6, MemberLater
    <3> HIDE DEF end, m
    <3>4. end # 0
      BY <2>2, <2>6, <3>1, <3>3, MoreLater
    <3>5. end \in Nat /\ end > r /\ end + d \in Nat \ {0}
      BY <2>3, <2>4, <3>3, <3>4
    <3>6. Copied(t, end, q, u, d)
      BY <2>2, <2>3, <3>5, CopiedPart
    <3>7. /\ More(u, end + d, kind, RBrace, Ends(u)) = q + d
          /\ At(u, end + d) = At(t, end) /\ At(t, end) \in ScalarStops /\ q > end
      BY <2>1, <2>2, <2>8, <3>1, <3>3, <3>4, <3>5, <3>6, MoreCopied
    <3>8. Copied(t, r, end, u, d)
      BY <2>2, <2>3, <3>5, <3>7, CopiedPart
    <3>9. MemberAt(u, r + d, Ends(u)).end = end + d
      <4>1. /\ MemberAt(t, r, Ends(t)).end # 0 /\ Copied(t, r, MemberAt(t, r, Ends(t)).end, u, d)
            /\ At(u, MemberAt(t, r, Ends(t)).end + d) \in ScalarStops
        BY <3>4, <3>7, <3>8 DEF m, end
      <4>2. MemberAt(u, r + d, Ends(u)) = [name |-> m.name, start |-> m.start + d, end |-> m.end + d]
        BY <2>1, <4>1, MemberCopied DEF m
      <4> QED BY <4>2 DEF end
    <3> QED BY <3>2, <3>7, <3>9 DEF q
  <2>9. CASE kind = "elements"
    <3> DEFINE end == ValueAt(t, r, Ends(t))
    <3>1. q = More(t, end, kind, RBracket, Ends(t))
      BY <2>5, <2>9 DEF EndOf
    <3>2. Ends(u)[r + d][kind] = More(u, ValueAt(u, r + d, Ends(u)), kind, RBracket, Ends(u))
      BY <2>5, <2>9 DEF EndOf
    <3>3. end \in Beyond(t, r)
      BY <2>6, ValueLater
    <3> HIDE DEF end
    <3>4. end # 0
      BY <2>2, <2>6, <3>1, <3>3, MoreLater
    <3>5. end \in Nat /\ end > r /\ end + d \in Nat \ {0}
      BY <2>3, <2>4, <3>3, <3>4
    <3>6. Copied(t, end, q, u, d)
      BY <2>2, <2>3, <3>5, CopiedPart
    <3>7. /\ More(u, end + d, kind, RBracket, Ends(u)) = q + d
          /\ At(u, end + d) = At(t, end) /\ At(t, end) \in ScalarStops /\ q > end
      BY <2>1, <2>2, <2>9, <3>1, <3>3, <3>4, <3>5, <3>6, MoreCopied
    <3>8. Copied(t, r, end, u, d)
      BY <2>2, <2>3, <3>5, <3>7, CopiedPart
    <3>9. ValueAt(u, r + d, Ends(u)) = end + d
      BY <2>1, <2>4, <3>4, <3>7, <3>8, ValueCopied DEF end
    <3> QED BY <3>2, <3>7, <3>9 DEF q
  <2> QED BY <2>7, <2>8, <2>9 DEF Kinds
<1>2. \A r \in Places(t) : (\A s \in (r + 1)..(Len(t) + 1) : s \in T) => r \in T
  BY <1>1
<1> HIDE DEF T
<1>3. p \in T
  BY <1>2, PlacesInduction
<1> QED
  BY <1>3 DEF T

-----------------------------------------------------------------------------
(* Values *)

\* An object ends with a brace, and an array with a bracket.
Closes(t, p) ==
  /\ Ends(t)[p]["members"] # 0 => At(t, Ends(t)[p]["members"] - 1) = RBrace
  /\ Ends(t)[p]["elements"] # 0 => At(t, Ends(t)[p]["elements"] - 1) = RBracket

\* Members end at a brace and elements end at a bracket.
LEMMA LastSymbol ==
  ASSUME NEW t \in Seq(Nat), NEW p \in Places(t)
  PROVE  Closes(t, p)
<1> DEFINE T == {r \in Places(t) : Closes(t, r)}
<1>1. ASSUME NEW r \in Places(t), \A s \in (r + 1)..(Len(t) + 1) : s \in T
      PROVE  Closes(t, r)
  <2>1. SameAfter(Ends(t), Ends(t), t, r) /\ Ends(t) \in AllEnds(t)
    BY EndsAdvance DEF SameAfter
  <2>2. /\ r \in Nat \ {0} /\ Len(t) \in Nat
        /\ \A e \in Beyond(t, r) : e \in Nat /\ (e # 0 => e > r)
    BY LenProperties DEF Places, Beyond
  <2>3. ASSUME NEW end \in Beyond(t, r), NEW close \in {RBrace, RBracket}, NEW kind \in {"members", "elements"},
               More(t, end, kind, close, Ends(t)) # 0,
               \A s \in (r + 1)..(Len(t) + 1) : Ends(t)[s][kind] # 0 => At(t, Ends(t)[s][kind] - 1) = close
        PROVE  At(t, More(t, end, kind, close, Ends(t)) - 1) = close
    <3> DEFINE next == Skip(t, end)
               q == Skip(t, next + 1)
               m == More(t, end, kind, close, Ends(t))
    <3>1. Follows(t, end, kind, close, Ends(t)) /\ kind \in Kinds
      BY <2>3, MoreFollows DEF Kinds
    <3>2. \/ next \in end..Len(t) /\ q \in (next + 1)..(Len(t) + 1) /\ m = Ends(t)[q][kind]
          \/ At(t, next) = close /\ next \in end..Len(t) /\ m = next + 1
      BY <3>1 DEF Follows
    <3>3. end # 0
      BY <2>1, <2>3, <3>1, MoreLater
    <3>4. m # 0 /\ end > r /\ end \in Nat
      BY <2>2, <2>3, <3>3
    <3> HIDE DEF m, q, next
    <3>5. CASE next \in end..Len(t) /\ q \in (next + 1)..(Len(t) + 1) /\ m = Ends(t)[q][kind]
      <4>1. q \in (r + 1)..(Len(t) + 1)
        BY <2>2, <3>4, <3>5
      <4>2. At(t, m - 1) = close
        BY <2>3, <3>4, <3>5, <4>1
      <4> QED BY <4>2 DEF m
    <3>6. CASE At(t, next) = close /\ next \in end..Len(t) /\ m = next + 1
      <4>1. m - 1 = next
        BY <3>4, <3>6
      <4>2. At(t, m - 1) = close
        BY <3>6, <4>1
      <4> QED BY <4>2 DEF m
    <3> QED BY <3>2, <3>5, <3>6
  <2>4. \A s \in (r + 1)..(Len(t) + 1) : Closes(t, s)
    BY <1>1
  <2>5. Ends(t)[r]["members"] # 0 => At(t, Ends(t)[r]["members"] - 1) = RBrace
    <3> DEFINE end == MemberAt(t, r, Ends(t)).end
    <3>1. Ends(t)[r]["members"] = EndOf(t, r, "members", Ends(t))
      BY EndsAdvance DEF Kinds
    <3>2. Ends(t)[r]["members"] = More(t, end, "members", RBrace, Ends(t))
      BY <3>1 DEF EndOf
    <3>3. end \in Beyond(t, r)
      BY <2>1, MemberLater
    <3> HIDE DEF end
    <3>4. \A s \in (r + 1)..(Len(t) + 1) : Ends(t)[s]["members"] # 0 => At(t, Ends(t)[s]["members"] - 1) = RBrace
      BY <2>4 DEF Closes
    <3> QED BY <2>3, <3>2, <3>3, <3>4
  <2>6. Ends(t)[r]["elements"] # 0 => At(t, Ends(t)[r]["elements"] - 1) = RBracket
    <3> DEFINE end == ValueAt(t, r, Ends(t))
    <3>1. Ends(t)[r]["elements"] = EndOf(t, r, "elements", Ends(t))
      BY EndsAdvance DEF Kinds
    <3>2. Ends(t)[r]["elements"] = More(t, end, "elements", RBracket, Ends(t))
      BY <3>1 DEF EndOf
    <3>3. end \in Beyond(t, r)
      BY <2>1, ValueLater
    <3> HIDE DEF end
    <3>4. \A s \in (r + 1)..(Len(t) + 1) : Ends(t)[s]["elements"] # 0 => At(t, Ends(t)[s]["elements"] - 1) = RBracket
      BY <2>4 DEF Closes
    <3> QED BY <2>3, <3>2, <3>3, <3>4
  <2> QED BY <2>5, <2>6 DEF Closes
<1>2. \A r \in Places(t) : (\A s \in (r + 1)..(Len(t) + 1) : s \in T) => r \in T
  BY <1>1
<1> HIDE DEF T
<1>3. p \in T
  BY <1>2, PlacesInduction
<1> QED
  BY <1>3 DEF T

\* SkipJsonValue takes the whole of v for a value, wherever it stands, if a
\* separator follows.
ReadWhole(v) ==
  \A t \in Seq(Nat) : \A p \in Nat \ {0} :
    Stands(v, t, p) /\ At(t, p + Len(v)) \in ScalarStops => SkipJsonValue(t, p) = p + Len(v)

\* The texts of values, without whitespace around them.
Values ==
  {v \in Seq(Nat) : v # <<>> /\ v[1] \notin Whitespace /\ v[Len(v)] \notin Whitespace /\ ReadWhole(v)}

\* A text that stands in another is a part of it.
LEMMA StandsPart ==
  ASSUME NEW t \in Seq(Nat), NEW p \in Nat \ {0}, NEW v \in Seq(Nat), v # <<>>
  PROVE  /\ Stands(v, t, p) =>
              /\ p \in 1..Len(t) /\ p \in Places(t) /\ p + Len(v) \in Places(t)
              /\ At(t, p) = v[1] /\ At(t, p + Len(v) - 1) = v[Len(v)]
              /\ SubSeq(t, p, p + Len(v) - 1) = v
         /\ Len(v) \in Nat \ {0} /\ v[1] \in Nat /\ v[Len(v)] \in Nat
<1> DEFINE n == Len(v)
           L == Len(t)
<1>1. n \in Nat \ {0} /\ L \in Nat /\ \A i \in 1..n : v[i] \in Nat
  BY EmptySeq, LenProperties, ElementOfSeq
<1>2. ASSUME Stands(v, t, p)
      PROVE  /\ p \in 1..L /\ p \in Places(t) /\ p + n \in Places(t)
             /\ At(t, p) = v[1] /\ At(t, p + n - 1) = v[n]
             /\ SubSeq(t, p, p + n - 1) = v
  <2>1. \A i \in 1..n : p - 1 + i \in 1..L /\ At(t, p - 1 + i) = v[i] /\ t[p - 1 + i] = v[i]
    <3>1. ASSUME NEW i \in 1..n PROVE p - 1 + i \in 1..L /\ At(t, p - 1 + i) = v[i] /\ t[p - 1 + i] = v[i]
      <4>1. p - 1 + i <= L /\ t[p - 1 + i] = v[i]
        BY <1>2 DEF Stands
      <4>2. p - 1 + i \in 1..L /\ p - 1 + i \in Int
        BY <1>1, <4>1
      <4> QED BY <4>1, <4>2, SymbolAt
    <3> QED BY <3>1
  <2>2. 1 \in 1..n /\ n \in 1..n /\ p - 1 + 1 = p /\ p - 1 + n = p + n - 1 /\ p + n - 1 + 1 = p + n
    BY <1>1
  <2>3. p \in 1..L /\ At(t, p) = v[1]
    BY <2>1, <2>2
  <2>4. p + n - 1 \in 1..L /\ At(t, p + n - 1) = v[n]
    BY <2>1, <2>2
  <2>5. p \in Places(t) /\ p + n \in Places(t)
    <3>1. p \in Nat /\ n \in Nat /\ L \in Nat
      BY <1>1
    <3>2. p \in 1..(L + 1) /\ p + n \in 1..(L + 1)
      BY <2>3, <2>4, <3>1
    <3> QED BY <3>2 DEF Places
  <2>6. SubSeq(t, p, p + n - 1) = v
    <3> DEFINE b == p + n - 1
               s == SubSeq(t, p, b)
    <3>1. b \in 0..L /\ p <= b /\ b - p + 1 = n
      <4>1. p \in Nat /\ n \in Nat \ {0} /\ L \in Nat
        BY <1>1
      <4> QED BY <2>4, <4>1
    <3> HIDE DEF n, L, b
    <3>2. /\ s \in Seq(Nat) /\ Len(s) = n
          /\ \A i \in 1..n : s[i] = t[p - 1 + i]
      <4>1. p \in 1..(L + 1)
        BY <1>1, <2>3
      <4>2. s \in Seq(Nat) /\ Len(s) = (IF p <= b THEN b - p + 1 ELSE 0)
            /\ \A i \in 1..(b - p + 1) : s[i] = t[p + i - 1]
        BY SMTT(20), <3>1, <4>1, SubSeqProperties DEF L
      <4>3. Len(s) = n
        BY <3>1, <4>2
      <4>4. \A i \in 1..n : p + i - 1 = p - 1 + i
        BY <1>1
      <4> QED BY <3>1, <4>2, <4>3, <4>4
    <3>3. \A i \in 1..n : s[i] = v[i]
      BY <2>1, <3>2
    <3> HIDE DEF s
    <3>4. s = v
      BY <3>2, <3>3, SeqEqual DEF n
    <3> QED BY <3>4 DEF s, b
  <2> QED BY <2>3, <2>4, <2>5, <2>6
<1>3. v[1] \in Nat /\ v[n] \in Nat
  BY <1>1
<1> QED
  BY <1>1, <1>2, <1>3

\* A value is found where it stands.
LEMMA ValueFound ==
  ASSUME NEW t \in Seq(Nat), NEW p \in Nat \ {0}, NEW v \in Values, Stands(v, t, p),
         At(t, p + Len(v)) \in ScalarStops
  PROVE  /\ p \in Places(t) /\ p + Len(v) \in Places(t) /\ Skip(t, p) = p /\ At(t, p) = v[1]
         /\ SkipJsonValue(t, p) = p + Len(v) /\ SubSeq(t, p, p + Len(v) - 1) = v
<1>1. v \in Seq(Nat) /\ v # <<>> /\ v[1] \notin Whitespace
  BY DEF Values
<1>2. p \in Places(t) /\ p + Len(v) \in Places(t) /\ At(t, p) = v[1] /\ SubSeq(t, p, p + Len(v) - 1) = v
  BY <1>1, StandsPart
<1>3. Skip(t, p) = p
  BY <1>1, <1>2, SkipIs
<1>4. SkipJsonValue(t, p) = p + Len(v)
  BY DEF Values, ReadWhole
<1> QED
  BY <1>2, <1>3, <1>4

\* The last symbol of a value is not whitespace.
LEMMA ValueEnds ==
  ASSUME NEW t \in Seq(Nat), NEW p \in Places(t), At(t, p) \notin Whitespace, SkipJsonValue(t, p) # 0
  PROVE  At(t, SkipJsonValue(t, p) - 1) \notin Whitespace
<1> DEFINE c == At(t, p)
           q == SkipJsonValue(t, p)
<1>1. /\ p \in Nat \ {0} /\ Len(t) \in Nat
  BY LenProperties DEF Places
<1>2. Skip(t, p) = p
  BY <1>1, SkipIs
<1>3. q = ValueFrom(t, p, Ends(t))
  <2>1. Ends(t)[p]["value"] = EndOf(t, p, "value", Ends(t))
    BY EndsAdvance DEF Kinds
  <2> QED BY <1>2, <2>1 DEF EndOf, ValueAt, SkipJsonValue
<1>4. q # 0
  OBVIOUS
<1>5. LBrace # LBracket /\ LBrace # Quote /\ LBracket # Quote /\ LBrace # End /\ LBracket # End
  BY DEF LBrace, LBracket, Quote, End
<1>6. {RBrace, RBracket, Quote} \cap Whitespace = {}
  BY DEF RBrace, RBracket, Quote, Whitespace
<1>7. ASSUME NEW kind \in {"members", "elements"}, NEW close \in {RBrace, RBracket},
             q = Opened(t, p, kind, close, Ends(t)), c # End,
             \A r \in Places(t) : Ends(t)[r][kind] # 0 => At(t, Ends(t)[r][kind] - 1) = close
      PROVE  At(t, q - 1) = close
  <2> DEFINE first == Skip(t, p + 1)
  <2>1. first \in Places(t) /\ first \in Nat
    BY <1>1, <1>7, NextPlace DEF Places
  <2>2. q = IF At(t, first) = close THEN first + 1 ELSE Ends(t)[first][kind]
    BY <1>7 DEF Opened
  <2> HIDE DEF first, q
  <2>3. CASE At(t, first) = close
    <3>1. q - 1 = first
      BY <2>1, <2>2, <2>3
    <3> QED BY <2>3, <3>1
  <2>4. CASE At(t, first) # close
    BY <1>4, <1>7, <2>1, <2>2, <2>4
  <2> QED BY <2>3, <2>4
<1>8. \A r \in Places(t) : Closes(t, r)
  BY LastSymbol
<1> HIDE DEF q, c
<1>9. CASE c = LBrace
  <2>1. q = Opened(t, p, "members", RBrace, Ends(t)) /\ c # End
    BY <1>3, <1>5, <1>9 DEF ValueFrom, c
  <2>2. At(t, q - 1) = RBrace
    BY <1>7, <1>8, <2>1 DEF Closes
  <2> QED BY <1>6, <2>2 DEF q
<1>10. CASE c = LBracket
  <2>1. q = Opened(t, p, "elements", RBracket, Ends(t)) /\ c # End
    BY <1>3, <1>5, <1>10 DEF ValueFrom, c
  <2>2. At(t, q - 1) = RBracket
    BY <1>7, <1>8, <2>1 DEF Closes
  <2> QED BY <1>6, <2>2 DEF q
<1>11. CASE c = Quote
  <2>1. q = ParseJsonString(t, p).pos
    BY <1>3, <1>5, <1>11 DEF ValueFrom, c
  <2>2. q \in (p + 2)..(Len(t) + 1) /\ t[q - 1] = Quote
    BY <1>1, <1>4, <2>1, StringEnd
  <2>3. q - 1 \in 1..Len(t)
    BY <1>1, <2>2
  <2>4. At(t, q - 1) = Quote
    BY <2>2, <2>3, SymbolAt
  <2> QED BY <1>6, <2>4 DEF q
<1>12. CASE c \notin {LBrace, LBracket, Quote}
  <2>1. q = IF Scalar(t, p) = p THEN 0 ELSE Scalar(t, p)
    BY <1>3, <1>12 DEF ValueFrom, c
  <2>2. q = Scalar(t, p) /\ q # p
    BY <1>4, <2>1
  <2>3. q \in Nat /\ First(Separators(t), p, q)
    BY <1>1, <2>2, ScalarFirst
  <2>4. q - 1 \in p..(q - 1) /\ q - 1 \in Nat
    BY <1>1, <2>2, <2>3 DEF First
  <2>5. q - 1 \notin Separators(t)
    BY <2>3, <2>4 DEF First
  <2>6. At(t, q - 1) \notin ScalarStops
    BY <2>4, <2>5 DEF Separators
  <2> QED BY <2>6 DEF q, ScalarStops
<1> QED
  BY <1>9, <1>10, <1>11, <1>12

\* What SkipJsonValue accepts is a value, whatever surrounds it: the text between its
\* first symbol and its end is read whole wherever it is put before a separator.
THEOREM AcceptedIsValue ==
  ASSUME NEW t \in Seq(Nat), NEW p \in Places(t), At(t, p) \notin Whitespace, SkipJsonValue(t, p) # 0
  PROVE  SubSeq(t, p, SkipJsonValue(t, p) - 1) \in Values
<1> DEFINE q == SkipJsonValue(t, p)
           v == SubSeq(t, p, q - 1)
<1>1. /\ p \in Nat \ {0} /\ Len(t) \in Nat
      /\ q \in Nat /\ q # 0 /\ q > p /\ q <= Len(t) + 1
  BY EndsTyped, LenProperties DEF Places, SkipJsonValue, Kinds
<1>2. At(t, q - 1) \notin Whitespace
  BY ValueEnds
<1> HIDE DEF q
<1>3. /\ v \in Seq(Nat) /\ Len(v) = q - p
      /\ \A i \in 1..(q - p) : v[i] = t[p + i - 1]
  <2> DEFINE b == q - 1
             s == SubSeq(t, p, b)
  <2>1. b \in Int /\ p <= b /\ b - p + 1 = q - p /\ \A i \in p..b : i \in 1..Len(t)
    BY <1>1
  <2> HIDE DEF b
  <2>2. \A i \in p..b : t[i] \in Nat
    BY <2>1, ElementOfSeq
  <2>3. s \in Seq(Nat) /\ Len(s) = b - p + 1 /\ \A i \in 1..(b - p + 1) : s[i] = t[p + i - 1]
    BY <1>1, <2>1, <2>2, SubSeqProperties
  <2>4. s \in Seq(Nat) /\ Len(s) = q - p /\ \A i \in 1..(q - p) : s[i] = t[p + i - 1]
    BY <2>1, <2>3
  <2> QED BY <2>4 DEF b
<1> HIDE DEF v
<1>4. \A i \in 1..(q - p) : p + i - 1 \in 1..Len(t) /\ v[i] = At(t, p + i - 1)
  <2>1. ASSUME NEW i \in 1..(q - p)
        PROVE  p + i - 1 \in 1..Len(t) /\ v[i] = At(t, p + i - 1)
    <3>1. p + i - 1 \in 1..Len(t)
      BY <1>1
    <3>2. At(t, p + i - 1) = t[p + i - 1]
      BY <3>1, SymbolAt
    <3> QED BY <1>3, <3>1, <3>2
  <2> QED BY <2>1
<1>5. v # <<>> /\ v[1] \notin Whitespace /\ v[Len(v)] \notin Whitespace
  <2>1. 1 \in 1..(q - p) /\ q - p \in 1..(q - p) /\ p + 1 - 1 = p /\ p + (q - p) - 1 = q - 1
    BY <1>1
  <2>2. v[1] = At(t, p) /\ v[q - p] = At(t, q - 1)
    BY <1>4, <2>1
  <2>3. Len(v) # 0
    BY <1>1, <1>3
  <2> QED BY <1>2, <1>3, <2>2, <2>3, EmptySeq
<1>6. ASSUME NEW u \in Seq(Nat), NEW r \in Nat \ {0}, Stands(v, u, r), At(u, r + Len(v)) \in ScalarStops
      PROVE  SkipJsonValue(u, r) = r + Len(v)
  <2> DEFINE d == r - p
  <2>1. d \in Int /\ p + d = r /\ q + d = r + Len(v)
    <3>1. Len(v) = q - p /\ q \in Nat /\ p \in Nat /\ r \in Nat
      BY <1>1, <1>3
    <3> QED BY <3>1
  <2>2. Copied(t, p, q, u, d)
    <3>1. ASSUME NEW i \in p..(q - 1) PROVE At(u, i + d) = At(t, i)
      <4> DEFINE j == i - p + 1
      <4>1. j \in 1..(q - p) /\ p + j - 1 = i /\ r - 1 + j = i + d /\ i + d \in Nat \ {0}
        BY <1>1
      <4> HIDE DEF j, d
      <4>2. r - 1 + j <= Len(u) /\ u[r - 1 + j] = v[j]
        BY <1>3, <1>6, <4>1 DEF Stands
      <4>3. At(u, i + d) = u[i + d]
        <5>1. i + d \in 1..Len(u)
          BY <4>1, <4>2, LenProperties
        <5> QED BY <5>1, SymbolAt
      <4>4. v[j] = At(t, i)
        BY <1>4, <4>1
      <4> QED BY <4>1, <4>2, <4>3, <4>4
    <3> HIDE DEF d
    <3> QED BY <3>1 DEF Copied
  <2> HIDE DEF d
  <2>3. Ends(u)[p + d]["value"] = q + d
    <3>1. Transfers(t, u, d, p)
      BY <2>1, EndsCopied
    <3>2. At(u, q + d) \in ScalarStops /\ "value" \in Kinds
      BY <1>6, <2>1 DEF Kinds
    <3>3. Ends(t)[p]["value"] = q
      BY DEF q, SkipJsonValue
    <3> QED BY <1>1, <2>2, <3>1, <3>2, <3>3 DEF Transfers
  <2> QED BY <2>1, <2>3 DEF SkipJsonValue
<1>7. ReadWhole(v)
  BY <1>6 DEF ReadWhole
<1>8. v \in Values
  BY <1>3, <1>5, <1>7 DEF Values
<1> QED
  BY <1>8 DEF v, q

\* Trim leaves a value as it is.
LEMMA TrimValue ==
  ASSUME NEW v \in Values
  PROVE  Trim(v) = v
<1> DEFINE n == Len(v)
<1>1. v \in Seq(Nat) /\ v # <<>> /\ v[1] \notin Whitespace /\ v[n] \notin Whitespace
  BY DEF Values
<1>2. n \in Nat \ {0} /\ v[1] \in Nat
  BY <1>1, EmptySeq, LenProperties, ElementOfSeq
<1>3. At(v, 1) = v[1] /\ At(v, n) = v[n]
  BY <1>2 DEF At
<1>4. Skip(v, 1) = 1
  <2>1. \A r \in 1..(1 - 1) : At(v, r) \in Whitespace
    OBVIOUS
  <2> QED BY <1>1, <1>3, <2>1, SkipIs
<1>5. LastKept(v) = n
  <2>1. \A r \in (n + 1)..n : v[r] \in Whitespace
    BY <1>2
  <2>2. ASSUME NEW q \in 0..n, At(v, q) \notin Whitespace, \A r \in (q + 1)..n : v[r] \in Whitespace
        PROVE  q = n
    <3>1. q # n => n \in (q + 1)..n
      BY <1>2
    <3> HIDE DEF n
    <3> QED BY <1>1, <2>2, <3>1
  <2>3. n \in 0..n
    BY <1>2
  <2> HIDE DEF n
  <2>4. n = CHOOSE q \in 0..n : At(v, q) \notin Whitespace /\ \A r \in (q + 1)..n : v[r] \in Whitespace
    BY <1>1, <1>3, <2>1, <2>2, <2>3
  <2> QED BY <2>4 DEF LastKept, n
<1>6. SubSeq(v, 1, n) = v
  BY <1>1, SubSeqFull
<1> QED
  BY <1>4, <1>5, <1>6 DEF Trim

\* What SkipJsonValue does at a symbol that is not whitespace.
LEMMA ValueHere ==
  ASSUME NEW t \in Seq(Nat), NEW p \in Places(t), At(t, p) \notin Whitespace
  PROVE  SkipJsonValue(t, p) = ValueFrom(t, p, Ends(t))
<1>1. p \in Nat \ {0}
  BY DEF Places
<1>2. Skip(t, p) = p
  BY <1>1, SkipIs
<1>3. Ends(t)[p]["value"] = EndOf(t, p, "value", Ends(t))
  BY EndsAdvance DEF Kinds
<1> QED
  BY <1>2, <1>3 DEF EndOf, ValueAt, SkipJsonValue

\* A quoted sequence of units is a value.
LEMMA QuotedIsValue ==
  ASSUME NEW us \in Seq(Units)
  PROVE  Quoted(FlattenSeq(us)) \in Values
<1> DEFINE a == FlattenSeq(us)
           v == Quoted(a)
<1>1. a \in Seq(Nat) /\ Len(a) \in Nat
  BY UnitsTyped, FlattenType, LenProperties
<1> HIDE DEF a
<1>2. v \in Seq(Nat) /\ Len(v) = Len(a) + 2
  BY <1>1, QuotedTyped
<1>3. v[1] = Quote /\ v[Len(v)] = Quote /\ v # <<>>
  <2>1. Stands(v, v, 1)
    BY <1>1, <1>2 DEF Stands
  <2>2. At(v, 1) = Quote /\ At(v, 1 + 1 + Len(a)) = Quote
    BY <1>1, <1>2, <2>1, QuotedStands
  <2> HIDE DEF v
  <2>3. 1 \in 1..Len(v) /\ Len(v) \in 1..Len(v) /\ 1 + 1 + Len(a) = Len(v) /\ Len(v) # 0
    BY <1>1, <1>2
  <2> QED BY <2>2, <2>3, EmptySeq DEF At
<1>4. Quote \notin Whitespace /\ Quote # LBrace /\ Quote # LBracket
  BY DEF Quote, LBrace, LBracket, Whitespace
<1>5. ASSUME NEW t \in Seq(Nat), NEW p \in Nat \ {0}, Stands(v, t, p) PROVE SkipJsonValue(t, p) = p + Len(v)
  <2>1. ParseJsonString(t, p) = [pos |-> p + Len(a) + 2, out |-> FlattenSeq(Texts(us))]
    BY <1>5, StringsAreRead DEF a
  <2>2. At(t, p) = Quote
    BY <1>1, <1>5, QuotedStands
  <2>3. p \in Places(t)
    BY <1>2, <1>3, <1>5, StandsPart
  <2>4. ValueFrom(t, p, Ends(t)) = p + Len(a) + 2
    BY <1>4, <2>1, <2>2 DEF ValueFrom
  <2>5. SkipJsonValue(t, p) = p + Len(a) + 2
    BY <1>4, <2>2, <2>3, <2>4, ValueHere
  <2> HIDE DEF v
  <2> QED BY <1>1, <1>2, <2>5
<1>6. ReadWhole(v)
  BY <1>5 DEF ReadWhole
<1>7. v \in Values
  BY <1>2, <1>3, <1>4, <1>6 DEF Values
<1> QED
  BY <1>7 DEF a

\* A sequence of other symbols is one, as long as none separates.
LEMMA ScalarIsValue ==
  ASSUME NEW v \in Seq(Nat), v # <<>>, v[1] \notin {LBrace, LBracket, Quote},
         \A i \in 1..Len(v) : v[i] \notin ScalarStops
  PROVE  v \in Values
<1>1. Len(v) \in Nat \ {0}
  BY EmptySeq, LenProperties
<1>2. Whitespace \subseteq ScalarStops
  BY DEF ScalarStops
<1>3. v[1] \notin Whitespace /\ v[Len(v)] \notin Whitespace
  <2>1. 1 \in 1..Len(v) /\ Len(v) \in 1..Len(v)
    BY <1>1
  <2> QED BY <1>2, <2>1
<1>4. ASSUME NEW t \in Seq(Nat), NEW p \in Nat \ {0}, Stands(v, t, p), At(t, p + Len(v)) \in ScalarStops
      PROVE  SkipJsonValue(t, p) = p + Len(v)
  <2> DEFINE q == p + Len(v)
  <2>1. p \in Places(t) /\ At(t, p) = v[1] /\ q \in Places(t)
    BY <1>4, StandsPart
  <2>2. q \in Nat /\ p < q
    BY <1>1
  <2>3. \A r \in p..(q - 1) : At(t, r) \notin ScalarStops
    <3>1. ASSUME NEW r \in p..(q - 1) PROVE At(t, r) \notin ScalarStops
      <4> DEFINE i == r - p + 1
      <4>1. i \in 1..Len(v) /\ p - 1 + i = r /\ r \in Nat \ {0}
        BY <1>1
      <4> HIDE DEF i, q
      <4>2. r <= Len(t) /\ t[r] = v[i]
        BY <1>4, <4>1 DEF Stands
      <4>3. At(t, r) = t[r]
        <5>1. r \in 1..Len(t)
          BY <4>1, <4>2, LenProperties
        <5> QED BY <5>1, SymbolAt
      <4> QED BY <4>1, <4>2, <4>3
    <3> QED BY <3>1
  <2>4. At(t, q) \in ScalarStops
    BY <1>4
  <2> HIDE DEF q
  <2>5. First(Separators(t), p, q)
    <3>1. q \in Separators(t)
      BY <2>2, <2>4 DEF Separators
    <3>2. \A r \in p..(q - 1) : r \notin Separators(t)
      BY <2>3 DEF Separators
    <3> QED BY <2>2, <3>1, <3>2 DEF First
  <2>6. Scalar(t, p) = q
    BY <2>2, <2>5, ScalarFirst, FirstUnique
  <2>7. ValueFrom(t, p, Ends(t)) = q
    BY <2>1, <2>2, <2>6 DEF ValueFrom
  <2>8. SkipJsonValue(t, p) = q
    BY <1>3, <2>1, <2>7, ValueHere
  <2> QED BY <2>8 DEF q
<1>5. ReadWhole(v)
  BY <1>4 DEF ReadWhole
<1> QED
  BY <1>3, <1>5 DEF Values

-----------------------------------------------------------------------------
(* Items between commas *)

\* Where the items of a joined text stand.
ItemsAt(at, items, t, p) ==
  /\ at \in [1..Len(items) -> Nat \ {0}] /\ at[1] = p
  /\ at[Len(items)] + Len(items[Len(items)]) = p + Len(Joined(items))
  /\ \A i \in 1..Len(items) : Stands(items[i], t, at[i])
  /\ \A i \in 1..(Len(items) - 1) :
       At(t, at[i] + Len(items[i])) = Comma /\ at[i + 1] = at[i] + Len(items[i]) + 1

\* The pieces a joined text is made of.
Pieces(items) == [i \in 1..Len(items) |-> IF i = 1 THEN items[i] ELSE <<Comma>> \o items[i]]

\* One piece for each item: the item, after a comma unless it is the first.
LEMMA PiecesTyped ==
  ASSUME NEW items \in Seq(Seq(Nat))
  PROVE  /\ Pieces(items) \in Seq(Seq(Nat)) /\ Len(Pieces(items)) = Len(items)
         /\ \A i \in 1..Len(items) : Pieces(items)[i] = IF i = 1 THEN items[i] ELSE <<Comma>> \o items[i]
<1>1. Len(items) \in Nat /\ \A i \in 1..Len(items) : items[i] \in Seq(Nat)
  BY LenProperties, ElementOfSeq
<1>2. \A s \in Seq(Nat) : <<Comma>> \o s \in Seq(Nat)
  <2>1. <<Comma>> \in Seq(Nat)
    BY DEF Comma
  <2> QED BY <2>1, ConcatProperties
<1>3. \A i \in 1..Len(items) : (IF i = 1 THEN items[i] ELSE <<Comma>> \o items[i]) \in Seq(Nat)
  BY <1>1, <1>2
<1>4. Pieces(items) \in [1..Len(items) -> Seq(Nat)]
  BY <1>3 DEF Pieces
<1>5. \A i \in 1..Len(items) : Pieces(items)[i] = IF i = 1 THEN items[i] ELSE <<Comma>> \o items[i]
  BY DEF Pieces
<1>6. Pieces(items) \in Seq(Seq(Nat)) /\ Len(Pieces(items)) = Len(items)
  BY <1>1, <1>4, FunctionIsSeq
<1> QED
  BY <1>5, <1>6

\* The items between commas are their pieces in a row.
LEMMA JoinedTyped ==
  ASSUME NEW items \in Seq(Seq(Nat))
  PROVE  Joined(items) \in Seq(Nat) /\ Joined(items) = FlattenSeq(Pieces(items))
<1>1. Joined(items) = FlattenSeq(Pieces(items))
  BY DEF Joined, Pieces
<1> QED
  BY <1>1, PiecesTyped, FlattenType

\* Where the items between commas stand in a text, each item stands at a place of
\* its own.
LEMMA ItemsStand ==
  ASSUME NEW t \in Seq(Nat), NEW p \in Nat \ {0}, NEW items \in Seq(Seq(Nat)), items # <<>>,
         Stands(Joined(items), t, p)
  PROVE  \E at : ItemsAt(at, items, t, p)
<1> DEFINE n == Len(items)
           ps == Pieces(items)
           flat == Joined(items)
           skip == [i \in 1..n |-> IF i = 1 THEN 0 ELSE 1]
<1>1. /\ ps \in Seq(Seq(Nat)) /\ Len(ps) = n /\ flat \in Seq(Nat) /\ flat = FlattenSeq(ps)
      /\ \A i \in 1..n : ps[i] = IF i = 1 THEN items[i] ELSE <<Comma>> \o items[i]
  BY PiecesTyped, JoinedTyped
<1>2. n \in Nat \ {0} /\ Len(flat) \in Nat
  BY <1>1, EmptySeq, LenProperties
<1>3. \A i \in 1..n : items[i] \in Seq(Nat) /\ Len(items[i]) \in Nat
  BY LenProperties, ElementOfSeq
<1>4. \A i \in 1..n : /\ Len(ps[i]) = skip[i] + Len(items[i])
                      /\ \A j \in 1..Len(items[i]) : ps[i][skip[i] + j] = items[i][j]
                      /\ i # 1 => ps[i][1] = Comma
  <2>1. ASSUME NEW s \in Seq(Nat)
        PROVE  /\ Len(<<Comma>> \o s) = 1 + Len(s)
               /\ \A j \in 1..Len(s) : (<<Comma>> \o s)[1 + j] = s[j]
               /\ (<<Comma>> \o s)[1] = Comma
    <3> DEFINE c == <<Comma>>
    <3>1. c \in Seq(Nat) /\ Len(c) = 1 /\ c[1] = Comma
      BY DEF Comma
    <3> HIDE DEF c
    <3>2. /\ Len(c \o s) = 1 + Len(s)
          /\ \A i \in 1..(Len(c) + Len(s)) : (c \o s)[i] = IF i <= Len(c) THEN c[i] ELSE s[i - Len(c)]
      <4>1. /\ Len(c \o s) = Len(c) + Len(s)
            /\ \A i \in 1..(Len(c) + Len(s)) : (c \o s)[i] = IF i <= Len(c) THEN c[i] ELSE s[i - Len(c)]
        BY Zenon, <3>1, ConcatProperties
      <4> QED BY <3>1, <4>1
    <3>3. Len(s) \in Nat
      BY LenProperties
    <3>4. \A j \in 1..Len(s) : 1 + j \in 1..(Len(c) + Len(s)) /\ ~(1 + j <= Len(c)) /\ (1 + j) - Len(c) = j
      BY <3>1, <3>3
    <3>5. 1 \in 1..(Len(c) + Len(s)) /\ 1 <= Len(c)
      BY <3>1, <3>3
    <3>6. (c \o s)[1] = Comma
      BY <3>1, <3>2, <3>5
    <3>7. \A j \in 1..Len(s) : (c \o s)[1 + j] = s[j]
      BY <3>2, <3>4
    <3> QED BY <3>2, <3>6, <3>7 DEF c
  <2>2. ASSUME NEW i \in 1..n, i = 1
        PROVE  Len(ps[i]) = skip[i] + Len(items[i]) /\ \A j \in 1..Len(items[i]) : ps[i][skip[i] + j] = items[i][j]
    <3>1. ps[i] = items[i] /\ skip[i] = 0
      BY <1>1, <2>2
    <3>2. Len(items[i]) \in Nat
      BY <1>3
    <3> HIDE DEF ps, skip
    <3> QED BY <3>1, <3>2
  <2>3. ASSUME NEW i \in 1..n, i # 1
        PROVE  /\ Len(ps[i]) = skip[i] + Len(items[i]) /\ ps[i][1] = Comma
               /\ \A j \in 1..Len(items[i]) : ps[i][skip[i] + j] = items[i][j]
    <3>1. ps[i] = <<Comma>> \o items[i] /\ skip[i] = 1 /\ items[i] \in Seq(Nat)
      BY <1>1, <1>3, <2>3
    <3> HIDE DEF ps, skip
    <3> QED BY <2>1, <3>1, Zenon
  <2> HIDE DEF ps, skip
  <2> QED BY <2>2, <2>3
<1>5. PICK place : Starting(place, ps, flat)
  BY <1>1, FlattenPlaces
<1> HIDE DEF ps, flat
<1>6. /\ place \in [1..(n + 1) -> Nat \ {0}] /\ place[1] = 1 /\ place[n + 1] = Len(flat) + 1
      /\ \A i \in 1..n : place[i + 1] = place[i] + Len(ps[i])
      /\ \A i \in 1..n : \A j \in 1..Len(ps[i]) :
           place[i] - 1 + j <= Len(flat) /\ flat[place[i] - 1 + j] = ps[i][j]
  BY <1>1, <1>5 DEF Starting
<1> DEFINE at == [i \in 1..n |-> p - 1 + place[i] + skip[i]]
<1>7. \A i \in 1..n : skip[i] \in {0, 1} /\ (i # 1 => skip[i] = 1) /\ (i = 1 => skip[i] = 0)
  OBVIOUS
<1> HIDE DEF skip, n
<1>8. \A i \in 1..n : /\ i \in 1..(n + 1) /\ i + 1 \in 1..(n + 1)
                      /\ place[i] \in Nat \ {0} /\ place[i + 1] \in Nat \ {0}
  BY <1>2, <1>6
<1>9. \A i \in 1..n : at[i] = p - 1 + place[i] + skip[i]
  OBVIOUS
<1>10. at \in [1..n -> Nat \ {0}]
  <2>1. \A x \in Nat \ {0} : \A y \in {0, 1} : p - 1 + x + y \in Nat \ {0}
    OBVIOUS
  <2>2. \A i \in 1..n : p - 1 + place[i] + skip[i] \in Nat \ {0}
    BY <1>7, <1>8, <2>1
  <2> QED BY <2>2
<1> HIDE DEF at
<1>11. \A i \in 1..n : at[i] + Len(items[i]) = p - 1 + place[i + 1]
  <2>1. ASSUME NEW i \in 1..n PROVE at[i] + Len(items[i]) = p - 1 + place[i + 1]
    <3>1. at[i] = p - 1 + place[i] + skip[i] /\ place[i + 1] = place[i] + Len(ps[i]) /\ Len(ps[i]) = skip[i] + Len(items[i])
      BY <1>4, <1>6, <1>9
    <3>2. place[i] \in Nat /\ skip[i] \in Nat /\ Len(items[i]) \in Nat
      BY <1>3, <1>7, <1>8
    <3> QED BY SMTT(20), <3>1, <3>2
  <2> QED BY <2>1
<1>12. ASSUME NEW k \in 1..Len(flat) PROVE p - 1 + k \in 1..Len(t) /\ t[p - 1 + k] = flat[k]
  <2>1. p - 1 + k <= Len(t) /\ t[p - 1 + k] = flat[k]
    BY <1>12 DEF Stands, flat
  <2> QED BY <1>2, <2>1, LenProperties
<1>13. ASSUME NEW i \in 1..n PROVE Stands(items[i], t, at[i])
  <2>1. ASSUME NEW j \in 1..Len(items[i])
        PROVE  at[i] - 1 + j <= Len(t) /\ t[at[i] - 1 + j] = items[i][j]
    <3> DEFINE k == place[i] - 1 + (skip[i] + j)
    <3>1. /\ at[i] = p - 1 + place[i] + skip[i] /\ Len(ps[i]) = skip[i] + Len(items[i])
          /\ ps[i][skip[i] + j] = items[i][j]
      BY <1>4, <1>9
    <3>2. place[i] \in Nat \ {0} /\ skip[i] \in {0, 1} /\ Len(items[i]) \in Nat
      BY <1>3, <1>7, <1>8
    <3>3. skip[i] + j \in 1..Len(ps[i])
      <4>1. \A x \in {0, 1} : \A y \in Nat : \A z \in 1..y : x + z \in 1..(x + y)
        OBVIOUS
      <4> QED BY <3>1, <3>2, <4>1
    <3>4. k <= Len(flat) /\ flat[k] = ps[i][skip[i] + j]
      BY <1>6, <3>3
    <3>5. k \in 1..Len(flat) /\ p - 1 + k = at[i] - 1 + j
      <4> DEFINE x == place[i]
                 y == skip[i]
      <4>1. x \in Nat \ {0} /\ y \in Nat /\ j \in Nat \ {0} /\ k = x - 1 + (y + j)
        BY <3>2
      <4> HIDE DEF x, y, k
      <4>2. k \in Nat \ {0} /\ p - 1 + k = (p - 1 + x + y) - 1 + j
        BY <4>1
      <4>3. k \in Nat \ {0} /\ p - 1 + k = (p - 1 + place[i] + skip[i]) - 1 + j
        BY <4>2 DEF x, y
      <4>4. p - 1 + k = at[i] - 1 + j
        BY <3>1, <4>3
      <4> QED BY <1>2, <3>4, <4>3, <4>4
    <3> HIDE DEF k
    <3>6. at[i] - 1 + j \in 1..Len(t) /\ t[at[i] - 1 + j] = flat[k]
      BY <1>12, <3>5
    <3> QED BY <3>1, <3>4, <3>6, LenProperties
  <2> QED BY <2>1 DEF Stands
<1>14. ASSUME NEW i \in 1..(n - 1)
       PROVE  At(t, at[i] + Len(items[i])) = Comma /\ at[i + 1] = at[i] + Len(items[i]) + 1
  <2>1. i \in 1..n /\ i + 1 \in 1..n /\ i + 1 # 1
    BY <1>2
  <2>2. /\ at[i + 1] = p - 1 + place[i + 1] + 1 /\ at[i] + Len(items[i]) = p - 1 + place[i + 1]
        /\ ps[i + 1][1] = Comma /\ 1 \in 1..Len(ps[i + 1]) /\ place[i + 1] \in Nat \ {0}
    <3>1. skip[i + 1] = 1 /\ Len(items[i + 1]) \in Nat /\ Len(ps[i + 1]) = skip[i + 1] + Len(items[i + 1])
      BY <1>3, <1>4, <1>7, <2>1
    <3>2. 1 \in 1..Len(ps[i + 1])
      BY <3>1
    <3> QED BY <1>4, <1>8, <1>9, <1>11, <2>1, <3>1, <3>2
  <2>3. place[i + 1] - 1 + 1 <= Len(flat) /\ flat[place[i + 1] - 1 + 1] = Comma
    BY <1>6, <2>1, <2>2
  <2>4. place[i + 1] - 1 + 1 = place[i + 1] /\ place[i + 1] \in 1..Len(flat)
    BY SMTT(20), <1>2, <2>2, <2>3
  <2>5. p - 1 + place[i + 1] \in 1..Len(t) /\ t[p - 1 + place[i + 1]] = Comma
    BY <1>12, <2>3, <2>4
  <2>6. At(t, p - 1 + place[i + 1]) = Comma
    BY <2>5 DEF At
  <2> QED BY <2>2, <2>6
<1>15. at[1] = p
  <2>1. 1 \in 1..n
    BY <1>2
  <2>2. skip[1] = 0 /\ place[1] = 1 /\ at[1] = p - 1 + place[1] + skip[1]
    BY <1>6, <1>7, <1>9, <2>1
  <2> QED BY <2>2
<1>16. at[n] + Len(items[n]) = p + Len(flat)
  <2>1. n \in 1..n
    BY <1>2
  <2>2. at[n] + Len(items[n]) = p - 1 + (Len(flat) + 1)
    BY <1>6, <1>11, <2>1
  <2> QED BY <1>2, <2>2
<1>17. ItemsAt(at, items, t, p)
  BY <1>10, <1>13, <1>14, <1>15, <1>16 DEF ItemsAt, n, flat
<1> QED
  BY <1>17

-----------------------------------------------------------------------------
(* Members *)

\* Members as a client writes them: the name in units, the value without blanks.
Members == [name : Seq(Units), raw : Values]
\* The name of a member, as it is read.
MemberName(m) == FlattenSeq(Texts(m.name))
\* A member, as it is written.
MemberText(m) == Quoted(FlattenSeq(m.name)) \o <<Colon>> \o m.raw

\* The parts of a member are texts, and its text is longer than each of them.
LEMMA MemberTyped ==
  ASSUME NEW m \in Members
  PROVE  /\ m.name \in Seq(Units) /\ m.raw \in Values /\ m.raw \in Seq(Nat) /\ m.raw # <<>>
         /\ FlattenSeq(m.name) \in Seq(Nat) /\ MemberName(m) \in Seq(Nat) /\ MemberText(m) \in Seq(Nat)
         /\ Len(MemberText(m)) = Len(FlattenSeq(m.name)) + 3 + Len(m.raw)
         /\ Len(FlattenSeq(m.name)) \in Nat /\ Len(m.raw) \in Nat \ {0}
<1> DEFINE a == FlattenSeq(m.name)
           q == Quoted(a)
           c == <<Colon>>
           r == m.raw
<1>1. m.name \in Seq(Units) /\ r \in Values
  BY DEF Members
<1>2. r \in Seq(Nat) /\ r # <<>>
  BY <1>1 DEF Values
<1>3. a \in Seq(Nat) /\ MemberName(m) \in Seq(Nat)
  BY <1>1, UnitsTyped, FlattenType DEF MemberName
<1>4. c \in Seq(Nat) /\ Len(c) = 1
  BY DEF Colon
<1>5. MemberText(m) = (q \o c) \o r
  BY DEF MemberText
<1> HIDE DEF c, r, a
<1>6. q \in Seq(Nat) /\ Len(q) = Len(a) + 2 /\ Len(a) \in Nat /\ Len(r) \in Nat \ {0}
  BY <1>2, <1>3, QuotedTyped, LenProperties, EmptySeq
<1> HIDE DEF q
<1> DEFINE b == q \o c
<1>7. b \in Seq(Nat) /\ Len(b) = Len(q) + Len(c)
  BY <1>4, <1>6, ConcatProperties
<1> HIDE DEF b
<1>8. b \o r \in Seq(Nat) /\ Len(b \o r) = Len(b) + Len(r)
  BY <1>2, <1>7, ConcatProperties
<1>9. MemberText(m) \in Seq(Nat) /\ Len(MemberText(m)) = Len(a) + 3 + Len(r)
  BY <1>4, <1>5, <1>6, <1>7, <1>8 DEF b
<1> QED
  BY <1>1, <1>2, <1>3, <1>6, <1>9 DEF a, r

\* A member is read where it stands, if a separator follows.
LEMMA MemberHere ==
  ASSUME NEW t \in Seq(Nat), NEW p \in Nat \ {0}, NEW m \in Members, Stands(MemberText(m), t, p),
         At(t, p + Len(MemberText(m))) \in ScalarStops
  PROVE  LET r == MemberAt(t, p, Ends(t)) IN
           /\ p \in Places(t) /\ At(t, p) = Quote /\ Skip(t, p) = p /\ r.name = MemberName(m)
           /\ r.end = p + Len(MemberText(m)) /\ SubSeq(t, r.start, r.end - 1) = m.raw
<1> DEFINE a == FlattenSeq(m.name)
           q == Quoted(a)
           c == <<Colon>>
           v == m.raw
           colon == p + Len(a) + 2
           start == colon + 1
<1>1. /\ m.name \in Seq(Units) /\ v \in Values /\ v \in Seq(Nat) /\ a \in Seq(Nat)
      /\ Len(a) \in Nat /\ Len(v) \in Nat \ {0} /\ Len(MemberText(m)) = Len(a) + 3 + Len(v)
  BY MemberTyped
<1>2. c \in Seq(Nat) /\ Len(c) = 1 /\ c[1] = Colon /\ c # <<>>
  BY DEF Colon
<1>3. Stands((q \o c) \o v, t, p)
  BY DEF MemberText
<1> HIDE DEF c, v, a
<1>4. q \in Seq(Nat) /\ Len(q) = Len(a) + 2
  BY <1>1, QuotedTyped
<1>5. Stands(q, t, p) /\ Stands(c, t, colon) /\ Stands(v, t, start)
  <2> HIDE DEF q
  <2> DEFINE b == q \o c
  <2>0. b \in Seq(Nat) /\ Len(b) = Len(q) + Len(c)
    BY <1>2, <1>4, ConcatProperties
  <2>1. b \in Seq(Nat) /\ Len(b) = Len(a) + 3
    <3> HIDE DEF b
    <3> QED BY <1>1, <1>2, <1>4, <2>0
  <2>2. Stands(q, t, p) /\ Stands(c, t, p + Len(q)) <=> Stands(b, t, p)
    BY <1>2, <1>4, StandsConcat
  <2> HIDE DEF b
  <2>3. Stands(b, t, p) /\ Stands(v, t, p + Len(b))
    BY <1>1, <1>3, <2>1, StandsConcat DEF b
  <2>4. p + Len(q) = colon /\ p + Len(b) = start
    BY <1>1, <1>4, <2>1
  <2> QED BY <2>2, <2>3, <2>4
<1>6. ParseJsonString(t, p) = [pos |-> p + Len(a) + 2, out |-> MemberName(m)]
  BY <1>1, <1>5, StringsAreRead DEF a, MemberName
<1>7. At(t, p) = Quote /\ p \in Places(t)
  <2>1. At(t, p) = Quote
    BY <1>1, <1>5, QuotedStands
  <2>2. Quote # End /\ Len(t) \in Nat
    BY LenProperties DEF Quote, End
  <2>3. p \in 1..Len(t)
    BY <2>1, <2>2, SymbolAt
  <2> QED BY <2>1, <2>2, <2>3 DEF Places
<1>8. Quote \notin Whitespace /\ Colon \notin Whitespace
  BY DEF Quote, Colon, Whitespace
<1>9. Skip(t, p) = p
  BY <1>7, <1>8, SkipIs
<1>10. colon \in Nat \ {0} /\ start \in Nat \ {0} /\ start + Len(v) = p + Len(MemberText(m))
  BY <1>1
<1> HIDE DEF colon
<1>11. At(t, colon) = Colon /\ Skip(t, colon) = colon
  <2>1. At(t, colon) = Colon
    BY <1>2, <1>5, <1>10, StandsPart
  <2> QED BY <1>8, <1>10, <2>1, SkipIs
<1> HIDE DEF start
<1>12. Skip(t, start) = start /\ SkipJsonValue(t, start) = start + Len(v) /\ SubSeq(t, start, start + Len(v) - 1) = v
  BY <1>1, <1>5, <1>10, ValueFound
<1>13. MemberAt(t, p, Ends(t)) = [name |-> MemberName(m), start |-> start, end |-> start + Len(v)]
  <2>1. ParseJsonString(t, p).pos = colon /\ ParseJsonString(t, p).out = MemberName(m)
    BY <1>6 DEF colon
  <2>2. MemberAt(t, p, Ends(t)) = MemberNamed(t, ParseJsonString(t, p), Ends(t))
    BY DEF MemberAt
  <2>3. Skip(t, colon + 1) = start
    BY <1>12 DEF start
  <2> QED BY <1>11, <1>12, <2>1, <2>2, <2>3 DEF MemberNamed, SkipJsonValue
<1> QED
  BY <1>7, <1>9, <1>10, <1>12, <1>13 DEF v

-----------------------------------------------------------------------------
(* The fields of an object *)

\* No object, or values by name.
FieldMaps == {NoObject} \cup UNION {[N -> Values] : N \in SUBSET Seq(Nat)}

\* The fields of an object map the names to the values, and are not NoObject.
LEMMA FieldMapCases ==
  ASSUME NEW fields
  PROVE  /\ fields \in FieldMaps /\ fields # NoObject =>
              DOMAIN fields \subseteq Seq(Nat) /\ fields \in [DOMAIN fields -> Values]
         /\ DOMAIN fields \subseteq Seq(Nat) /\ fields \in [DOMAIN fields -> Values] =>
              fields \in FieldMaps
         /\ DOMAIN fields \subseteq Seq(Nat) => fields # NoObject
<1>1. ASSUME fields \in FieldMaps, fields # NoObject
      PROVE  DOMAIN fields \subseteq Seq(Nat) /\ fields \in [DOMAIN fields -> Values]
  <2>1. PICK N \in SUBSET Seq(Nat) : fields \in [N -> Values]
    BY <1>1 DEF FieldMaps
  <2> QED BY <2>1
<1>2. ASSUME DOMAIN fields \subseteq Seq(Nat), fields \in [DOMAIN fields -> Values]
      PROVE  fields \in FieldMaps
  <2>1. DOMAIN fields \in SUBSET Seq(Nat)
    BY <1>2
  <2> QED BY <1>2, <2>1 DEF FieldMaps
<1>3. ASSUME DOMAIN fields \subseteq Seq(Nat) PROVE fields # NoObject
  <2>1. DOMAIN NoObject = {Absent}
    BY DEF NoObject
  <2>2. Absent \notin Seq(Nat)
    BY AbsentAssumption
  <2> QED BY <1>3, <2>1, <2>2
<1> QED
  BY <1>1, <1>2, <1>3

\* An object without members has fields: none.
LEMMA NoFieldsTyped == NoFields \in FieldMaps /\ NoFields # NoObject /\ DOMAIN NoFields = {}
<1>1. DOMAIN NoFields = {} /\ NoFields \in [{} -> Values]
  BY DEF NoFields
<1> QED
  BY <1>1, FieldMapCases

\* Where the fields after a member are read from.
LEMMA FieldsAfterCases ==
  ASSUME NEW t \in Seq(Nat), NEW p \in Places(t), NEW end \in Beyond(t, p), NEW fields
  PROVE  LET next == Skip(t, end) later == FieldsAfter(t, end, fields) IN
           \/ /\ end # 0 /\ At(t, next) = Comma /\ Skip(t, next + 1) \in (p + 1)..(Len(t) + 1)
              /\ Skip(t, next + 1) \in Places(t) /\ later = fields[Skip(t, next + 1)]
           \/ end # 0 /\ At(t, next) = RBrace /\ later = NoFields
           \/ later = NoObject
<1> DEFINE next == Skip(t, end)
           q == Skip(t, next + 1)
           later == FieldsAfter(t, end, fields)
<1>1. p \in Nat \ {0} /\ Len(t) \in Nat
  BY LenProperties DEF Places
<1>2. Comma # RBrace /\ Comma # End /\ RBrace # End
  BY DEF Comma, RBrace, End
<1>3. end = 0 => At(t, next) = End
  BY SkipZero
<1>4. CASE At(t, next) = Comma
  <2>1. end # 0
    BY <1>2, <1>3, <1>4
  <2>2. end \in Nat \ {0} /\ end > p
    BY <1>1, <2>1 DEF Beyond
  <2>3. next \in Nat \ {0} /\ end <= next
    BY <2>2, SkipTo
  <2>4. later = fields[q]
    BY <1>2, <1>4 DEF FieldsAfter
  <2> HIDE DEF next, later
  <2>5. q \in Places(t) /\ q \in (next + 1)..(Len(t) + 1)
    BY <1>2, <1>4, <2>3, NextPlace
  <2> HIDE DEF q
  <2>6. q \in (p + 1)..(Len(t) + 1)
    BY <1>1, <2>2, <2>3, <2>5
  <2> QED BY <1>4, <2>1, <2>4, <2>5, <2>6 DEF q, next, later
<1>5. CASE At(t, next) = RBrace
  <2>1. end # 0
    BY <1>2, <1>3, <1>5
  <2>2. later = IF AtEnd(t, next + 1) THEN NoFields ELSE NoObject
    BY <1>2, <1>5 DEF FieldsAfter
  <2> QED BY <1>5, <2>1, <2>2
<1>6. CASE At(t, next) \notin {Comma, RBrace}
  <2>1. later = NoObject
    BY <1>6 DEF FieldsAfter
  <2> QED BY <2>1
<1> QED
  BY <1>4, <1>5, <1>6

\* The fields from a member on are values by name, read from later places.
LEMMA MemberFieldsLater ==
  ASSUME NEW t \in Seq(Nat), NEW p \in Places(t), NEW f \in [Places(t) -> FieldMaps], NEW g,
         SameAfter(f, g, t, p)
  PROVE  LET m == MemberAt(t, p, Ends(t)) IN
           MemberFields(t, m, f) = MemberFields(t, m, g) /\ MemberFields(t, m, f) \in FieldMaps
<1> DEFINE m == MemberAt(t, p, Ends(t))
           raw == SubSeq(t, m.start, m.end - 1)
           later == FieldsAfter(t, m.end, f)
<1>1. /\ m.name \in Seq(Nat) /\ m.start \in Nat \ {0} /\ m.end \in Beyond(t, p)
      /\ m.end # 0 => /\ m.start = Skip(t, Skip(t, ParseJsonString(t, p).pos) + 1)
                      /\ m.start \in Places(t) /\ m.end = SkipJsonValue(t, m.start)
  <2>1. SameAfter(Ends(t), Ends(t), t, p) /\ Ends(t) \in AllEnds(t)
    BY EndsAdvance DEF SameAfter
  <2> QED BY <2>1, MemberLater DEF SkipJsonValue
<1>2. m.end # 0 => raw \in Values
  <2>1. ASSUME m.end # 0 PROVE raw \in Values
    <3> DEFINE name == ParseJsonString(t, p)
               colon == Skip(t, name.pos)
    <3>1. name.pos \in Nat /\ p \in Nat \ {0}
      <4>1. p \in Nat \ {0}
        BY DEF Places
      <4>2. name \in Readings
        BY <4>1, StringEnd
      <4> HIDE DEF name
      <4> QED BY <4>1, <4>2 DEF Readings
    <3>2. colon \in Nat
      <4> HIDE DEF name
      <4> QED BY <3>1, SkipTo, SkipZero
    <3> HIDE DEF colon
    <3>3. colon + 1 \in Nat \ {0}
      BY <3>2
    <3>4. At(t, Skip(t, colon + 1)) \notin Whitespace
      BY <3>3, SkipTo
    <3>5. m.start = Skip(t, colon + 1) /\ m.start \in Places(t) /\ m.end = SkipJsonValue(t, m.start)
      BY <1>1, <2>1 DEF colon
    <3> HIDE DEF m
    <3>6. At(t, m.start) \notin Whitespace /\ SkipJsonValue(t, m.start) # 0
      BY <2>1, <3>4, <3>5
    <3>7. SubSeq(t, m.start, SkipJsonValue(t, m.start) - 1) \in Values
      BY <3>5, <3>6, AcceptedIsValue
    <3> QED BY <3>5, <3>7
  <2> QED BY <2>1
<1> HIDE DEF m
<1>3. later = FieldsAfter(t, m.end, g) /\ later \in FieldMaps /\ (later # NoObject => m.end # 0)
  <2> DEFINE q == Skip(t, Skip(t, m.end) + 1)
             other == FieldsAfter(t, m.end, g)
  <2>1. CASE At(t, Skip(t, m.end)) = Comma
    <3>1. Comma # RBrace
      BY DEF Comma, RBrace
    <3>2. later = f[q] /\ other = g[q]
      BY <2>1, <3>1 DEF FieldsAfter
    <3>3. m.end # 0 /\ q \in (p + 1)..(Len(t) + 1) /\ q \in Places(t)
      <4>1. NoFields # NoObject
        BY NoFieldsTyped
      <4>2. m.end = 0 => At(t, Skip(t, m.end)) = End
        BY SkipZero
      <4>3. m.end # 0
        BY <2>1, <4>2 DEF Comma, End
      <4>4. m.end \in Nat \ {0} /\ m.end > p /\ p \in Nat /\ Len(t) \in Nat
        BY <1>1, <4>3, LenProperties DEF Beyond, Places
      <4>5. Skip(t, m.end) \in Nat \ {0} /\ m.end <= Skip(t, m.end)
        BY <4>4, SkipTo
      <4>6. q \in Places(t) /\ q \in (Skip(t, m.end) + 1)..(Len(t) + 1)
        <5>1. Comma # End
          BY DEF Comma, End
        <5> QED BY <2>1, <4>5, <5>1, NextPlace
      <4> HIDE DEF q
      <4>7. q \in (p + 1)..(Len(t) + 1)
        BY <4>4, <4>5, <4>6
      <4> QED BY <4>3, <4>6, <4>7
    <3> HIDE DEF later, other, q
    <3>4. f[q] = g[q] /\ f[q] \in FieldMaps
      BY <3>3 DEF SameAfter
    <3> QED BY <3>2, <3>3, <3>4 DEF other
  <2>2. CASE At(t, Skip(t, m.end)) # Comma
    <3>1. later = other
      BY <2>2 DEF FieldsAfter
    <3>2. \/ m.end # 0 /\ later = NoFields
          \/ later = NoObject
      BY <1>1, <2>2, FieldsAfterCases
    <3> HIDE DEF later, other
    <3>3. NoFields \in FieldMaps /\ NoObject \in FieldMaps
      BY NoFieldsTyped DEF FieldMaps
    <3> QED BY <3>1, <3>2, <3>3 DEF other
  <2> QED BY <2>1, <2>2
<1> HIDE DEF later
<1>4. \A h : FieldsAfter(t, m.end, h) = later =>
        MemberFields(t, m, h) = IF later = NoObject THEN NoObject ELSE InsertOrAssign(m.name, raw, later)
  BY DEF MemberFields
<1>5. MemberFields(t, m, f) = MemberFields(t, m, g)
  <2>1. FieldsAfter(t, m.end, f) = later /\ FieldsAfter(t, m.end, g) = later
    BY <1>3 DEF later
  <2> HIDE DEF raw
  <2> QED BY <1>4, <2>1
<1>6. MemberFields(t, m, f) = IF later = NoObject THEN NoObject ELSE InsertOrAssign(m.name, raw, later)
  BY <1>4 DEF later
<1> HIDE DEF raw
<1>7. later # NoObject => InsertOrAssign(m.name, raw, later) \in FieldMaps
  <2>1. ASSUME later # NoObject PROVE InsertOrAssign(m.name, raw, later) \in FieldMaps
    <3> DEFINE N == {m.name} \cup DOMAIN later
               h == InsertOrAssign(m.name, raw, later)
    <3>1. raw \in Values /\ m.name \in Seq(Nat)
      BY <1>1, <1>2, <1>3, <2>1
    <3>2. DOMAIN later \subseteq Seq(Nat) /\ later \in [DOMAIN later -> Values]
      BY <1>3, <2>1, FieldMapCases
    <3>3. h = [n \in N |-> IF n \in DOMAIN later THEN later[n] ELSE raw]
      BY DEF InsertOrAssign
    <3>4. \A n \in N : (IF n \in DOMAIN later THEN later[n] ELSE raw) \in Values
      BY <3>1, <3>2
    <3>5. N \subseteq Seq(Nat)
      BY <3>1, <3>2
    <3> HIDE DEF N, h
    <3>6. h \in [N -> Values] /\ DOMAIN h = N
      BY <3>3, <3>4
    <3> QED BY <3>5, <3>6, FieldMapCases DEF h
  <2> QED BY <2>1
<1>8. MemberFields(t, m, f) \in FieldMaps
  <2>1. NoObject \in FieldMaps
    BY DEF FieldMaps
  <2> QED BY <1>6, <1>7, <2>1
<1> QED
  BY <1>5, <1>8 DEF m

\* FieldsFrom satisfies its defining equation, and what it gives are values by name.
THEOREM FieldsAreValues ==
  ASSUME NEW t \in Seq(Nat)
  PROVE  /\ FieldsFrom(t) \in [Places(t) -> FieldMaps]
         /\ \A p \in Places(t) : FieldsFrom(t)[p] = MemberFields(t, MemberAt(t, p, Ends(t)), FieldsFrom(t))
<1> DEFINE P == Places(t)
           F == [P -> FieldMaps]
           At1(p, f) == MemberFields(t, MemberAt(t, p, Ends(t)), f)
           step == [p \in P |-> [f \in F |-> At1(p, f)]]
           Def(h) == h = [p \in P |-> At1(p, h)]
           none == [p \in P |-> NoFields]
<1>1. none \in F
  BY NoFieldsTyped
<1>2. ASSUME NEW p \in P, NEW f \in F, NEW g, SameAfter(f, g, t, p)
      PROVE  At1(p, f) = At1(p, g) /\ At1(p, f) \in FieldMaps
  BY <1>2, MemberFieldsLater
<1>3. \A p \in P : \A f \in F : step[p][f] = At1(p, f)
  OBVIOUS
<1> HIDE DEF step, At1, none
<1>4. \A f \in F : \E g \in F : \A p \in P : g[p] = step[p][f]
  <2>1. ASSUME NEW f \in F PROVE \E g \in F : \A p \in P : g[p] = step[p][f]
    <3> DEFINE g == [p \in P |-> step[p][f]]
    <3>1. \A p \in P : step[p][f] \in FieldMaps
      <4>1. \A p \in P : SameAfter(f, f, t, p)
        BY DEF SameAfter
      <4> QED BY <1>2, <1>3, <4>1
    <3>2. g \in F
      BY <3>1
    <3>3. \A p \in P : g[p] = step[p][f]
      OBVIOUS
    <3> HIDE DEF g
    <3> QED BY <3>2, <3>3
  <2> QED BY <2>1
<1>5. PICK f \in F : \A p \in P : f[p] = step[p][f]
  <2> DEFINE m == Len(t)
             rank == PlaceRank(t)
  <2>1. \A i \in P : \A f, g \in F : Agree(f, g, P, rank, i) => step[i][f] = step[i][g]
    <3>1. ASSUME NEW i \in P, NEW f \in F, NEW g \in F, Agree(f, g, P, rank, i)
          PROVE  step[i][f] = step[i][g]
      <4>1. SameAfter(f, g, t, i)
        BY <3>1, LowerIsLater
      <4> QED BY <1>2, <1>3, <4>1
    <3> QED BY <3>1
  <2>2. m \in Nat /\ rank \in [P -> 0..m]
    BY PlaceRankTyped
  <2> HIDE DEF P, F, m, rank, Def
  <2>3. WellRanked(step, F, P, rank)
    BY <1>4, <2>1 DEF WellRanked
  <2>4. \E f \in F : Solves(f, step, P)
    BY <1>1, <2>2, <2>3, RankedRecursion
  <2> QED BY <2>4 DEF Solves
<1>6. Def(f)
  <2>1. f = [p \in P |-> f[p]]
    OBVIOUS
  <2>2. \A p \in P : f[p] = At1(p, f)
    BY <1>3, <1>5
  <2> QED BY <2>1, <2>2
<1> DEFINE read == CHOOSE h : Def(h)
<1>7. FieldsFrom(t) = read
  BY DEF FieldsFrom, Places, At1
<1>8. Def(read)
  <2> HIDE DEF Def
  <2> QED BY <1>6
<1> HIDE DEF read
<1>9. \A p \in P : f[p] = read[p]
  <2> DEFINE m == Len(t)
             rank == PlaceRank(t)
  <2>1. \A i \in P : Agree(f, read, P, rank, i) => f[i] = read[i]
    <3>1. ASSUME NEW p \in P, Agree(f, read, P, rank, p) PROVE f[p] = read[p]
      <4>1. At1(p, f) = At1(p, read)
        BY <1>2, <3>1, LowerIsLater
      <4>2. read[p] = At1(p, read)
        BY <1>8
      <4> QED BY <1>3, <1>5, <4>1, <4>2
    <3> QED BY <3>1
  <2>2. m \in Nat /\ rank \in [P -> 0..m]
    BY PlaceRankTyped
  <2> HIDE DEF P, F, m, rank, Def
  <2> QED BY <2>1, <2>2, RankedUnique
<1>10. f = read
  <2>1. f = [p \in P |-> f[p]]
    OBVIOUS
  <2>2. read = [p \in P |-> read[p]]
    BY <1>8
  <2> QED BY <1>9, <2>1, <2>2
<1>11. \A p \in P : read[p] = At1(p, read)
  BY <1>8
<1> QED
  BY <1>7, <1>10, <1>11 DEF At1

-----------------------------------------------------------------------------
(* Objects and arrays of values *)

\* A text between two symbols.
LEMMA EnclosedStands ==
  ASSUME NEW t \in Seq(Nat), NEW p \in Nat \ {0}, NEW s \in Seq(Nat), NEW a \in Nat, NEW b \in Nat
  PROVE  LET v == <<a>> \o s \o <<b>> IN
           /\ v \in Seq(Nat) /\ Len(v) = Len(s) + 2 /\ Len(s) \in Nat
           /\ Stands(v, t, p) <=> At(t, p) = a /\ Stands(s, t, p + 1) /\ At(t, p + 1 + Len(s)) = b
<1> DEFINE x == <<a>>
           y == <<b>>
           xs == x \o s
<1>1. x \in Seq(Nat) /\ y \in Seq(Nat) /\ Len(x) = 1 /\ Len(y) = 1 /\ x[1] = a /\ y[1] = b
  OBVIOUS
<1>2. ASSUME NEW c \in Nat, NEW z \in Seq(Nat), Len(z) = 1, z[1] = c, NEW q \in Nat \ {0}
      PROVE  Stands(z, t, q) <=> At(t, q) = c
  <2>1. Stands(z, t, q) <=> q <= Len(t) /\ t[q] = c
    <3>1. q - 1 + 1 = q /\ 1..Len(z) = {1}
      BY <1>2
    <3> QED BY <1>2, <3>1 DEF Stands
  <2>2. q <= Len(t) <=> q \in 1..Len(t)
    BY LenProperties
  <2>3. c # End
    BY DEF End
  <2> QED BY <2>1, <2>2, <2>3 DEF At
<1> HIDE DEF x, y
<1>3. xs \in Seq(Nat) /\ Len(xs) = 1 + Len(s) /\ Len(s) \in Nat
  <2>1. Len(s) \in Nat
    BY LenProperties
  <2>2. xs \in Seq(Nat) /\ Len(xs) = Len(x) + Len(s)
    BY <1>1, ConcatProperties
  <2> QED BY <1>1, <2>1, <2>2
<1>4. Stands(xs, t, p) <=> At(t, p) = a /\ Stands(s, t, p + 1)
  BY <1>1, <1>2, StandsConcat
<1> HIDE DEF xs
<1>5. xs \o y \in Seq(Nat) /\ Len(xs \o y) = Len(s) + 2
  <2>1. xs \o y \in Seq(Nat) /\ Len(xs \o y) = Len(xs) + Len(y)
    BY <1>1, <1>3, ConcatProperties
  <2> QED BY <1>1, <1>3, <2>1
<1>6. Stands(xs \o y, t, p) <=> Stands(xs, t, p) /\ Stands(y, t, p + Len(xs))
  BY <1>1, <1>3, StandsConcat
<1>7. p + Len(xs) = p + 1 + Len(s) /\ p + 1 + Len(s) \in Nat \ {0}
  BY <1>3
<1>8. Stands(y, t, p + 1 + Len(s)) <=> At(t, p + 1 + Len(s)) = b
  BY <1>1, <1>2, <1>7
<1>9. Stands(xs \o y, t, p) <=> At(t, p) = a /\ Stands(s, t, p + 1) /\ At(t, p + 1 + Len(s)) = b
  BY <1>4, <1>6, <1>7, <1>8
<1> QED
  BY <1>3, <1>5, <1>9 DEF x, y, xs

\* Nothing joined is nothing.
LEMMA JoinedNothing == Joined(<<>>) = <<>>
<1>1. Pieces(<<>>) = <<>>
  BY PiecesTyped, EmptySeq
<1>2. Joined(<<>>) = FlattenSeq(Pieces(<<>>))
  BY JoinedTyped, EmptySeq
<1> QED
  BY <1>1, <1>2, FlattenEmpty

\* What follows an item of a joined text.
LEMMA ItemFollowed ==
  ASSUME NEW t \in Seq(Nat), NEW p \in Nat \ {0}, NEW items \in Seq(Seq(Nat)), NEW at,
         ItemsAt(at, items, t, p), NEW close \in {RBrace, RBracket},
         At(t, p + Len(Joined(items))) = close, NEW i \in 1..Len(items)
  PROVE  LET end == at[i] + Len(items[i]) IN
           /\ at[i] \in Nat \ {0} /\ end \in Nat \ {0} /\ at[i] <= end /\ Stands(items[i], t, at[i])
           /\ At(t, end) \in ScalarStops /\ Skip(t, end) = end
           /\ i < Len(items) => i + 1 \in 1..Len(items) /\ At(t, end) = Comma /\ at[i + 1] = end + 1
           /\ ~(i < Len(items)) => At(t, end) = close /\ end = p + Len(Joined(items))
<1> DEFINE n == Len(items)
           end == at[i] + Len(items[i])
<1>1. n \in Nat /\ Len(items[i]) \in Nat
  BY LenProperties, ElementOfSeq
<1>2. at[i] \in Nat \ {0} /\ Stands(items[i], t, at[i])
  BY DEF ItemsAt
<1>3. end \in Nat \ {0} /\ at[i] <= end
  BY <1>1, <1>2
<1>4. i < n => i + 1 \in 1..n /\ i \in 1..(n - 1)
  BY <1>1
<1>5. i < n => At(t, end) = Comma /\ at[i + 1] = end + 1
  BY <1>4 DEF ItemsAt
<1>6. ~(i < n) => At(t, end) = close /\ end = p + Len(Joined(items))
  <2>1. ~(i < n) => i = n
    BY <1>1
  <2> QED BY <2>1 DEF ItemsAt
<1>7. {Comma, RBrace, RBracket} \subseteq ScalarStops /\ {Comma, RBrace, RBracket} \cap Whitespace = {}
  BY DEF ScalarStops, Whitespace, Comma, RBrace, RBracket
<1> HIDE DEF end
<1>8. At(t, end) \in ScalarStops /\ At(t, end) \notin Whitespace
  BY <1>5, <1>6, <1>7
<1>9. Skip(t, end) = end
  BY <1>3, <1>8, SkipIs
<1> QED
  BY <1>2, <1>3, <1>4, <1>5, <1>6, <1>8, <1>9 DEF end

\* The members of an object, as they are written.
MemberTexts(ms) == [i \in 1..Len(ms) |-> MemberText(ms[i])]

\* One text for each member.
LEMMA MemberTextsTyped ==
  ASSUME NEW ms \in Seq(Members)
  PROVE  /\ MemberTexts(ms) \in Seq(Seq(Nat)) /\ Len(MemberTexts(ms)) = Len(ms) /\ Len(ms) \in Nat
         /\ \A i \in 1..Len(ms) : MemberTexts(ms)[i] = MemberText(ms[i]) /\ ms[i] \in Members
<1>1. Len(ms) \in Nat /\ \A i \in 1..Len(ms) : ms[i] \in Members
  BY LenProperties, ElementOfSeq
<1>2. \A i \in 1..Len(ms) : MemberText(ms[i]) \in Seq(Nat)
  BY <1>1, MemberTyped
<1>3. MemberTexts(ms) \in [1..Len(ms) -> Seq(Nat)]
  BY <1>2 DEF MemberTexts
<1>4. MemberTexts(ms) \in Seq(Seq(Nat)) /\ Len(MemberTexts(ms)) = Len(ms)
  BY <1>1, <1>3, FunctionIsSeq
<1>5. \A i \in 1..Len(ms) : MemberTexts(ms)[i] = MemberText(ms[i])
  BY DEF MemberTexts
<1> QED
  BY <1>1, <1>4, <1>5

\* The members of an object that stands in a text, each at its place.
LEMMA MembersHere ==
  ASSUME NEW t \in Seq(Nat), NEW p \in Nat \ {0}, NEW ms \in Seq(Members), NEW at,
         ItemsAt(at, MemberTexts(ms), t, p),
         At(t, p + Len(Joined(MemberTexts(ms)))) = RBrace, NEW i \in 1..Len(ms)
  PROVE  LET m == MemberAt(t, at[i], Ends(t)) IN
           /\ at[i] \in Places(t) /\ At(t, at[i]) = Quote /\ Skip(t, at[i]) = at[i]
           /\ m.name = MemberName(ms[i])
           /\ SubSeq(t, m.start, m.end - 1) = ms[i].raw
           /\ m.end \in Nat \ {0} /\ at[i] <= m.end /\ Skip(t, m.end) = m.end
           /\ i < Len(ms) => i + 1 \in 1..Len(ms) /\ At(t, m.end) = Comma /\ at[i + 1] = m.end + 1
           /\ ~(i < Len(ms)) => At(t, m.end) = RBrace /\ m.end = p + Len(Joined(MemberTexts(ms)))
<1> DEFINE items == MemberTexts(ms)
           end == at[i] + Len(items[i])
           m == MemberAt(t, at[i], Ends(t))
<1>1. items \in Seq(Seq(Nat)) /\ Len(items) = Len(ms) /\ items[i] = MemberText(ms[i]) /\ ms[i] \in Members
  BY MemberTextsTyped
<1> HIDE DEF items
<1>2. /\ at[i] \in Nat \ {0} /\ end \in Nat \ {0} /\ at[i] <= end /\ Stands(items[i], t, at[i])
      /\ At(t, end) \in ScalarStops /\ Skip(t, end) = end
      /\ i < Len(ms) => i + 1 \in 1..Len(ms) /\ At(t, end) = Comma /\ at[i + 1] = end + 1
      /\ ~(i < Len(ms)) => At(t, end) = RBrace /\ end = p + Len(Joined(items))
  <2>1. ItemsAt(at, items, t, p) /\ At(t, p + Len(Joined(items))) = RBrace /\ i \in 1..Len(items)
    BY <1>1 DEF items
  <2> QED BY SMTT(20), <1>1, <2>1, ItemFollowed
<1>3. /\ at[i] \in Places(t) /\ At(t, at[i]) = Quote /\ Skip(t, at[i]) = at[i] /\ m.name = MemberName(ms[i])
      /\ m.end = end /\ SubSeq(t, m.start, m.end - 1) = ms[i].raw
  <2> DEFINE r == at[i]
             w == ms[i]
  <2>1. /\ r \in Nat \ {0} /\ w \in Members /\ Stands(MemberText(w), t, r)
        /\ At(t, r + Len(MemberText(w))) \in ScalarStops /\ end = r + Len(MemberText(w))
    BY <1>1, <1>2
  <2> HIDE DEF r, w, end
  <2> DEFINE v == MemberAt(t, r, Ends(t))
  <2>2. /\ r \in Places(t) /\ At(t, r) = Quote /\ Skip(t, r) = r /\ v.name = MemberName(w)
        /\ v.end = r + Len(MemberText(w)) /\ SubSeq(t, v.start, v.end - 1) = w.raw
    BY <2>1, MemberHere
  <2> HIDE DEF v
  <2> QED BY <2>1, <2>2 DEF v, r, w
<1> HIDE DEF end, m
<1> QED
  BY <1>2, <1>3 DEF m, items

\* From every member of an object on, the members end behind the closing brace.
LEMMA MembersEnd ==
  ASSUME NEW t \in Seq(Nat), NEW p \in Nat \ {0}, NEW ms \in Seq(Members), NEW at,
         ItemsAt(at, MemberTexts(ms), t, p),
         At(t, p + Len(Joined(MemberTexts(ms)))) = RBrace, NEW i \in 1..Len(ms)
  PROVE  Ends(t)[at[i]]["members"] = p + Len(Joined(MemberTexts(ms))) + 1
<1> DEFINE q == p + Len(Joined(MemberTexts(ms)))
           n == Len(ms)
           Ended(r) == \A j \in 1..n : at[j] = r => Ends(t)[r]["members"] = q + 1
           T == {r \in Places(t) : Ended(r)}
<1>1. n \in Nat /\ Len(t) \in Nat /\ \A r \in Places(t) : r \in 1..(Len(t) + 1)
  BY LenProperties DEF Places
<1>2. ASSUME NEW r \in Places(t), \A s \in (r + 1)..(Len(t) + 1) : s \in T, NEW j \in 1..n, at[j] = r
      PROVE  Ends(t)[r]["members"] = q + 1
  <2> DEFINE m == MemberAt(t, r, Ends(t))
             end == m.end
  <2>1. /\ end \in Nat \ {0} /\ r <= end /\ Skip(t, end) = end
        /\ j < n => j + 1 \in 1..n /\ At(t, end) = Comma /\ at[j + 1] = end + 1
        /\ ~(j < n) => At(t, end) = RBrace /\ end = q
    BY <1>2, MembersHere
  <2>2. Ends(t)[r]["members"] = More(t, end, "members", RBrace, Ends(t))
    <3>1. Ends(t)[r]["members"] = EndOf(t, r, "members", Ends(t))
      BY EndsAdvance DEF Kinds
    <3> QED BY <3>1 DEF EndOf
  <2>3. Comma # RBrace
    BY DEF Comma, RBrace
  <2> HIDE DEF end, q
  <2>4. CASE j < n
    <3>1. More(t, end, "members", RBrace, Ends(t)) = Ends(t)[Skip(t, end + 1)]["members"]
      BY <2>1, <2>3, <2>4 DEF More
    <3>2. j + 1 \in 1..n /\ Skip(t, at[j + 1]) = at[j + 1] /\ at[j + 1] \in Places(t) /\ at[j + 1] = end + 1
      BY <2>1, <2>4, MembersHere
    <3>3. at[j + 1] \in (r + 1)..(Len(t) + 1)
      <4>1. at[j + 1] \in 1..(Len(t) + 1) /\ r \in Nat
        BY <1>1, <3>2
      <4> QED BY <1>1, <2>1, <3>2, <4>1
    <3>4. Ends(t)[at[j + 1]]["members"] = q + 1
      <4>1. at[j + 1] \in T
        BY <1>2, <3>3
      <4> QED BY <3>2, <4>1
    <3> QED BY <2>2, <3>1, <3>2, <3>4
  <2>5. CASE ~(j < n)
    <3>1. More(t, end, "members", RBrace, Ends(t)) = end + 1
      BY <2>1, <2>3, <2>5 DEF More
    <3> QED BY <2>1, <2>2, <2>5, <3>1
  <2> QED BY <2>4, <2>5
<1>3. \A r \in Places(t) : (\A s \in (r + 1)..(Len(t) + 1) : s \in T) => r \in T
  BY <1>2
<1>4. at[i] \in Places(t)
  BY MembersHere
<1>5. T = {r \in Places(t) : Ended(r)}
  OBVIOUS
<1> HIDE DEF T, Ended
<1>6. at[i] \in T
  BY <1>3, <1>4, PlacesInduction
<1>7. Ended(at[i])
  BY <1>5, <1>6
<1> QED
  BY <1>7 DEF Ended

\* The same of the elements of an array.
LEMMA ElementsEnd ==
  ASSUME NEW t \in Seq(Nat), NEW p \in Nat \ {0}, NEW vs \in Seq(Values), NEW at,
         ItemsAt(at, vs, t, p), At(t, p + Len(Joined(vs))) = RBracket, NEW i \in 1..Len(vs)
  PROVE  Ends(t)[at[i]]["elements"] = p + Len(Joined(vs)) + 1
<1> DEFINE q == p + Len(Joined(vs))
           n == Len(vs)
           Ended(r) == \A j \in 1..n : at[j] = r => Ends(t)[r]["elements"] = q + 1
           T == {r \in Places(t) : Ended(r)}
<1>1. n \in Nat /\ Len(t) \in Nat /\ \A r \in Places(t) : r \in 1..(Len(t) + 1)
  BY LenProperties DEF Places
<1>2. vs \in Seq(Seq(Nat)) /\ \A j \in 1..n : vs[j] \in Values
  <2>1. Values \subseteq Seq(Nat)
    BY DEF Values
  <2> QED BY <2>1, ElementOfSeq, SeqMonotonic
<1>3. ASSUME NEW j \in 1..n
      PROVE  LET end == at[j] + Len(vs[j]) IN
               /\ at[j] \in Places(t) /\ Skip(t, at[j]) = at[j] /\ end \in Nat \ {0} /\ at[j] <= end
               /\ ValueAt(t, at[j], Ends(t)) = end /\ Skip(t, end) = end
               /\ j < n => j + 1 \in 1..n /\ At(t, end) = Comma /\ at[j + 1] = end + 1
               /\ ~(j < n) => At(t, end) = RBracket /\ end = q
  <2> DEFINE r == at[j]
             w == vs[j]
             end == r + Len(w)
  <2>1. /\ r \in Nat \ {0} /\ end \in Nat \ {0} /\ r <= end /\ Stands(w, t, r)
        /\ At(t, end) \in ScalarStops /\ Skip(t, end) = end
        /\ j < n => j + 1 \in 1..n /\ At(t, end) = Comma /\ at[j + 1] = end + 1
        /\ ~(j < n) => At(t, end) = RBracket /\ end = q
    BY <1>2, ItemFollowed
  <2>2. w \in Values
    BY <1>2
  <2>3. At(t, r + Len(w)) \in ScalarStops
    BY <2>1
  <2>4. r \in Places(t) /\ Skip(t, r) = r /\ SkipJsonValue(t, r) = end
    <3>1. r \in Nat \ {0} /\ Stands(w, t, r)
      BY <2>1
    <3> HIDE DEF r, w
    <3> QED BY <2>2, <2>3, <3>1, ValueFound
  <2>5. ValueAt(t, r, Ends(t)) = end
    <3>1. Ends(t)[r]["value"] = EndOf(t, r, "value", Ends(t))
      BY <2>4, EndsAdvance DEF Kinds
    <3> QED BY <2>4, <3>1 DEF EndOf, SkipJsonValue
  <2> QED BY <2>1, <2>4, <2>5
<1>4. ASSUME NEW r \in Places(t), \A s \in (r + 1)..(Len(t) + 1) : s \in T, NEW j \in 1..n, at[j] = r
      PROVE  Ends(t)[r]["elements"] = q + 1
  <2> DEFINE end == ValueAt(t, r, Ends(t))
  <2>1. /\ end \in Nat \ {0} /\ r <= end /\ Skip(t, end) = end
        /\ j < n => j + 1 \in 1..n /\ At(t, end) = Comma /\ at[j + 1] = end + 1
        /\ ~(j < n) => At(t, end) = RBracket /\ end = q
    BY <1>3, <1>4
  <2>2. Ends(t)[r]["elements"] = More(t, end, "elements", RBracket, Ends(t))
    <3>1. Ends(t)[r]["elements"] = EndOf(t, r, "elements", Ends(t))
      BY EndsAdvance DEF Kinds
    <3> QED BY <3>1 DEF EndOf
  <2>3. Comma # RBracket
    BY DEF Comma, RBracket
  <2> HIDE DEF end, q
  <2>4. CASE j < n
    <3>1. More(t, end, "elements", RBracket, Ends(t)) = Ends(t)[Skip(t, end + 1)]["elements"]
      BY <2>1, <2>3, <2>4 DEF More
    <3>2. j + 1 \in 1..n /\ Skip(t, at[j + 1]) = at[j + 1] /\ at[j + 1] \in Places(t) /\ at[j + 1] = end + 1
      BY <1>3, <2>1, <2>4
    <3>3. at[j + 1] \in (r + 1)..(Len(t) + 1)
      <4>1. at[j + 1] \in 1..(Len(t) + 1) /\ r \in Nat
        BY <1>1, <3>2
      <4> QED BY <1>1, <2>1, <3>2, <4>1
    <3>4. Ends(t)[at[j + 1]]["elements"] = q + 1
      <4>1. at[j + 1] \in T
        BY <1>4, <3>3
      <4> QED BY <3>2, <4>1
    <3> QED BY <2>2, <3>1, <3>2, <3>4
  <2>5. CASE ~(j < n)
    <3>1. More(t, end, "elements", RBracket, Ends(t)) = end + 1
      BY <2>1, <2>3, <2>5 DEF More
    <3> QED BY <2>1, <2>2, <2>5, <3>1
  <2> QED BY <2>4, <2>5
<1>5. \A r \in Places(t) : (\A s \in (r + 1)..(Len(t) + 1) : s \in T) => r \in T
  BY <1>4
<1>6. at[i] \in Places(t)
  BY <1>3
<1>7. T = {r \in Places(t) : Ended(r)}
  OBVIOUS
<1> HIDE DEF T, Ended
<1>8. at[i] \in T
  BY <1>5, <1>6, PlacesInduction
<1>9. Ended(at[i])
  BY <1>7, <1>8
<1> QED
  BY <1>9 DEF Ended

\* What an open symbol begins is read to the symbol that closes it.
ReadToClose(open, s, close) ==
  \A t \in Seq(Nat) : \A p \in Nat \ {0} :
    p \in Places(t) /\ At(t, p) = open /\ Stands(s, t, p + 1) /\ At(t, p + 1 + Len(s)) = close
      => ValueFrom(t, p, Ends(t)) = p + Len(s) + 2

\* A text between braces or brackets that is read to its closing symbol is a value.
LEMMA EnclosedIsValue ==
  ASSUME NEW s \in Seq(Nat), NEW open \in Nat, NEW close \in {RBrace, RBracket}, open \notin Whitespace,
         ReadToClose(open, s, close)
  PROVE  <<open>> \o s \o <<close>> \in Values
<1> DEFINE v == <<open>> \o s \o <<close>>
<1>0. close \in Nat /\ close \notin Whitespace
  BY DEF RBrace, RBracket, Whitespace
<1>1. v \in Seq(Nat) /\ Len(v) = Len(s) + 2 /\ Len(s) \in Nat
  BY <1>0, EnclosedStands
<1>2. ASSUME NEW t \in Seq(Nat), NEW p \in Nat \ {0}, Stands(v, t, p)
      PROVE  At(t, p) = open /\ Stands(s, t, p + 1) /\ At(t, p + 1 + Len(s)) = close
  BY <1>0, <1>2, EnclosedStands
<1> HIDE DEF v
<1>3. v[1] = open /\ v[Len(v)] = close /\ v # <<>>
  <2>1. Stands(v, v, 1)
    BY <1>1 DEF Stands
  <2>2. At(v, 1) = open /\ At(v, 1 + 1 + Len(s)) = close
    BY <1>1, <1>2, <2>1
  <2>3. 1 \in 1..Len(v) /\ Len(v) \in 1..Len(v) /\ 1 + 1 + Len(s) = Len(v) /\ Len(v) # 0
    BY <1>1
  <2> QED BY <2>2, <2>3, EmptySeq DEF At
<1>4. ASSUME NEW t \in Seq(Nat), NEW p \in Nat \ {0}, Stands(v, t, p) PROVE SkipJsonValue(t, p) = p + Len(v)
  <2>1. p \in Places(t)
    BY <1>1, <1>3, <1>4, StandsPart
  <2>2. At(t, p) = open /\ Stands(s, t, p + 1) /\ At(t, p + 1 + Len(s)) = close
    BY <1>2, <1>4
  <2>3. ValueFrom(t, p, Ends(t)) = p + Len(s) + 2
    BY <2>1, <2>2 DEF ReadToClose
  <2>4. SkipJsonValue(t, p) = p + Len(s) + 2
    BY <2>1, <2>2, <2>3, ValueHere
  <2> QED BY <1>1, <2>4
<1>5. ReadWhole(v)
  BY <1>4 DEF ReadWhole
<1>6. v \in Values
  BY <1>0, <1>1, <1>3, <1>5 DEF Values
<1> QED
  BY <1>6 DEF v

\* An object of members, and an array of values, are values.
LEMMA ObjectIsValue ==
  ASSUME NEW ms \in Seq(Members)
  PROVE  Object(MemberTexts(ms)) \in Values
<1> DEFINE items == MemberTexts(ms)
           s == Joined(items)
<1>1. items \in Seq(Seq(Nat)) /\ Len(items) = Len(ms) /\ Len(ms) \in Nat
  BY MemberTextsTyped
<1>2. s \in Seq(Nat)
  BY <1>1, JoinedTyped
<1>3. /\ LBrace \in Nat /\ LBrace \notin Whitespace /\ RBrace \in {RBrace, RBracket} /\ RBrace \notin Whitespace
      /\ LBrace # End /\ LBrace # LBracket /\ LBrace # Quote
  BY DEF LBrace, LBracket, Quote, RBrace, Whitespace, End
<1>4. Object(items) = <<LBrace>> \o s \o <<RBrace>>
  BY DEF Object
<1>5. ASSUME NEW t \in Seq(Nat), NEW p \in Nat \ {0}, p \in Places(t), At(t, p) = LBrace,
             Stands(s, t, p + 1), At(t, p + 1 + Len(s)) = RBrace
      PROVE  ValueFrom(t, p, Ends(t)) = p + Len(s) + 2
  <2>1. ValueFrom(t, p, Ends(t)) = Opened(t, p, "members", RBrace, Ends(t))
    BY <1>3, <1>5 DEF ValueFrom
  <2>2. p + 1 \in Nat \ {0} /\ Len(s) \in Nat
    BY <1>2, LenProperties
  <2>3. CASE ms = <<>>
    <3>1. Len(ms) = 0
      BY <2>3
    <3>2. Len(items) = 0
      BY <1>1, <3>1
    <3>3. items = <<>>
      BY <1>1, <3>2, EmptySeq
    <3>4. s = <<>>
      BY <3>3, JoinedNothing
    <3>5. Len(s) = 0
      BY <3>4
    <3> HIDE DEF s
    <3>6. At(t, p + 1) = RBrace
      BY <1>5, <3>5
    <3>7. Skip(t, p + 1) = p + 1
      BY <1>3, <2>2, <3>6, SkipIs
    <3>8. Opened(t, p, "members", RBrace, Ends(t)) = (p + 1) + 1
      BY <3>6, <3>7 DEF Opened
    <3> QED BY <2>1, <3>5, <3>8
  <2>4. CASE ms # <<>>
    <3>1. Len(ms) # 0 /\ items # <<>> /\ 1 \in 1..Len(ms)
      <4>1. Len(ms) # 0
        BY <2>4, EmptySeq
      <4> QED BY <1>1, <4>1, EmptySeq
    <3>2. PICK at : ItemsAt(at, items, t, p + 1)
      BY <1>1, <1>5, <2>2, <3>1, ItemsStand
    <3>3. at[1] = p + 1
      BY <3>2 DEF ItemsAt
    <3>4. Ends(t)[at[1]]["members"] = p + 1 + Len(s) + 1
      <4> DEFINE r == p + 1
      <4>1. r \in Nat \ {0} /\ ItemsAt(at, MemberTexts(ms), t, r)
        BY <2>2, <3>2
      <4>2. At(t, r + Len(Joined(MemberTexts(ms)))) = RBrace
        BY <1>5
      <4> HIDE DEF r, s, items
      <4>3. Ends(t)[at[1]]["members"] = r + Len(Joined(MemberTexts(ms))) + 1
        BY <3>1, <4>1, <4>2, MembersEnd
      <4> QED BY <4>3 DEF r, s, items
    <3>5. Skip(t, at[1]) = at[1] /\ At(t, at[1]) = Quote
      BY <1>5, <2>2, <3>1, <3>2, MembersHere
    <3>6. Quote # RBrace
      BY DEF Quote, RBrace
    <3> HIDE DEF s, items
    <3>7. Opened(t, p, "members", RBrace, Ends(t)) = p + 1 + Len(s) + 1
      BY <3>3, <3>4, <3>5, <3>6 DEF Opened
    <3> QED BY <2>1, <2>2, <3>7
  <2> QED BY <2>3, <2>4
<1> HIDE DEF s, items
<1>6. ReadToClose(LBrace, s, RBrace)
  BY <1>5 DEF ReadToClose
<1>7. <<LBrace>> \o s \o <<RBrace>> \in Values
  BY <1>2, <1>3, <1>6, EnclosedIsValue
<1> QED
  BY <1>4, <1>7 DEF items

\* A value does not begin with a separator.
LEMMA ValueStarts ==
  ASSUME NEW w \in Values
  PROVE  w[1] \notin ScalarStops
<1>1. w \in Seq(Nat) /\ w # <<>> /\ w[1] \notin Whitespace /\ Stands(w, w, 1)
  <2>1. w \in Seq(Nat)
    BY DEF Values
  <2>2. \A i \in 1..Len(w) : 1 - 1 + i = i /\ i <= Len(w)
    BY <2>1, LenProperties
  <2> QED BY <2>1, <2>2 DEF Values, Stands
<1>2. Len(w) \in Nat \ {0}
  BY <1>1, EmptySeq, LenProperties
<1>3. At(w, 1) = w[1] /\ 1 \in Places(w)
  BY <1>1, StandsPart
<1>4. At(w, 1 + Len(w)) = End /\ End \in ScalarStops
  BY <1>2 DEF At, ScalarStops
<1>5. SkipJsonValue(w, 1) = 1 + Len(w)
  BY <1>1, <1>4, ValueFound
<1>6. ASSUME w[1] \in ScalarStops PROVE FALSE
  <2>1. w[1] \notin {LBrace, LBracket, Quote}
    BY <1>6 DEF ScalarStops, LBrace, LBracket, Quote, Comma, RBrace, RBracket, End, Whitespace
  <2>2. First(Separators(w), 1, 1)
    <3>1. 1 \in Separators(w)
      BY <1>3, <1>6 DEF Separators
    <3> QED BY <3>1 DEF First
  <2>3. Scalar(w, 1) = 1
    BY <1>1, <2>2, ScalarFirst, FirstUnique
  <2>4. ValueFrom(w, 1, Ends(w)) = 0
    BY <1>3, <2>1, <2>3 DEF ValueFrom
  <2>5. SkipJsonValue(w, 1) = 0
    BY <1>1, <1>3, <2>4, ValueHere
  <2> QED BY <1>2, <1>5, <2>5
<1> QED
  BY <1>6

\* What the server writes as an array is a value when its elements are.
LEMMA ArrayIsValue ==
  ASSUME NEW vs \in Seq(Values)
  PROVE  Array(vs) \in Values
<1> DEFINE s == Joined(vs)
<1>1. vs \in Seq(Seq(Nat)) /\ Len(vs) \in Nat /\ \A j \in 1..Len(vs) : vs[j] \in Values
  <2>1. Values \subseteq Seq(Nat)
    BY DEF Values
  <2> QED BY <2>1, ElementOfSeq, SeqMonotonic, LenProperties
<1>2. s \in Seq(Nat)
  BY <1>1, JoinedTyped
<1>3. /\ LBracket \in Nat /\ LBracket \notin Whitespace /\ RBracket \in {RBrace, RBracket}
      /\ RBracket \notin Whitespace /\ LBracket # End /\ LBrace # LBracket /\ LBracket # Quote
  BY DEF LBrace, LBracket, Quote, RBracket, Whitespace, End
<1>4. Array(vs) = <<LBracket>> \o s \o <<RBracket>>
  BY DEF Array
<1>5. ASSUME NEW t \in Seq(Nat), NEW p \in Nat \ {0}, p \in Places(t), At(t, p) = LBracket,
             Stands(s, t, p + 1), At(t, p + 1 + Len(s)) = RBracket
      PROVE  ValueFrom(t, p, Ends(t)) = p + Len(s) + 2
  <2>1. ValueFrom(t, p, Ends(t)) = Opened(t, p, "elements", RBracket, Ends(t))
    BY <1>3, <1>5 DEF ValueFrom
  <2>2. p + 1 \in Nat \ {0} /\ Len(s) \in Nat
    BY <1>2, LenProperties
  <2>3. CASE vs = <<>>
    <3>1. s = <<>>
      BY <2>3, JoinedNothing
    <3>2. Len(s) = 0
      BY <3>1
    <3> HIDE DEF s
    <3>3. At(t, p + 1) = RBracket
      BY <1>5, <3>2
    <3>4. Skip(t, p + 1) = p + 1
      BY <1>3, <2>2, <3>3, SkipIs
    <3>5. Opened(t, p, "elements", RBracket, Ends(t)) = (p + 1) + 1
      BY <3>3, <3>4 DEF Opened
    <3> QED BY <2>1, <3>2, <3>5
  <2>4. CASE vs # <<>>
    <3>1. Len(vs) # 0 /\ 1 \in 1..Len(vs)
      <4>1. Len(vs) # 0
        BY <2>4, EmptySeq
      <4> QED BY <1>1, <4>1
    <3>2. PICK at : ItemsAt(at, vs, t, p + 1)
      BY <1>1, <1>5, <2>2, <2>4, ItemsStand
    <3>3. at[1] = p + 1
      BY <3>2 DEF ItemsAt
    <3>4. Ends(t)[at[1]]["elements"] = p + 1 + Len(s) + 1
      BY <1>5, <2>2, <3>1, <3>2, ElementsEnd
    <3>5. Stands(vs[1], t, p + 1) /\ vs[1] \in Values
      BY <1>1, <3>1, <3>2, <3>3 DEF ItemsAt
    <3>6. Skip(t, p + 1) = p + 1 /\ At(t, p + 1) # RBracket
      <4> DEFINE w == vs[1]
                 r == p + 1
      <4>1. w \in Values /\ Stands(w, t, r) /\ r \in Nat \ {0}
        BY <2>2, <3>5
      <4> HIDE DEF w, r
      <4>2. w \in Seq(Nat) /\ w # <<>> /\ w[1] \notin Whitespace
        BY <4>1 DEF Values
      <4>3. At(t, r) = w[1]
        BY <4>1, <4>2, StandsPart
      <4>4. Skip(t, r) = r
        BY <4>1, <4>2, <4>3, SkipIs
      <4>5. w[1] # RBracket
        BY <4>1, ValueStarts DEF ScalarStops
      <4> QED BY <4>3, <4>4, <4>5 DEF r
    <3> HIDE DEF s
    <3>7. Opened(t, p, "elements", RBracket, Ends(t)) = p + 1 + Len(s) + 1
      BY <3>3, <3>4, <3>6 DEF Opened
    <3> QED BY <2>1, <2>2, <3>7
  <2> QED BY <2>3, <2>4
<1> HIDE DEF s
<1>6. ReadToClose(LBracket, s, RBracket)
  BY <1>5 DEF ReadToClose
<1>7. <<LBracket>> \o s \o <<RBracket>> \in Values
  BY <1>2, <1>3, <1>6, EnclosedIsValue
<1> QED
  BY <1>4, <1>7

-----------------------------------------------------------------------------
(* Objects read back *)

\* The fields are those of the members from i on, the last of each name.
ReadsBack(fields, ms, i) ==
  /\ DOMAIN fields = {MemberName(ms[j]) : j \in i..Len(ms)}
  /\ \A j \in i..Len(ms) :
       (\A k \in (j + 1)..Len(ms) : MemberName(ms[k]) # MemberName(ms[j]))
         => fields[MemberName(ms[j])] = ms[j].raw

\* Fields in which members are read back are the fields of an object.
LEMMA ReadsBackTyped ==
  ASSUME NEW ms \in Seq(Members), NEW i \in Nat \ {0}, NEW fields, ReadsBack(fields, ms, i)
  PROVE  fields # NoObject
<1>1. \A j \in i..Len(ms) : j \in 1..Len(ms)
  BY LenProperties
<1>2. \A j \in i..Len(ms) : MemberName(ms[j]) \in Seq(Nat)
  BY <1>1, MemberTyped, MemberTextsTyped
<1>3. DOMAIN fields \subseteq Seq(Nat)
  BY <1>2 DEF ReadsBack
<1> QED
  BY <1>3, FieldMapCases

\* A member before those that are read back.
LEMMA InsertReadsBack ==
  ASSUME NEW ms \in Seq(Members), NEW i \in 1..Len(ms), NEW later, ReadsBack(later, ms, i + 1)
  PROVE  ReadsBack(InsertOrAssign(MemberName(ms[i]), ms[i].raw, later), ms, i)
<1> DEFINE n == Len(ms)
           Name(j) == MemberName(ms[j])
           f == InsertOrAssign(Name(i), ms[i].raw, later)
<1>1. n \in Nat /\ i \in Nat /\ i <= n
  BY LenProperties
<1>2. \A j \in i..n : j = i \/ j \in (i + 1)..n
  BY <1>1
<1>3. i \in i..n /\ \A j \in (i + 1)..n : j \in i..n
  BY <1>1
<1>4. /\ DOMAIN later = {Name(j) : j \in (i + 1)..n}
      /\ \A j \in (i + 1)..n : (\A k \in (j + 1)..n : Name(k) # Name(j)) => later[Name(j)] = ms[j].raw
  BY DEF ReadsBack
<1>5. f = [x \in {Name(i)} \cup DOMAIN later |-> IF x \in DOMAIN later THEN later[x] ELSE ms[i].raw]
  BY DEF InsertOrAssign
<1> HIDE DEF f, n, Name
<1>6. DOMAIN f = {Name(j) : j \in i..n}
  <2>1. DOMAIN f = {Name(i)} \cup DOMAIN later
    BY <1>5
  <2>2. \A x : x \in DOMAIN f <=> \E j \in i..n : x = Name(j)
    BY <1>2, <1>3, <1>4, <2>1
  <2> QED BY <2>2
<1>7. ASSUME NEW j \in i..n, \A k \in (j + 1)..n : Name(k) # Name(j) PROVE f[Name(j)] = ms[j].raw
  <2>1. CASE j \in (i + 1)..n
    <3>1. Name(j) \in DOMAIN later
      BY <1>4, <2>1
    <3> QED BY <1>4, <1>5, <1>7, <2>1, <3>1
  <2>2. CASE j = i
    <3>1. Name(i) \notin DOMAIN later
      BY <1>4, <1>7, <2>2
    <3> QED BY <1>5, <2>2, <3>1
  <2> QED BY <1>2, <2>1, <2>2
<1> QED
  BY <1>6, <1>7 DEF ReadsBack, f, n, Name

\* Behind the last member there is nothing left to read back.
LEMMA NothingReadsBack ==
  ASSUME NEW ms \in Seq(Members)
  PROVE  ReadsBack(NoFields, ms, Len(ms) + 1)
<1>1. \A j \in (Len(ms) + 1)..Len(ms) : FALSE
  BY LenProperties
<1> QED
  BY <1>1, NoFieldsTyped DEF ReadsBack

\* The fields from each member on, if nothing follows the object.
LEMMA FieldsRead ==
  ASSUME NEW t \in Seq(Nat), NEW p \in Nat \ {0}, NEW ms \in Seq(Members), NEW at,
         ItemsAt(at, MemberTexts(ms), t, p),
         At(t, p + Len(Joined(MemberTexts(ms)))) = RBrace,
         AtEnd(t, p + Len(Joined(MemberTexts(ms))) + 1), NEW i \in 1..Len(ms)
  PROVE  ReadsBack(FieldsFrom(t)[at[i]], ms, i)
<1> DEFINE q == p + Len(Joined(MemberTexts(ms)))
           n == Len(ms)
           Read(r) == \A j \in 1..n : at[j] = r => ReadsBack(FieldsFrom(t)[r], ms, j)
           T == {r \in Places(t) : Read(r)}
<1>1. n \in Nat /\ Len(t) \in Nat /\ \A r \in Places(t) : r \in 1..(Len(t) + 1)
  BY LenProperties DEF Places
<1>2. ASSUME NEW r \in Places(t), \A s \in (r + 1)..(Len(t) + 1) : s \in T, NEW j \in 1..n, at[j] = r
      PROVE  ReadsBack(FieldsFrom(t)[r], ms, j)
  <2> DEFINE m == MemberAt(t, at[j], Ends(t))
             end == m.end
             later == FieldsAfter(t, end, FieldsFrom(t))
  <2>1. /\ m.name = MemberName(ms[j]) /\ SubSeq(t, m.start, m.end - 1) = ms[j].raw
        /\ end \in Nat \ {0} /\ r <= end /\ Skip(t, end) = end
        /\ j < n => j + 1 \in 1..n /\ At(t, end) = Comma /\ at[j + 1] = end + 1
        /\ ~(j < n) => At(t, end) = RBrace /\ end = q
    <3>1. m.name = MemberName(ms[j]) /\ SubSeq(t, m.start, m.end - 1) = ms[j].raw
      BY MembersHere
    <3>2. end \in Nat \ {0} /\ at[j] <= end /\ Skip(t, end) = end
      BY MembersHere
    <3>3. j < n => j + 1 \in 1..n /\ At(t, end) = Comma /\ at[j + 1] = end + 1
      BY MembersHere
    <3>4. ~(j < n) => At(t, end) = RBrace /\ end = q
      BY MembersHere
    <3> HIDE DEF m, q, n
    <3> QED BY <1>2, <3>1, <3>2, <3>3, <3>4
  <2>2. FieldsFrom(t)[r] = IF later = NoObject THEN NoObject
                           ELSE InsertOrAssign(m.name, SubSeq(t, m.start, m.end - 1), later)
    <3>1. FieldsFrom(t)[r] = MemberFields(t, m, FieldsFrom(t))
      BY <1>2, FieldsAreValues
    <3> HIDE DEF m
    <3> QED BY <3>1 DEF MemberFields
  <2>3. Comma # RBrace
    BY DEF Comma, RBrace
  <2>4. AtEnd(t, q + 1)
    OBVIOUS
  <2> HIDE DEF m, end, q
  <2>5. ReadsBack(later, ms, j + 1)
    <3>1. CASE j < n
      <4>1. later = FieldsFrom(t)[Skip(t, end + 1)]
        BY <2>1, <2>3, <3>1 DEF FieldsAfter
      <4>2. j + 1 \in 1..n /\ Skip(t, at[j + 1]) = at[j + 1] /\ at[j + 1] \in Places(t) /\ at[j + 1] = end + 1
        BY <2>1, <3>1, MembersHere
      <4>3. at[j + 1] \in (r + 1)..(Len(t) + 1)
        <5>1. at[j + 1] \in 1..(Len(t) + 1) /\ r \in Nat
          BY <1>1, <4>2
        <5> QED BY <1>1, <2>1, <4>2, <5>1
      <4>4. ReadsBack(FieldsFrom(t)[at[j + 1]], ms, j + 1)
        <5>1. at[j + 1] \in T
          BY <1>2, <4>3
        <5> QED BY <4>2, <5>1
      <4> HIDE DEF later
      <4> QED BY <4>1, <4>2, <4>4
    <3>2. CASE ~(j < n)
      <4>1. later = NoFields
        BY <2>1, <2>3, <2>4, <3>2 DEF FieldsAfter
      <4>2. j = n
        BY <1>1, <3>2
      <4> HIDE DEF later
      <4> QED BY <4>1, <4>2, NothingReadsBack
    <3> QED BY <3>1, <3>2
  <2> HIDE DEF later
  <2>6. later # NoObject
    BY <2>5, ReadsBackTyped
  <2>7. FieldsFrom(t)[r] = InsertOrAssign(MemberName(ms[j]), ms[j].raw, later)
    BY <2>1, <2>2, <2>6
  <2> QED BY <2>5, <2>7, InsertReadsBack
<1>3. \A r \in Places(t) : (\A s \in (r + 1)..(Len(t) + 1) : s \in T) => r \in T
  BY <1>2
<1>4. at[i] \in Places(t)
  BY MembersHere
<1>5. T = {r \in Places(t) : Read(r)}
  OBVIOUS
<1> HIDE DEF T, Read
<1>6. at[i] \in T
  BY <1>3, <1>4, PlacesInduction
<1>7. Read(at[i])
  BY <1>5, <1>6
<1> QED
  BY <1>7 DEF Read

\* ParseObjectFields gives the members of an object back as they were written, the
\* last of each name, whatever their names are escaped and their values contain.
THEOREM ObjectsReadBack ==
  ASSUME NEW ms \in Seq(Members)
  PROVE  /\ ReadsBack(ParseObjectFields(Object(MemberTexts(ms))), ms, 1)
         /\ ParseObjectFields(Object(MemberTexts(ms))) # NoObject
<1> DEFINE items == MemberTexts(ms)
           s == Joined(items)
           t == Object(items)
<1>1. items \in Seq(Seq(Nat)) /\ Len(items) = Len(ms) /\ Len(ms) \in Nat
  BY MemberTextsTyped
<1>2. s \in Seq(Nat) /\ Len(s) \in Nat
  BY <1>1, JoinedTyped, LenProperties
<1>3. /\ LBrace \in Nat /\ RBrace \in Nat /\ LBrace \notin Whitespace /\ RBrace \notin Whitespace
      /\ Quote # RBrace
  BY DEF LBrace, RBrace, Whitespace, Quote
<1>4. t = <<LBrace>> \o s \o <<RBrace>>
  BY DEF Object
<1> HIDE DEF t, s
<1>5. t \in Seq(Nat) /\ Len(t) = Len(s) + 2
  BY <1>2, <1>3, <1>4, EnclosedStands
<1>6. At(t, 1) = LBrace /\ Stands(s, t, 2) /\ At(t, 2 + Len(s)) = RBrace
  <2>1. Stands(t, t, 1)
    BY <1>5 DEF Stands
  <2>2. \A v : v = <<LBrace>> \o s \o <<RBrace>> /\ Stands(v, t, 1) =>
          At(t, 1) = LBrace /\ Stands(s, t, 1 + 1) /\ At(t, 1 + 1 + Len(s)) = RBrace
    BY <1>2, <1>3, <1>5, EnclosedStands
  <2>3. 1 + 1 = 2 /\ 1 + 1 + Len(s) = 2 + Len(s)
    BY <1>2
  <2> QED BY <1>4, <2>1, <2>2, <2>3
<1>7. AtEnd(t, 2 + Len(s) + 1)
  <2>1. 2 + Len(s) + 1 \in Nat \ {0} /\ 2 + Len(s) + 1 > Len(t)
    BY <1>2, <1>5
  <2>2. Skip(t, 2 + Len(s) + 1) \in Nat /\ 2 + Len(s) + 1 <= Skip(t, 2 + Len(s) + 1)
    BY <1>5, <2>1, SkipTo
  <2> QED BY <1>2, <1>5, <2>1, <2>2 DEF AtEnd
<1>8. Skip(t, 1) = 1
  BY <1>3, <1>5, <1>6, SkipIs
<1>9. ParseObjectFields(t) =
        LET first == Skip(t, 2) IN
        IF At(t, first) # RBrace THEN FieldsFrom(t)[first]
        ELSE IF AtEnd(t, first + 1) THEN NoFields ELSE NoObject
  <2>1. 1 + 1 = 2
    OBVIOUS
  <2> QED BY <1>6, <1>8, <2>1 DEF ParseObjectFields
<1>10. CASE ms = <<>>
  <2>1. s = <<>>
    <3>1. Len(items) = 0
      BY <1>1, <1>10
    <3>2. items = <<>>
      BY <1>1, <3>1, EmptySeq
    <3> QED BY <3>2, JoinedNothing DEF s
  <2>2. Len(s) = 0 /\ Len(ms) = 0
    BY <1>10, <2>1
  <2>3. At(t, 2) = RBrace /\ AtEnd(t, 3)
    BY <1>6, <1>7, <2>2
  <2>4. Skip(t, 2) = 2
    BY <1>3, <1>5, <2>3, SkipIs
  <2>5. ParseObjectFields(t) = NoFields
    BY <1>9, <2>3, <2>4
  <2>6. ReadsBack(NoFields, ms, 0 + 1)
    BY <2>2, NothingReadsBack
  <2> QED BY <2>5, <2>6, NoFieldsTyped DEF t
<1>11. CASE ms # <<>>
  <2>1. items # <<>> /\ 1 \in 1..Len(ms)
    <3>1. Len(ms) # 0
      BY <1>11, EmptySeq
    <3> QED BY <1>1, <3>1, EmptySeq
  <2>2. PICK at : ItemsAt(at, items, t, 2)
    BY <1>1, <1>5, <1>6, <2>1, ItemsStand DEF s
  <2>3. at[1] = 2
    BY <2>2 DEF ItemsAt
  <2>4. At(t, 2 + Len(Joined(items))) = RBrace /\ AtEnd(t, 2 + Len(Joined(items)) + 1)
    BY <1>6, <1>7 DEF s
  <2>5. ReadsBack(FieldsFrom(t)[at[1]], ms, 1)
    BY <1>5, <2>1, <2>2, <2>4, FieldsRead
  <2>6. Skip(t, at[1]) = at[1] /\ At(t, at[1]) = Quote
    BY <1>5, <2>1, <2>2, <2>4, MembersHere
  <2>7. ParseObjectFields(t) = FieldsFrom(t)[at[1]]
    BY <1>3, <1>9, <2>3, <2>6
  <2>8. ParseObjectFields(t) # NoObject
    BY <2>5, <2>7, ReadsBackTyped
  <2> QED BY <2>5, <2>7, <2>8 DEF t
<1> QED
  BY <1>10, <1>11

\* ParseObjectFields gives values by name, or no object, whatever the text.
THEOREM ObjectFieldsAreValues ==
  ASSUME NEW t \in Seq(Nat)
  PROVE  ParseObjectFields(t) \in FieldMaps
<1> DEFINE brace == Skip(t, 1)
           first == Skip(t, brace + 1)
<1>1. NoObject \in FieldMaps /\ NoFields \in FieldMaps
  BY NoFieldsTyped DEF FieldMaps
<1>2. CASE At(t, brace) = LBrace
  <2>1. 1 \in Places(t) /\ 1 \in Nat \ {0}
    BY LenProperties DEF Places
  <2>2. brace \in Places(t)
    BY <2>1, SkipTo DEF Places
  <2>3. LBrace # End
    BY DEF LBrace, End
  <2> HIDE DEF brace
  <2>4. first \in Places(t)
    BY <1>2, <2>2, <2>3, NextPlace DEF Places
  <2>5. FieldsFrom(t)[first] \in FieldMaps
    BY <2>4, FieldsAreValues
  <2> QED BY <1>1, <2>5 DEF ParseObjectFields, brace
<1>3. CASE At(t, brace) # LBrace
  BY <1>1, <1>3 DEF ParseObjectFields
<1> QED
  BY <1>2, <1>3

-----------------------------------------------------------------------------
(* Words *)

\* A word is one symbol, another one for every word, that stands for itself.
LEMMA WordsDiffer ==
  ASSUME NEW a \in DOMAIN W, NEW b \in DOMAIN W
  PROVE  /\ W[a] \in Seq(Nat) /\ Len(W[a]) = 1 /\ W[a] # <<>> /\ W[a][1] > 255
         /\ W[a] = W[b] => a = b
<1> DEFINE Place(w) == CHOOSE i \in 1..Len(Words) : Words[i] = w
<1>1. ASSUME NEW w \in DOMAIN W
      PROVE  Words[Place(w)] = w /\ Place(w) \in 1..Len(Words) /\ W[w] = <<255 + Place(w)>>
  <2>1. \E i \in 1..Len(Words) : Words[i] = w
    BY DEF W
  <2>2. Words[Place(w)] = w /\ Place(w) \in 1..Len(Words)
    BY <2>1
  <2>3. W[w] = <<255 + Place(w)>>
    BY DEF W, Word
  <2> QED BY <2>2, <2>3
<1>2. \A i \in 1..Len(Words) : i \in Nat /\ i > 0
  OBVIOUS
<1> HIDE DEF Place
<1>3. \A w \in DOMAIN W : Place(w) \in Nat /\ Place(w) > 0
  BY <1>1, <1>2
<1>4. ASSUME W[a] = W[b] PROVE a = b
  <2>1. W[a][1] = 255 + Place(a) /\ W[b][1] = 255 + Place(b)
    BY <1>1, <1>3
  <2>2. Place(a) = Place(b)
    BY <1>3, <1>4, <2>1
  <2> QED BY <1>1, <2>2
<1>5. W[a] \in Seq(Nat) /\ Len(W[a]) = 1 /\ W[a] # <<>> /\ W[a][1] > 255
  <2> DEFINE x == 255 + Place(a)
  <2>1. x \in Nat /\ x > 255 /\ W[a] = <<x>>
    BY <1>1, <1>3
  <2> HIDE DEF x
  <2> QED BY <2>1
<1> QED
  BY <1>4, <1>5

\* The words that texts are put together of.
LEMMA KnownWords ==
  {"jsonrpc", "2.0", "id", "method", "params", "name", "arguments", "command", "max_lines",
   "pattern", "windbg.eval", "tools/call", "tools/list", "initialize",
   "notifications/initialized", "initialized", "result", "error", "code", "message", "content",
   "type", "text", "isError", "tools", "true", "false", "null", "(no output)", "-32000",
   "-32600", "-32601", "-32602", "-32700", "Command execution failed"} \subseteq DOMAIN W
<1>1. DOMAIN W = {Words[i] : i \in 1..Len(Words)}
  BY DEF W
<1>2. Len(Words) = 58
  BY DEF Words
<1>3. \A i \in 1..58 : Words[i] \in DOMAIN W
  BY <1>1, <1>2
<1>4. {"jsonrpc", "2.0", "id", "method", "params"} \subseteq DOMAIN W
  <2>1. Words[1] = "jsonrpc" /\ Words[2] = "2.0" /\ Words[3] = "id"
    BY DEF Words
  <2>2. Words[4] = "method" /\ Words[5] = "params"
    BY DEF Words
  <2>3. Words[1] \in DOMAIN W /\ Words[2] \in DOMAIN W /\ Words[3] \in DOMAIN W /\ Words[4] \in DOMAIN W /\ Words[5] \in DOMAIN W
    BY <1>3
  <2>4. /\ "jsonrpc" \in DOMAIN W /\ "2.0" \in DOMAIN W /\ "id" \in DOMAIN W
        /\ "method" \in DOMAIN W /\ "params" \in DOMAIN W
    BY <2>1, <2>2, <2>3
  <2> QED BY <2>4
<1>5. {"name", "arguments", "command", "max_lines", "pattern"} \subseteq DOMAIN W
  <2>1. Words[6] = "name" /\ Words[7] = "arguments" /\ Words[8] = "command"
    BY DEF Words
  <2>2. Words[9] = "max_lines" /\ Words[10] = "pattern"
    BY DEF Words
  <2>3. Words[6] \in DOMAIN W /\ Words[7] \in DOMAIN W /\ Words[8] \in DOMAIN W /\ Words[9] \in DOMAIN W /\ Words[10] \in DOMAIN W
    BY <1>3
  <2>4. /\ "name" \in DOMAIN W /\ "arguments" \in DOMAIN W /\ "command" \in DOMAIN W
        /\ "max_lines" \in DOMAIN W /\ "pattern" \in DOMAIN W
    BY <2>1, <2>2, <2>3
  <2> QED BY <2>4
<1>6. {"windbg.eval", "tools/call", "tools/list", "initialize", "notifications/initialized"} \subseteq DOMAIN W
  <2>1. Words[11] = "windbg.eval" /\ Words[12] = "tools/call" /\ Words[13] = "tools/list"
    BY DEF Words
  <2>2. Words[14] = "initialize" /\ Words[15] = "notifications/initialized"
    BY DEF Words
  <2>3. Words[11] \in DOMAIN W /\ Words[12] \in DOMAIN W /\ Words[13] \in DOMAIN W /\ Words[14] \in DOMAIN W /\ Words[15] \in DOMAIN W
    BY <1>3
  <2>4. /\ "windbg.eval" \in DOMAIN W /\ "tools/call" \in DOMAIN W /\ "tools/list" \in DOMAIN W
        /\ "initialize" \in DOMAIN W /\ "notifications/initialized" \in DOMAIN W
    BY <2>1, <2>2, <2>3
  <2> QED BY <2>4
<1>7. {"initialized", "result", "error", "code", "message"} \subseteq DOMAIN W
  <2>1. Words[16] = "initialized" /\ Words[18] = "result" /\ Words[19] = "error"
    BY DEF Words
  <2>2. Words[20] = "code" /\ Words[21] = "message"
    BY DEF Words
  <2>3. Words[16] \in DOMAIN W /\ Words[18] \in DOMAIN W /\ Words[19] \in DOMAIN W /\ Words[20] \in DOMAIN W /\ Words[21] \in DOMAIN W
    BY <1>3
  <2>4. /\ "initialized" \in DOMAIN W /\ "result" \in DOMAIN W /\ "error" \in DOMAIN W
        /\ "code" \in DOMAIN W /\ "message" \in DOMAIN W
    BY <2>1, <2>2, <2>3
  <2> QED BY <2>4
<1>8. {"content", "type", "text", "isError", "tools"} \subseteq DOMAIN W
  <2>1. Words[22] = "content" /\ Words[23] = "type" /\ Words[24] = "text"
    BY DEF Words
  <2>2. Words[25] = "isError" /\ Words[26] = "tools"
    BY DEF Words
  <2>3. Words[22] \in DOMAIN W /\ Words[23] \in DOMAIN W /\ Words[24] \in DOMAIN W /\ Words[25] \in DOMAIN W /\ Words[26] \in DOMAIN W
    BY <1>3
  <2>4. /\ "content" \in DOMAIN W /\ "type" \in DOMAIN W /\ "text" \in DOMAIN W
        /\ "isError" \in DOMAIN W /\ "tools" \in DOMAIN W
    BY <2>1, <2>2, <2>3
  <2> QED BY <2>4
<1>9. {"true", "false", "null", "(no output)", "-32000"} \subseteq DOMAIN W
  <2>1. Words[27] = "true" /\ Words[28] = "false" /\ Words[29] = "null"
    BY DEF Words
  <2>2. Words[40] = "(no output)"
    BY DEF Words
  <2>3. Words[52] = "-32000"
    BY DEF Words
  <2>4. Words[27] \in DOMAIN W /\ Words[28] \in DOMAIN W /\ Words[29] \in DOMAIN W
    BY <1>3
  <2>5. Words[40] \in DOMAIN W /\ Words[52] \in DOMAIN W
    BY <1>3
  <2>6. "true" \in DOMAIN W /\ "false" \in DOMAIN W /\ "null" \in DOMAIN W
    BY <2>1, <2>4
  <2>7. "(no output)" \in DOMAIN W
    BY Zenon, <2>2, <2>5
  <2>8. "-32000" \in DOMAIN W
    BY <2>3, <2>5
  <2> QED BY <2>6, <2>7, <2>8
<1>10. {"-32600", "-32601", "-32602", "-32700", "Command execution failed"} \subseteq DOMAIN W
  <2>1. Words[53] = "-32600" /\ Words[54] = "-32601" /\ Words[55] = "-32602"
    BY DEF Words
  <2>2. Words[57] = "-32700"
    BY DEF Words
  <2>3. Words[58] = "Command execution failed"
    BY DEF Words
  <2>4. Words[53] \in DOMAIN W /\ Words[54] \in DOMAIN W /\ Words[55] \in DOMAIN W
    BY <1>3
  <2>5. Words[57] \in DOMAIN W /\ Words[58] \in DOMAIN W
    BY <1>3
  <2>6. "-32600" \in DOMAIN W /\ "-32601" \in DOMAIN W /\ "-32602" \in DOMAIN W
    BY <2>1, <2>4
  <2>7. "-32700" \in DOMAIN W
    BY <2>2, <2>5
  <2>8. "Command execution failed" \in DOMAIN W
    BY Zenon, <2>3, <2>5
  <2> QED BY <2>6, <2>7, <2>8
<1> QED
  BY <1>4, <1>5, <1>6, <1>7, <1>8, <1>9, <1>10

-----------------------------------------------------------------------------
(* Objects whose members have words for names *)

\* The member that has a word for its name.
WordMember(name, raw) == [name |-> <<W[name]>>, raw |-> raw]

\* A word is a unit that is read as it stands.
LEMMA WordIsUnit ==
  ASSUME NEW w \in DOMAIN W
  PROVE  /\ <<W[w]>> \in Seq(Units) /\ FlattenSeq(<<W[w]>>) = W[w]
         /\ FlattenSeq(Texts(<<W[w]>>)) = W[w]
<1> DEFINE u == W[w]
<1>1. u \in Seq(Nat) /\ Len(u) = 1 /\ u[1] > 255
  BY WordsDiffer
<1> HIDE DEF u
<1>2. u \in Units
  <2>1. \A c \in Nat : c > 255 => c \notin MustEscape
    BY DEF MustEscape, Controls, Quote, Backslash
  <2>2. u[1] \notin MustEscape
    <3>1. u[1] \in Nat
      BY <1>1
    <3> QED BY <1>1, <2>1, <3>1
  <2>3. IsUnit(u)
    BY <1>1, <2>2 DEF IsUnit
  <2> QED BY <1>1, <2>3 DEF Units
<1>3. UnitText(u) = u
  BY <1>1 DEF UnitText
<1>4. <<u>> \in Seq(Units) /\ Texts(<<u>>) = <<UnitText(u)>>
  BY <1>2 DEF Texts
<1>5. FlattenSeq(<<u>>) = u
  BY <1>1, FlattenOne
<1> QED
  BY <1>3, <1>4, <1>5 DEF u

\* A word and a value are a member, whose text is that of the field.
LEMMA WordMembers ==
  ASSUME NEW a \in DOMAIN W, NEW x \in Values
  PROVE  /\ WordMember(a, x) \in Members /\ MemberName(WordMember(a, x)) = W[a]
         /\ WordMember(a, x).raw = x /\ MemberText(WordMember(a, x)) = Field(a, x)
<1>1. /\ <<W[a]>> \in Seq(Units) /\ FlattenSeq(<<W[a]>>) = W[a]
      /\ FlattenSeq(Texts(<<W[a]>>)) = W[a]
  BY WordIsUnit
<1>2. WordMember(a, x).name = <<W[a]>> /\ WordMember(a, x).raw = x /\ WordMember(a, x) \in Members
  BY <1>1 DEF WordMember, Members
<1>3. MemberName(WordMember(a, x)) = W[a]
  BY <1>1, <1>2 DEF MemberName
<1>4. MemberText(WordMember(a, x)) = Field(a, x)
  BY <1>1, <1>2 DEF MemberText, Field
<1> QED
  BY <1>2, <1>3, <1>4

\* A value with those fields and no others.
HasOne(t, a, x) ==
  /\ t \in Values /\ ParseObjectFields(t) # NoObject
  /\ DOMAIN ParseObjectFields(t) = {W[a]} /\ ParseObjectFields(t)[W[a]] = x
\* The text is an object with two fields ...
HasTwo(t, a, x, b, y) ==
  /\ t \in Values /\ ParseObjectFields(t) # NoObject
  /\ DOMAIN ParseObjectFields(t) = {W[a], W[b]}
  /\ ParseObjectFields(t)[W[a]] = x /\ ParseObjectFields(t)[W[b]] = y
\* ... and with three.
HasThree(t, a, x, b, y, c, z) ==
  /\ t \in Values /\ ParseObjectFields(t) # NoObject
  /\ DOMAIN ParseObjectFields(t) = {W[a], W[b], W[c]}
  /\ ParseObjectFields(t)[W[a]] = x /\ ParseObjectFields(t)[W[b]] = y
  /\ ParseObjectFields(t)[W[c]] = z

\* An object that is written with one field is read back with that field.
LEMMA ObjectOfOne ==
  ASSUME NEW a \in DOMAIN W, NEW x \in Values
  PROVE  HasOne(Object(<<Field(a, x)>>), a, x)
<1> DEFINE m == WordMember(a, x)
           ms == <<m>>
           t == Object(<<Field(a, x)>>)
           f == ParseObjectFields(t)
<1>1. m \in Members /\ MemberName(m) = W[a] /\ m.raw = x /\ MemberText(m) = Field(a, x)
  BY WordMembers
<1> HIDE DEF m
<1>2. ms \in Seq(Members) /\ Len(ms) = 1 /\ ms[1] = m
  BY <1>1
<1>3. MemberTexts(ms) = <<Field(a, x)>>
  BY <1>1, <1>2 DEF MemberTexts
<1> HIDE DEF ms
<1>4. t \in Values
  BY <1>2, <1>3, ObjectIsValue
<1>5. ReadsBack(f, ms, 1) /\ f # NoObject
  BY <1>2, <1>3, ObjectsReadBack
<1> HIDE DEF f
<1>6. \A j \in 1..Len(ms) : j = 1
  BY <1>2
<1>7. 1 \in 1..Len(ms) /\ \A k \in (1 + 1)..Len(ms) : FALSE
  BY <1>2
<1>8. DOMAIN f = {W[a]}
  <2>1. \A n : n \in DOMAIN f <=> n = W[a]
    BY <1>1, <1>2, <1>5, <1>6, <1>7 DEF ReadsBack
  <2> QED BY <2>1
<1>9. f[W[a]] = x
  BY <1>1, <1>2, <1>5, <1>7 DEF ReadsBack
<1> QED
  BY <1>4, <1>5, <1>8, <1>9 DEF f, HasOne

\* An object that is written with two fields is read back with these fields.
LEMMA ObjectOfTwo ==
  ASSUME NEW a \in DOMAIN W, NEW x \in Values, NEW b \in DOMAIN W, NEW y \in Values, a # b
  PROVE  HasTwo(Object(<<Field(a, x), Field(b, y)>>), a, x, b, y)
<1> DEFINE m == WordMember(a, x)
           n == WordMember(b, y)
           ms == <<m, n>>
           t == Object(<<Field(a, x), Field(b, y)>>)
           f == ParseObjectFields(t)
<1>1. /\ m \in Members /\ MemberName(m) = W[a] /\ m.raw = x /\ MemberText(m) = Field(a, x)
      /\ n \in Members /\ MemberName(n) = W[b] /\ n.raw = y /\ MemberText(n) = Field(b, y)
  BY WordMembers
<1>2. W[a] # W[b]
  BY WordsDiffer
<1> HIDE DEF m, n
<1>3. ms \in Seq(Members) /\ Len(ms) = 2 /\ ms[1] = m /\ ms[2] = n
  BY <1>1
<1>4. MemberTexts(ms) = <<Field(a, x), Field(b, y)>>
  BY <1>1, <1>3 DEF MemberTexts
<1> HIDE DEF ms
<1>5. t \in Values
  BY <1>3, <1>4, ObjectIsValue
<1>6. ReadsBack(f, ms, 1) /\ f # NoObject
  BY <1>3, <1>4, ObjectsReadBack
<1> HIDE DEF f
<1>7. /\ \A j \in 1..Len(ms) : j = 1 \/ j = 2
      /\ 1 \in 1..Len(ms) /\ 2 \in 1..Len(ms)
      /\ \A k \in (1 + 1)..Len(ms) : k = 2
      /\ \A k \in (2 + 1)..Len(ms) : FALSE
  BY <1>3
<1>8. DOMAIN f = {W[a], W[b]}
  <2>1. \A z : z \in DOMAIN f <=> z = W[a] \/ z = W[b]
    BY <1>1, <1>3, <1>6, <1>7 DEF ReadsBack
  <2> QED BY <2>1
<1>9. f[W[a]] = x /\ f[W[b]] = y
  BY <1>1, <1>2, <1>3, <1>6, <1>7 DEF ReadsBack
<1> QED
  BY <1>5, <1>6, <1>8, <1>9 DEF f, HasTwo

\* An object that is written with three fields is read back with these fields.
LEMMA ObjectOfThree ==
  ASSUME NEW a \in DOMAIN W, NEW x \in Values, NEW b \in DOMAIN W, NEW y \in Values,
         NEW c \in DOMAIN W, NEW z \in Values, a # b, a # c, b # c
  PROVE  HasThree(Object(<<Field(a, x), Field(b, y), Field(c, z)>>), a, x, b, y, c, z)
<1> DEFINE m == WordMember(a, x)
           n == WordMember(b, y)
           o == WordMember(c, z)
           ms == <<m, n, o>>
           t == Object(<<Field(a, x), Field(b, y), Field(c, z)>>)
           f == ParseObjectFields(t)
<1>1. /\ m \in Members /\ MemberName(m) = W[a] /\ m.raw = x /\ MemberText(m) = Field(a, x)
      /\ n \in Members /\ MemberName(n) = W[b] /\ n.raw = y /\ MemberText(n) = Field(b, y)
      /\ o \in Members /\ MemberName(o) = W[c] /\ o.raw = z /\ MemberText(o) = Field(c, z)
  BY WordMembers
<1>2. W[a] # W[b] /\ W[a] # W[c] /\ W[b] # W[c]
  BY WordsDiffer
<1> HIDE DEF m, n, o
<1>3. ms \in Seq(Members) /\ Len(ms) = 3 /\ ms[1] = m /\ ms[2] = n /\ ms[3] = o
  BY <1>1
<1>4. MemberTexts(ms) = <<Field(a, x), Field(b, y), Field(c, z)>>
  BY <1>1, <1>3 DEF MemberTexts
<1> HIDE DEF ms
<1>5. t \in Values
  BY <1>3, <1>4, ObjectIsValue
<1>6. ReadsBack(f, ms, 1) /\ f # NoObject
  BY <1>3, <1>4, ObjectsReadBack
<1> HIDE DEF f
<1>7. /\ \A j \in 1..Len(ms) : j = 1 \/ j = 2 \/ j = 3
      /\ 1 \in 1..Len(ms) /\ 2 \in 1..Len(ms) /\ 3 \in 1..Len(ms)
      /\ \A k \in (1 + 1)..Len(ms) : k = 2 \/ k = 3
      /\ \A k \in (2 + 1)..Len(ms) : k = 3
      /\ \A k \in (3 + 1)..Len(ms) : FALSE
  BY <1>3
<1>8. DOMAIN f = {W[a], W[b], W[c]}
  <2>1. \A v : v \in DOMAIN f <=> v = W[a] \/ v = W[b] \/ v = W[c]
    BY <1>1, <1>3, <1>6, <1>7 DEF ReadsBack
  <2> QED BY <2>1
<1>9. f[W[a]] = x /\ f[W[b]] = y /\ f[W[c]] = z
  BY <1>1, <1>2, <1>3, <1>6, <1>7 DEF ReadsBack
<1> QED
  BY <1>5, <1>6, <1>8, <1>9 DEF f, HasThree

-----------------------------------------------------------------------------
(* Answers *)

\* A word is a value, in quotes and without.
LEMMA WordIsValue ==
  ASSUME NEW w \in DOMAIN W
  PROVE  W[w] \in Values /\ Quoted(W[w]) \in Values /\ Trim(W[w]) = W[w]
<1> DEFINE v == W[w]
<1>1. v \in Seq(Nat) /\ Len(v) = 1 /\ v # <<>> /\ v[1] > 255
  BY WordsDiffer
<1>2. <<v>> \in Seq(Units) /\ FlattenSeq(<<v>>) = v
  BY WordIsUnit
<1> HIDE DEF v
<1>3. \A c \in Nat : c > 255 => c \notin {LBrace, LBracket, Quote} /\ c \notin ScalarStops
  BY DEF LBrace, LBracket, Quote, ScalarStops, Comma, RBrace, RBracket, End, Whitespace
<1>4. v[1] \notin {LBrace, LBracket, Quote} /\ v[1] \notin ScalarStops
  <2>1. v[1] \in Nat
    BY <1>1
  <2> QED BY <1>1, <1>3, <2>1
<1>5. \A i \in 1..Len(v) : v[i] \notin ScalarStops
  BY <1>1, <1>4
<1>6. v \in Values
  BY <1>1, <1>4, <1>5, ScalarIsValue
<1>7. Quoted(v) \in Values
  BY <1>2, QuotedIsValue
<1>8. Trim(v) = v
  BY <1>6, TrimValue
<1> QED
  BY <1>6, <1>7, <1>8 DEF v

\* Whatever text is escaped and quoted is a value.
LEMMA EscapedIsValue ==
  ASSUME NEW s \in Seq(Nat)
  PROVE  Quoted(Escape(s)) \in Values
<1> DEFINE us == [i \in 1..Len(s) |-> EscapeSymbol(s[i])]
<1>1. us \in Seq(Units)
  BY EscapeUnits
<1>2. Escape(s) = FlattenSeq(us)
  BY DEF Escape
<1> HIDE DEF us
<1> QED
  BY <1>1, <1>2, QuotedIsValue

\* An array of one value is a value.
LEMMA ArrayOfOne ==
  ASSUME NEW v \in Values
  PROVE  Array(<<v>>) \in Values
<1>1. <<v>> \in Seq(Values)
  OBVIOUS
<1> QED
  BY <1>1, ArrayIsValue

\* The keys of an answer are words.
LEMMA AnswerWords ==
  /\ "jsonrpc" \in DOMAIN W /\ "2.0" \in DOMAIN W /\ "id" \in DOMAIN W /\ "null" \in DOMAIN W
  /\ "result" \in DOMAIN W /\ "error" \in DOMAIN W /\ "code" \in DOMAIN W
  /\ "message" \in DOMAIN W /\ "content" \in DOMAIN W /\ "type" \in DOMAIN W
  /\ "text" \in DOMAIN W /\ "isError" \in DOMAIN W /\ "tools" \in DOMAIN W
  /\ "true" \in DOMAIN W /\ "false" \in DOMAIN W /\ "name" \in DOMAIN W
  /\ "windbg.eval" \in DOMAIN W /\ "(no output)" \in DOMAIN W
  /\ "Command execution failed" \in DOMAIN W
BY KnownWords

\* An error is an object of its id and code, whatever the id is.
LEMMA ErrorFields ==
  ASSUME NEW id \in Values, NEW code \in DOMAIN W
  PROVE  LET f == ParseObjectFields(BuildJsonRpcError(id, code)) IN
           /\ BuildJsonRpcError(id, code) \in Values /\ f # NoObject /\ ~Has(f, W["result"]) /\ Has(f, W["id"])
           /\ f[W["id"]] = id /\ Has(f, W["error"])
           /\ TryGetRawField(ParseObjectFields(f[W["error"]]), W["code"]) = W[code]
<1> DEFINE inner == Object(<<Field("code", W[code]), Field("message", Quoted(Escape(W["message"])))>>)
           g == ParseObjectFields(inner)
           f == ParseObjectFields(BuildJsonRpcError(id, code))
           version == Quoted(W["2.0"])
           message == Quoted(Escape(W["message"]))
<1>1. /\ "jsonrpc" \in DOMAIN W /\ "2.0" \in DOMAIN W /\ "id" \in DOMAIN W /\ "error" \in DOMAIN W
      /\ "code" \in DOMAIN W /\ "message" \in DOMAIN W /\ "result" \in DOMAIN W
  BY AnswerWords
<1>2. W[code] \in Values /\ Trim(W[code]) = W[code] /\ version \in Values
  BY <1>1, WordIsValue
<1>3. message \in Values
  BY <1>1, WordsDiffer, EscapedIsValue
<1> HIDE DEF version, message
<1>4. HasTwo(inner, "code", W[code], "message", message)
  BY <1>1, <1>2, <1>3, ObjectOfTwo DEF message
<1> HIDE DEF inner
<1>5. BuildJsonRpcError(id, code) =
        Object(<<Field("jsonrpc", version), Field("id", id), Field("error", inner)>>)
  BY DEF BuildJsonRpcError, Version, version, inner
<1>6. HasThree(BuildJsonRpcError(id, code), "jsonrpc", version, "id", id, "error", inner)
  <2>1. inner \in Values
    BY <1>4 DEF HasTwo
  <2>2. HasThree(Object(<<Field("jsonrpc", version), Field("id", id), Field("error", inner)>>),
                 "jsonrpc", version, "id", id, "error", inner)
    BY <1>1, <1>2, <2>1, ObjectOfThree
  <2> QED BY <1>5, <2>2
<1>7. /\ BuildJsonRpcError(id, code) \in Values /\ f # NoObject /\ ~Has(f, W["result"]) /\ Has(f, W["id"])
      /\ f[W["id"]] = id /\ Has(f, W["error"]) /\ f[W["error"]] = inner
  <2>1. /\ BuildJsonRpcError(id, code) \in Values
        /\ f # NoObject /\ DOMAIN f = {W["jsonrpc"], W["id"], W["error"]}
        /\ f[W["id"]] = id /\ f[W["error"]] = inner
    BY <1>6 DEF HasThree
  <2> HIDE DEF f
  <2> QED BY <1>1, <2>1, WordsDiffer DEF Has
<1>8. TryGetRawField(g, W["code"]) = W[code]
  <2>1. DOMAIN g = {W["code"], W["message"]} /\ g[W["code"]] = W[code]
    BY <1>4 DEF HasTwo
  <2> HIDE DEF g
  <2> QED BY <1>2, <2>1 DEF TryGetRawField, Has
<1> HIDE DEF f
<1> QED
  BY <1>7, <1>8 DEF f, g

\* A result is an object of its id and value, whatever these are.
LEMMA SuccessFields ==
  ASSUME NEW id \in Values, NEW result \in Values
  PROVE  LET f == ParseObjectFields(BuildJsonRpcSuccess(id, result)) IN
           /\ BuildJsonRpcSuccess(id, result) \in Values /\ f # NoObject /\ Has(f, W["result"])
           /\ ~Has(f, W["error"]) /\ Has(f, W["id"])
           /\ f[W["id"]] = id /\ f[W["result"]] = result
<1> DEFINE f == ParseObjectFields(BuildJsonRpcSuccess(id, result))
           version == Quoted(W["2.0"])
<1>1. /\ "jsonrpc" \in DOMAIN W /\ "2.0" \in DOMAIN W /\ "id" \in DOMAIN W /\ "result" \in DOMAIN W
      /\ "error" \in DOMAIN W
  BY AnswerWords
<1>2. version \in Values
  BY <1>1, WordIsValue
<1> HIDE DEF version
<1>3. BuildJsonRpcSuccess(id, result) =
        Object(<<Field("jsonrpc", version), Field("id", id), Field("result", result)>>)
  BY DEF BuildJsonRpcSuccess, Version, version
<1>4. HasThree(BuildJsonRpcSuccess(id, result), "jsonrpc", version, "id", id, "result", result)
  <2>1. HasThree(Object(<<Field("jsonrpc", version), Field("id", id), Field("result", result)>>),
                 "jsonrpc", version, "id", id, "result", result)
    BY <1>1, <1>2, ObjectOfThree
  <2> QED BY <1>3, <2>1
<1>5. /\ BuildJsonRpcSuccess(id, result) \in Values
      /\ f # NoObject /\ DOMAIN f = {W["jsonrpc"], W["id"], W["result"]}
      /\ f[W["id"]] = id /\ f[W["result"]] = result
  BY <1>4 DEF HasThree
<1> HIDE DEF f
<1>6. W["error"] \notin DOMAIN f
  BY <1>1, <1>5, WordsDiffer
<1> QED
  BY <1>5, <1>6 DEF f, Has

\* The fixed results are values that say nothing of an error.
LEMMA FixedResultFields ==
  /\ FixedResult \in Values /\ ParseObjectFields(FixedResult) # NoObject
  /\ ~Has(ParseObjectFields(FixedResult), W["isError"])
<1> DEFINE tool == Object(<<Field("name", Quoted(W["windbg.eval"]))>>)
           f == ParseObjectFields(FixedResult)
<1>1. /\ "name" \in DOMAIN W /\ "windbg.eval" \in DOMAIN W /\ "tools" \in DOMAIN W
      /\ "isError" \in DOMAIN W
  BY AnswerWords
<1>2. Quoted(W["windbg.eval"]) \in Values
  BY <1>1, WordIsValue
<1>3. tool \in Values
  <2>1. HasOne(tool, "name", Quoted(W["windbg.eval"]))
    BY <1>1, <1>2, ObjectOfOne
  <2> HIDE DEF tool
  <2> QED BY <2>1 DEF HasOne
<1> HIDE DEF tool
<1>4. Array(<<tool>>) \in Values
  BY <1>3, ArrayOfOne
<1>5. FixedResult = Object(<<Field("tools", Array(<<tool>>))>>)
  BY DEF FixedResult, tool
<1>6. FixedResult \in Values /\ f # NoObject /\ DOMAIN f = {W["tools"]}
  <2>1. HasOne(FixedResult, "tools", Array(<<tool>>))
    BY <1>1, <1>4, <1>5, ObjectOfOne
  <2> QED BY <2>1 DEF HasOne
<1> HIDE DEF f
<1>7. W["isError"] \notin DOMAIN f
  BY <1>1, <1>6, WordsDiffer
<1> QED
  BY <1>6, <1>7 DEF Has, f

\* The result of a call is a value, whatever the command printed, and says whether
\* it failed.
LEMMA ToolResultFields ==
  ASSUME NEW e, e.text \in Seq(Nat), e.success \in BOOLEAN
  PROVE  LET f == ParseObjectFields(ToolResult(e)) IN
           /\ ToolResult(e) \in Values /\ f # NoObject
           /\ TryGetRawField(f, W["isError"]) = W[IF e.success THEN "false" ELSE "true"]
<1> DEFINE item == Object(<<Field("type", Quoted(W["text"])), Field("text", Quoted(Escape(Payload(e))))>>)
           failed == W[IF e.success THEN "false" ELSE "true"]
           f == ParseObjectFields(ToolResult(e))
           text == Quoted(Escape(Payload(e)))
<1>1. /\ "content" \in DOMAIN W /\ "type" \in DOMAIN W /\ "text" \in DOMAIN W
      /\ "isError" \in DOMAIN W /\ "true" \in DOMAIN W /\ "false" \in DOMAIN W
      /\ "(no output)" \in DOMAIN W /\ "Command execution failed" \in DOMAIN W
  BY AnswerWords
<1>2. Payload(e) \in Seq(Nat)
  BY <1>1, WordsDiffer DEF Payload
<1>3. text \in Values /\ Quoted(W["text"]) \in Values
  BY <1>1, <1>2, EscapedIsValue, WordIsValue
<1> HIDE DEF text
<1>4. HasTwo(item, "type", Quoted(W["text"]), "text", text)
  BY <1>1, <1>3, ObjectOfTwo DEF text
<1> HIDE DEF item
<1>5. Array(<<item>>) \in Values
  BY <1>4, ArrayOfOne DEF HasTwo
<1>6. failed \in Values /\ Trim(failed) = failed
  BY <1>1, WordIsValue
<1>7. ToolResult(e) = Object(<<Field("content", Array(<<item>>)), Field("isError", failed)>>)
  BY DEF ToolResult, item
<1> HIDE DEF failed
<1>8. HasTwo(ToolResult(e), "content", Array(<<item>>), "isError", failed)
  BY <1>1, <1>5, <1>6, <1>7, ObjectOfTwo
<1>9. /\ ToolResult(e) \in Values /\ f # NoObject /\ DOMAIN f = {W["content"], W["isError"]}
      /\ f[W["isError"]] = failed
  BY <1>8 DEF HasTwo
<1> HIDE DEF f
<1>10. TryGetRawField(f, W["isError"]) = failed
  BY <1>6, <1>9 DEF TryGetRawField, Has
<1> QED
  BY <1>9, <1>10 DEF f, failed

-----------------------------------------------------------------------------
(* Names *)

\* The names of the methods the router knows are among the words.
LEMMA KnownMethods == Router!Methods \ {"unknown"} \subseteq DOMAIN W
<1>1. Router!Methods \ {"unknown"} \subseteq
        {"initialize", "notifications/initialized", "initialized", "tools/list", "tools/call"}
  BY DEF Router!Methods
<1> QED
  BY <1>1, KnownWords

\* A known name is kept as it is, another one is not taken for it.
LEMMA NamesKept ==
  ASSUME NEW known \in SUBSET DOMAIN W, "other" \notin known, Absent \notin known, NEW text
  PROVE  /\ NameOf(text, known) = Absent <=> text = Absent
         /\ \A n \in known : NameOf(text, known) = n <=> text = W[n]
         /\ NameOf(text, known) \in known \cup {"other", Absent}
<1>1. Absent # "other" /\ \A n \in known : W[n] # Absent /\ W[n] \in Seq(Nat)
  BY AbsentAssumption, MessageAssumption, WordsDiffer
<1>2. \A n, m \in known : W[n] = W[m] => n = m
  BY WordsDiffer
<1> DEFINE Says(n) == text = W[n]
           pick == CHOOSE n \in known : Says(n)
<1>3. CASE text = Absent
  <2>1. NameOf(text, known) = Absent
    BY <1>3 DEF NameOf
  <2> QED BY <1>1, <1>3, <2>1
<1>4. CASE text # Absent /\ \E n \in known : Says(n)
  <2>1. pick \in known /\ Says(pick)
    BY <1>4
  <2>2. NameOf(text, known) = pick
    BY <1>4 DEF NameOf
  <2> HIDE DEF pick
  <2>3. \A n \in known : pick = n <=> text = W[n]
    BY <1>2, <2>1
  <2> QED BY <1>4, <2>1, <2>2, <2>3
<1>5. CASE text # Absent /\ ~\E n \in known : Says(n)
  <2>1. NameOf(text, known) = "other"
    BY <1>5 DEF NameOf
  <2> QED BY <1>1, <1>5, <2>1
<1> QED
  BY <1>3, <1>4, <1>5

\* The method of a message is the router's method of that name, or "unknown".
LEMMA MethodsKept ==
  ASSUME NEW text
  PROVE  /\ MethodOf(text) = Absent <=> text = Absent
         /\ \A n \in Router!Methods \ {"unknown"} : MethodOf(text) = n <=> text = W[n]
         /\ MethodOf(text) \in Router!Methods \cup {Absent}
<1> DEFINE known == Router!Methods \ {"unknown"}
           n1 == NameOf(text, known)
<1>1. "other" \notin known /\ "unknown" \in Router!Methods /\ "other" # "unknown"
  BY DEF Router!Methods
<1>2. Absent \notin Router!Methods /\ Absent # "other"
  BY MessageAssumption
<1>3. known \in SUBSET DOMAIN W
  BY KnownMethods
<1>4. MethodOf(text) = IF n1 = "other" THEN "unknown" ELSE n1
  BY DEF MethodOf
<1> HIDE DEF n1
<1>5. /\ n1 = Absent <=> text = Absent
      /\ \A n \in known : n1 = n <=> text = W[n]
      /\ n1 \in known \cup {"other", Absent}
  BY <1>1, <1>2, <1>3, NamesKept DEF n1
<1>6. Absent # "unknown" /\ "unknown" \notin known
  BY <1>1, <1>2
<1> QED
  BY <1>1, <1>2, <1>4, <1>5, <1>6

\* A name is known as itself exactly where it stands.
LEMMA NameKept ==
  ASSUME NEW w \in DOMAIN W, w # "other", w # Absent, NEW text
  PROVE  /\ NameOf(text, {w}) = w <=> text = W[w]
         /\ NameOf(text, {w}) \in {w, "other", Absent}
<1>1. {w} \in SUBSET DOMAIN W /\ "other" \notin {w} /\ Absent \notin {w}
  OBVIOUS
<1> QED
  BY <1>1, NamesKept

-----------------------------------------------------------------------------
(* Fields *)

\* What a getter gives is of its kind, or absent.
LEMMA GettersTyped ==
  ASSUME NEW fields \in FieldMaps, NEW name \in Seq(Nat)
  PROVE  /\ TryGetStringField(fields, name) \in Seq(Nat) \cup {Absent}
         /\ TryGetObjectField(fields, name) \in FieldMaps
         /\ TryGetIntField(fields, name) \in Int \cup {Absent}
         /\ TryGetRawField(fields, name) \in Values \cup {Absent}
         /\ TryGetRawField(fields, name) = IF Has(fields, name) THEN fields[name] ELSE Absent
<1> DEFINE v == fields[name]
<1>1. Has(fields, name) => v \in Values /\ v \in Seq(Nat)
  <2>1. CASE fields = NoObject
    <3>1. DOMAIN fields = {Absent}
      BY <2>1 DEF NoObject
    <3> QED BY <3>1, AbsentAssumption DEF Has
  <2>2. CASE fields # NoObject
    <3>1. fields \in [DOMAIN fields -> Values]
      BY <2>2, FieldMapCases
    <3>2. Has(fields, name) => v \in Values
      BY <3>1 DEF Has
    <3> QED BY <3>2 DEF Values
  <2> QED BY <2>1, <2>2
<1> HIDE DEF v
<1>2. TryGetIntField(fields, name) \in Int \cup {Absent}
  <2>1. \A n : n \in (-IntMax - 1)..IntMax => n \in Int
    BY IntAssumption
  <2> QED BY <2>1 DEF TryGetIntField
<1>3. CASE ~Has(fields, name)
  <2>1. TryGetStringField(fields, name) = Absent
    BY <1>3 DEF TryGetStringField, NoString
  <2>2. TryGetObjectField(fields, name) = NoObject /\ TryGetRawField(fields, name) = Absent
    BY <1>3 DEF TryGetObjectField, TryGetRawField
  <2>3. NoObject \in FieldMaps
    BY DEF FieldMaps
  <2> QED BY <1>2, <1>3, <2>1, <2>2, <2>3
<1>4. CASE Has(fields, name)
  <2>1. v \in Values /\ v \in Seq(Nat)
    BY <1>1, <1>4
  <2>2. TryGetObjectField(fields, name) = ParseObjectFields(v)
    BY <1>4 DEF TryGetObjectField, v
  <2>3. ParseObjectFields(v) \in FieldMaps
    BY <2>1, ObjectFieldsAreValues
  <2>4. TryGetRawField(fields, name) = v
    <3>1. TryGetRawField(fields, name) = Trim(v)
      BY <1>4 DEF TryGetRawField, v
    <3> QED BY <2>1, <3>1, TrimValue
  <2>5. TryGetStringField(fields, name) \in Seq(Nat) \cup {Absent}
    <3> DEFINE s == ParseJsonString(v, 1)
    <3>1. s.out \in Seq(Nat)
      BY <2>1, StringEnd DEF Readings
    <3>2. TryGetStringField(fields, name) = IF s.pos # 0 /\ AtEnd(v, s.pos) THEN s.out ELSE Absent
      BY <1>4 DEF TryGetStringField, v
    <3> HIDE DEF s
    <3> QED BY <3>1, <3>2
  <2> QED BY <1>2, <1>4, <2>1, <2>2, <2>3, <2>4, <2>5 DEF v
<1> QED
  BY <1>3, <1>4

-----------------------------------------------------------------------------
(* Calls *)

\* HandleToolsCall goes on to the executor with the calls that McpRequest lets.
LEMMA CallsAgree ==
  ASSUME NEW params \in FieldMaps
  PROVE  /\ CallFrom(params) # Absent <=> Router!IsEval(CallIn(params))
         /\ CallIn(params) \in Router!Calls
<1> DEFINE arguments == TryGetObjectField(params, W["arguments"])
           name == TryGetStringField(params, W["name"])
           command == TryGetStringField(arguments, W["command"])
           named == NameOf(name, {"windbg.eval"})
           asks == arguments # NoObject
           says == asks /\ command \notin {Absent, <<>>}
<1>1. /\ named = "windbg.eval" <=> name = W["windbg.eval"]
      /\ named \in {"windbg.eval", "other", Absent}
  <2>1. "windbg.eval" \in DOMAIN W /\ "windbg.eval" # "other" /\ "windbg.eval" # Absent
    BY AnswerWords, MessageAssumption
  <2> HIDE DEF name
  <2> QED BY <2>1, NameKept
<1>0. /\ W["arguments"] \in Seq(Nat) /\ W["command"] \in Seq(Nat)
      /\ W["max_lines"] \in Seq(Nat) /\ W["pattern"] \in Seq(Nat)
  <2>1. /\ "arguments" \in DOMAIN W /\ "command" \in DOMAIN W
        /\ "max_lines" \in DOMAIN W /\ "pattern" \in DOMAIN W
    BY KnownWords
  <2> QED BY <2>1, WordsDiffer
<1>2. CASE params = NoObject
  <2>1. CallFrom(params) = Absent /\ CallIn(params) = NoCall
    BY <1>2 DEF CallFrom, CallIn
  <2>2. ~Router!IsEval(NoCall)
    BY DEF NoCall, Router!IsEval
  <2>3. NoCall \in Router!Calls
    BY DEF NoCall, Router!Calls
  <2> QED BY <2>1, <2>2, <2>3
<1>3. CASE params # NoObject
  <2>1. CallIn(params) = [params |-> TRUE, name |-> named, arguments |-> asks, command |-> says]
    BY <1>3 DEF CallIn, CallNamed
  <2>2. arguments \in FieldMaps
    BY <1>0, GettersTyped
  <2>3. CallWith(arguments) # Absent <=> says
    <3>1. CASE ~says
      <4>1. CallWith(arguments) = Absent
        BY <3>1 DEF CallWith
      <4> QED BY <3>1, <4>1
    <3>2. CASE says
      <4> DEFINE lines == IfAbsent(TryGetIntField(arguments, W["max_lines"]), DefaultMaxLines)
                 pattern == IfAbsent(TryGetStringField(arguments, W["pattern"]), <<>>)
                 call == [command |-> command, max_lines |-> lines, pattern |-> pattern]
      <4> HIDE DEF arguments
      <4>1. CallWith(arguments) = call
        BY <3>2 DEF CallWith
      <4>2. command \in Seq(Nat) \cup {Absent} /\ command # Absent
        BY <1>0, <2>2, <3>2, GettersTyped
      <4>3. lines \in Int
        BY <1>0, <2>2, GettersTyped DEF IfAbsent, DefaultMaxLines
      <4>4. pattern \in Seq(Nat)
        <5>1. <<>> \in Seq(Nat)
          BY EmptySeq
        <5> QED BY <1>0, <2>2, <5>1, GettersTyped DEF IfAbsent
      <4> HIDE DEF command, lines, pattern
      <4>5. call \in [command : Seq(Nat), max_lines : Int, pattern : Seq(Nat)]
        BY <4>2, <4>3, <4>4
      <4> QED BY <3>2, <4>1, <4>5, MessageAssumption
    <3> QED BY <3>1, <3>2
  <2>4. CallFrom(params) # Absent <=> name = W["windbg.eval"] /\ says
    BY <1>3, <2>3 DEF CallFrom
  <2> HIDE DEF named, asks, says
  <2>5. Router!IsEval(CallIn(params)) <=> named = "windbg.eval" /\ asks /\ says
    BY <2>1 DEF Router!IsEval
  <2>6. CallIn(params) \in Router!Calls
    <3>1. named \in {"windbg.eval", "other", Absent} /\ asks \in BOOLEAN /\ says \in BOOLEAN
      BY <1>1 DEF named, asks, says
    <3> QED BY <2>1, <3>1 DEF Router!Calls
  <2>7. says => asks
    BY DEF says
  <2> QED BY <1>1, <2>4, <2>5, <2>6, <2>7 DEF named
<1> QED
  BY <1>2, <1>3

-----------------------------------------------------------------------------
(* Answers understood *)

\* The code that an error's word stands for.
CodeNamed(code) ==
  CASE code = "-32600" -> -32600 [] code = "-32601" -> -32601
    [] code = "-32602" -> -32602 [] code = "-32700" -> -32700
\* The error codes of the answers to messages the router refuses.
ErrorNames == {"-32600", "-32601", "-32602", "-32700"}

\* An error answer is read back as the router's error answer with that identity
\* and code (BuildJsonRpcError, json_rpc.cpp).
LEMMA ErrorUnderstood ==
  ASSUME NEW id \in Values, NEW code \in ErrorNames
  PROVE  Understood(BuildJsonRpcError(id, code)) = Router!ErrorBody(id, CodeNamed(code))
<1> DEFINE t == BuildJsonRpcError(id, code)
           f == ParseObjectFields(t)
           g == ParseObjectFields(f[W["error"]])
<1>1. /\ "-32000" \in DOMAIN W /\ "-32600" \in DOMAIN W /\ "-32601" \in DOMAIN W
      /\ "-32602" \in DOMAIN W /\ "-32700" \in DOMAIN W
  BY KnownWords
<1>2. code \in DOMAIN W
  BY <1>1 DEF ErrorNames
<1>3. /\ f # NoObject /\ ~Has(f, W["result"]) /\ Has(f, W["id"]) /\ f[W["id"]] = id
      /\ TryGetRawField(g, W["code"]) = W[code]
  BY <1>2, ErrorFields
<1>4. CodeOf(W[code]) = CodeNamed(code)
  <2>1. \A a \in ErrorNames \cup {"-32000"} : W[code] = W[a] => code = a
    BY <1>1, <1>2, WordsDiffer DEF ErrorNames
  <2>2. CASE code = "-32600"
    BY <2>1, <2>2 DEF CodeOf, CodeNamed, ErrorNames
  <2>3. CASE code = "-32601"
    BY <2>1, <2>3 DEF CodeOf, CodeNamed, ErrorNames
  <2>4. CASE code = "-32602"
    BY <2>1, <2>4 DEF CodeOf, CodeNamed, ErrorNames
  <2>5. CASE code = "-32700"
    BY <2>1, <2>5 DEF CodeOf, CodeNamed, ErrorNames
  <2> QED BY <2>2, <2>3, <2>4, <2>5 DEF ErrorNames
<1>5. t # Absent
  <2>1. t \in Values
    BY <1>2, ErrorFields
  <2> QED BY <2>1, AbsentAssumption DEF Values
<1> HIDE DEF f, g, t
<1>6. UnderstoodFrom(f) = [kind |-> "error", id |-> id, failed |-> FALSE, code |-> CodeOf(TryGetRawField(g, W["code"]))]
  BY <1>3 DEF UnderstoodFrom, g
<1>7. Understood(t) = UnderstoodFrom(f)
  BY <1>5 DEF Understood, f
<1> QED
  BY <1>3, <1>4, <1>6, <1>7 DEF Router!ErrorBody, t

\* The result of an execution, and the fixed ones.
Result(result, failed) ==
  \/ result = FixedResult /\ ~failed
  \/ \E e : e.text \in Seq(Nat) /\ e.success \in BOOLEAN /\ result = ToolResult(e) /\ failed = ~e.success

\* An answer with a result is read back as the router's, failed exactly when the
\* result says isError (BuildJsonRpcSuccess, json_rpc.cpp).
LEMMA ResultUnderstood ==
  ASSUME NEW id \in Values, NEW result, NEW failed \in BOOLEAN, Result(result, failed)
  PROVE  Understood(BuildJsonRpcSuccess(id, result)) = Router!ResultBody(id, failed)
<1> DEFINE t == BuildJsonRpcSuccess(id, result)
           f == ParseObjectFields(t)
           g == ParseObjectFields(result)
           says == IfAbsent(TryGetRawField(g, W["isError"]), <<>>)
<1>1. "true" \in DOMAIN W /\ "false" \in DOMAIN W /\ "true" # "false"
  BY AnswerWords
<1>2. /\ W["true"] # W["false"] /\ <<>> # W["true"] /\ W["true"] \in Seq(Nat) /\ W["false"] \in Seq(Nat)
  BY <1>1, WordsDiffer
<1>3. result \in Values /\ (says = W["true"] <=> failed)
  <2>1. CASE result = FixedResult /\ ~failed
    <3>1. result \in Values /\ ~Has(g, W["isError"])
      BY <2>1, FixedResultFields
    <3>2. says = <<>>
      BY <3>1 DEF TryGetRawField, IfAbsent
    <3> QED BY <1>2, <2>1, <3>1, <3>2
  <2>2. ASSUME NEW e, e.text \in Seq(Nat), e.success \in BOOLEAN, result = ToolResult(e), failed = ~e.success
        PROVE  result \in Values /\ (says = W["true"] <=> failed)
    <3>1. result \in Values /\ TryGetRawField(g, W["isError"]) = W[IF e.success THEN "false" ELSE "true"]
      BY <2>2, ToolResultFields
    <3> HIDE DEF g
    <3>2. says = W[IF e.success THEN "false" ELSE "true"]
      BY <1>2, <2>2, <3>1, AbsentAssumption DEF IfAbsent
    <3> HIDE DEF says
    <3> QED BY <1>2, <2>2, <3>1, <3>2
  <2> QED BY <2>1, <2>2 DEF Result
<1>4. /\ f # NoObject /\ Has(f, W["result"]) /\ f[W["id"]] = id /\ f[W["result"]] = result
  BY <1>3, SuccessFields
<1>5. t # Absent
  <2>1. t \in Values
    BY <1>3, SuccessFields
  <2> QED BY <2>1, AbsentAssumption DEF Values
<1> HIDE DEF f, t
<1>6. UnderstoodFrom(f) = [kind |-> "result", id |-> id, code |-> 0, failed |-> (says = W["true"])]
  BY <1>4 DEF UnderstoodFrom
<1>7. Understood(t) = UnderstoodFrom(f)
  BY <1>5 DEF Understood, f
<1> HIDE DEF says
<1>8. (says = W["true"]) = failed
  BY <1>3
<1> QED
  BY <1>6, <1>7, <1>8 DEF Router!ResultBody, t

-----------------------------------------------------------------------------
(* The router *)

\* An answer is read by its body.
LEMMA ReadReply ==
  ASSUME NEW status, NEW b
  PROVE  ReadAnswer(Reply(status, b)) = Router!Reply(status, Understood(b))
BY DEF ReadAnswer, Reply, Router!Reply

\* An answer without a body is read as the router's.
LEMMA AcceptedUnderstood == ReadAnswer(Accepted) = Router!Accepted
<1>1. Understood(Absent) = Absent
  BY DEF Understood
<1> QED
  BY <1>1, ReadReply DEF Accepted, Router!Accepted

\* A refusal is read back as the router's, with the code it was written with.
LEMMA RefusalUnderstood ==
  ASSUME NEW id \in Values \cup {Absent}, NEW code \in ErrorNames
  PROVE  ReadAnswer(Refuse(id, code)) =
           Router!Reply(200, Router!ErrorBody(IfAbsent(id, W["null"]), CodeNamed(code)))
<1> DEFINE own == IfAbsent(id, W["null"])
<1>1. own \in Values
  BY AnswerWords, WordIsValue DEF IfAbsent
<1>2. Understood(BuildJsonRpcError(own, code)) = Router!ErrorBody(own, CodeNamed(code))
  BY <1>1, ErrorUnderstood
<1> HIDE DEF own
<1>3. Refuse(id, code) = Reply(200, BuildJsonRpcError(own, code))
  BY DEF Refuse, own
<1> QED
  BY <1>2, <1>3, ReadReply DEF own

\* What McpRequest is told of a message, and that it is one.
LEMMA MessageParts ==
  ASSUME NEW f \in FieldMaps, f # NoObject
  PROVE  LET m == MessageOf(f) IN
           /\ m \in Router!Messages /\ m # NotJson
           /\ m.jsonrpc = "2.0" <=> TryGetStringField(f, W["jsonrpc"]) = W["2.0"]
           /\ m.id = TryGetRawField(f, W["id"]) /\ m.id \in Values \cup {Absent}
           /\ m.method = MethodOf(TryGetStringField(f, W["method"]))
           /\ ToolCall(f) # Absent <=> Router!IsEval(m.call)
<1> DEFINE version == NameOf(TryGetStringField(f, W["jsonrpc"]), {"2.0"})
           id == TryGetRawField(f, W["id"])
           method == MethodOf(TryGetStringField(f, W["method"]))
           params == TryGetObjectField(f, W["params"])
           call == CallIn(params)
           m == MessageOf(f)
<1>1. W["id"] \in Seq(Nat) /\ W["params"] \in Seq(Nat) /\ "2.0" \in DOMAIN W
  <2>1. "id" \in DOMAIN W /\ "params" \in DOMAIN W /\ "2.0" \in DOMAIN W
    BY KnownWords
  <2> QED BY <2>1, WordsDiffer
<1>2. m = [jsonrpc |-> version, id |-> id, method |-> method, call |-> call]
  BY DEF MessageOf
<1>3. /\ version = "2.0" <=> TryGetStringField(f, W["jsonrpc"]) = W["2.0"]
      /\ version \in {"2.0", "other", Absent}
  <2>1. "2.0" # "other" /\ "2.0" # Absent
    BY MessageAssumption
  <2> QED BY <1>1, <2>1, NameKept
<1>4. id \in Values \cup {Absent}
  BY <1>1, GettersTyped
<1>5. method \in Router!Methods \cup {Absent}
  BY MethodsKept
<1>6. params \in FieldMaps
  BY <1>1, GettersTyped
<1> HIDE DEF params
<1>7. call \in Router!Calls /\ (CallFrom(params) # Absent <=> Router!IsEval(call))
  BY <1>6, CallsAgree
<1>8. ToolCall(f) = CallFrom(params)
  BY DEF ToolCall, params
<1> HIDE DEF version, id, method, call, m
<1>9. id \in Seq(Nat) \cup {W["null"], Absent}
  BY <1>4 DEF Values
<1>10. m \in Router!Messages
  BY <1>2, <1>3, <1>5, <1>7, <1>9 DEF Router!Messages
<1>11. m # NotJson
  BY <1>10, MessageAssumption
<1>12. m.jsonrpc = version /\ m.id = id /\ m.method = method /\ m.call = call
  BY <1>2
<1>13. m.jsonrpc = "2.0" <=> TryGetStringField(f, W["jsonrpc"]) = W["2.0"]
  BY <1>3, <1>12
<1>14. ToolCall(f) # Absent <=> Router!IsEval(m.call)
  BY <1>7, <1>8, <1>12
<1>15. m.id = id /\ m.id \in Values \cup {Absent} /\ m.method = method
  BY <1>4, <1>12
<1> QED
  BY <1>10, <1>11, <1>13, <1>14, <1>15 DEF m, id, method

\* A method of a message is answered as McpRequest answers it.
LEMMA MethodAnswered ==
  ASSUME NEW f \in FieldMaps, f # NoObject, NEW e, e.text \in Seq(Nat), e.success \in BOOLEAN,
         NEW failed \in BOOLEAN,
         failed <=> MessageOf(f).method = "tools/call" /\ Router!IsEval(MessageOf(f).call) /\ ~e.success,
         TryGetStringField(f, W["method"]) # Absent
  PROVE  ReadAnswer(Report(TryGetRawField(f, W["id"]), Outcome(TryGetStringField(f, W["method"]), f, e)))
           = Router!MethodAnswer(MessageOf(f), failed)
<1> DEFINE m == MessageOf(f)
           id == TryGetRawField(f, W["id"])
           text == TryGetStringField(f, W["method"])
           outcome == Outcome(text, f, e)
           eval == Router!IsEval(m.call)
           own == IfAbsent(id, W["null"])
<1>1. /\ m.id = id /\ id \in Values \cup {Absent} /\ m.method = MethodOf(text)
      /\ ToolCall(f) # Absent <=> eval
  BY MessageParts
<1>2. /\ MethodOf(text) # Absent
      /\ \A n \in Router!Methods \ {"unknown"} : MethodOf(text) = n <=> text = W[n]
      /\ MethodOf(text) \in Router!Methods
  BY MethodsKept
<1> HIDE DEF m, text
<1>3. /\ m.method \in Router!FixedResults <=> text \in FixedMethods
      /\ m.method = "tools/call" <=> text = W["tools/call"]
  BY <1>1, <1>2 DEF Router!Methods, Router!FixedResults, FixedMethods
<1>4. failed <=> m.method = "tools/call" /\ eval /\ ~e.success
  BY DEF m
<1>5. "tools/call" \notin Router!FixedResults
  BY DEF Router!FixedResults
<1>6. Router!EchoedId(m) = own
  BY <1>1 DEF Router!EchoedId, IfAbsent
<1> HIDE DEF id, eval
<1>7. ASSUME NEW code \in ErrorNames, outcome = [ok |-> FALSE, code |-> code],
             Router!ErrorCode(m) = CodeNamed(code), CodeNamed(code) # 0
      PROVE  ReadAnswer(Report(id, outcome)) = Router!MethodAnswer(m, failed)
  <2>1. Report(id, outcome) = Refuse(id, code)
    BY <1>7 DEF Report
  <2>2. ReadAnswer(Refuse(id, code)) = Router!Reply(200, Router!ErrorBody(own, CodeNamed(code)))
    BY <1>1, RefusalUnderstood
  <2> HIDE DEF outcome, own
  <2>3. Router!MethodAnswer(m, failed) = Router!Reply(200, Router!ErrorBody(own, CodeNamed(code)))
    BY <1>6, <1>7 DEF Router!MethodAnswer
  <2> QED BY <2>1, <2>2, <2>3
<1>8. ASSUME NEW result, outcome = [ok |-> TRUE, result |-> result], Router!ErrorCode(m) = 0,
             Result(result, failed)
      PROVE  ReadAnswer(Report(id, outcome)) = Router!MethodAnswer(m, failed)
  <2>1. CASE id = Absent
    <3>1. Report(id, outcome) = Accepted
      BY <1>8, <2>1 DEF Report
    <3>2. Router!MethodAnswer(m, failed) = Router!Accepted
      BY <1>1, <1>8, <2>1 DEF Router!MethodAnswer
    <3> QED BY <3>1, <3>2, AcceptedUnderstood
  <2>2. CASE id # Absent
    <3>1. Report(id, outcome) = Reply(200, BuildJsonRpcSuccess(id, result))
      BY <1>8, <2>2 DEF Report
    <3>2. Understood(BuildJsonRpcSuccess(id, result)) = Router!ResultBody(id, failed)
      BY <1>1, <1>8, <2>2, ResultUnderstood
    <3>3. Router!MethodAnswer(m, failed) = Router!Reply(200, Router!ResultBody(id, failed))
      BY <1>1, <1>8, <2>2 DEF Router!MethodAnswer
    <3> QED BY <3>1, <3>2, <3>3, ReadReply
  <2> QED BY <2>1, <2>2
<1>9. CASE text \in FixedMethods
  <2>1. outcome = [ok |-> TRUE, result |-> FixedResult]
    BY <1>9 DEF Outcome
  <2>2. Router!ErrorCode(m) = 0
    BY <1>3, <1>5, <1>9 DEF Router!ErrorCode
  <2>3. Result(FixedResult, failed)
    BY <1>3, <1>4, <1>5, <1>9 DEF Result
  <2> QED BY <1>8, <2>1, <2>2, <2>3 DEF m, id, text
<1>10. CASE text \notin FixedMethods /\ text # W["tools/call"]
  <2>1. outcome = [ok |-> FALSE, code |-> "-32601"]
    BY <1>10 DEF Outcome
  <2>2. Router!ErrorCode(m) = -32601
    BY <1>3, <1>10 DEF Router!ErrorCode
  <2>3. "-32601" \in ErrorNames /\ CodeNamed("-32601") = -32601 /\ -32601 # 0
    BY DEF ErrorNames, CodeNamed
  <2> QED BY <1>7, <2>1, <2>2, <2>3 DEF m, id, text
<1>11. CASE text \notin FixedMethods /\ text = W["tools/call"] /\ ToolCall(f) = Absent
  <2>1. outcome = [ok |-> FALSE, code |-> "-32602"]
    BY <1>11 DEF Outcome
  <2>2. Router!ErrorCode(m) = -32602
    BY <1>1, <1>3, <1>11 DEF Router!ErrorCode, eval
  <2>3. "-32602" \in ErrorNames /\ CodeNamed("-32602") = -32602 /\ -32602 # 0
    BY DEF ErrorNames, CodeNamed
  <2> QED BY <1>7, <2>1, <2>2, <2>3 DEF m, id, text
<1>12. CASE text \notin FixedMethods /\ text = W["tools/call"] /\ ToolCall(f) # Absent
  <2>1. outcome = [ok |-> TRUE, result |-> ToolResult(e)]
    BY <1>12 DEF Outcome
  <2>2. Router!ErrorCode(m) = 0
    BY <1>1, <1>3, <1>12 DEF Router!ErrorCode, eval
  <2>3. failed = ~e.success
    BY <1>1, <1>3, <1>4, <1>12
  <2>4. Result(ToolResult(e), failed)
    BY <2>3 DEF Result
  <2> QED BY <1>8, <2>1, <2>2, <2>4 DEF m, id, text
<1> QED
  BY <1>9, <1>10, <1>11, <1>12

\* What a client reads in the answer to a text is what McpRequest decides for it.
THEOREM AnswersDecided ==
  ASSUME NEW t \in Seq(Nat), NEW e, e.text \in Seq(Nat), e.success \in BOOLEAN
  PROVE  ReadAnswer(HandleJsonRpcPost(t, e)) =
           Router!HandleJsonRpcPost(Request(t), Router!Executes(Request(t)) /\ ~e.success)
<1> DEFINE f == ParseObjectFields(t)
           m == MessageOf(f)
           r == Request(t)
           failed == Router!Executes(r) /\ ~e.success
           id == TryGetRawField(f, W["id"])
           method == TryGetStringField(f, W["method"])
           version == TryGetStringField(f, W["jsonrpc"])
<1>1. f \in FieldMaps
  BY ObjectFieldsAreValues
<1>2. r.body = m
  BY DEF Request
<1> HIDE DEF f, r
<1>3. CASE f = NoObject
  <2>1. m = NotJson
    BY <1>3 DEF MessageOf
  <2>2. Router!HandleJsonRpcPost(r, failed) = Router!Reply(400, Router!ErrorBody(W["null"], -32700))
    BY <1>2, <2>1 DEF Router!HandleJsonRpcPost, Router!IsObject
  <2>3. HandleJsonRpcPost(t, e) = Reply(400, BuildJsonRpcError(W["null"], "-32700"))
    BY <1>3 DEF HandleJsonRpcPost, Answer, f
  <2>4. Understood(BuildJsonRpcError(W["null"], "-32700")) = Router!ErrorBody(W["null"], -32700)
    <3>1. W["null"] \in Values
      BY AnswerWords, WordIsValue
    <3>2. "-32700" \in ErrorNames /\ CodeNamed("-32700") = -32700
      BY DEF ErrorNames, CodeNamed
    <3> QED BY <3>1, <3>2, ErrorUnderstood
  <2> HIDE DEF failed
  <2> QED BY <2>2, <2>3, <2>4, ReadReply DEF r, failed
<1>4. CASE f # NoObject
  <2>1. /\ m # NotJson /\ (m.jsonrpc = "2.0" <=> version = W["2.0"])
        /\ m.id = id /\ id \in Values \cup {Absent} /\ m.method = MethodOf(method)
    BY <1>1, <1>4, MessageParts
  <2>2. m.method = Absent <=> method = Absent
    BY <2>1, MethodsKept
  <2>3. HandleJsonRpcPost(t, e) = AnswerMethod(method, id, f, e)
    BY <1>4 DEF HandleJsonRpcPost, Answer, f
  <2>4. Router!IsObject(r) /\ (Router!Dispatched(r) <=> version = W["2.0"] /\ method # Absent)
    BY <1>2, <2>1, <2>2 DEF Router!IsObject, Router!Dispatched
  <2>5. "-32600" \in ErrorNames /\ CodeNamed("-32600") = -32600
    BY DEF ErrorNames, CodeNamed
  <2>6. Router!EchoedId(m) = IfAbsent(id, W["null"])
    BY <2>1 DEF Router!EchoedId, IfAbsent
  <2>7. ReadAnswer(Refuse(id, "-32600")) = Router!Reply(200, Router!ErrorBody(Router!EchoedId(m), -32600))
    <3> HIDE DEF m, id
    <3>1. ReadAnswer(Refuse(id, "-32600")) =
            Router!Reply(200, Router!ErrorBody(IfAbsent(id, W["null"]), CodeNamed("-32600")))
      BY <2>1, <2>5, RefusalUnderstood
    <3> QED BY <2>5, <2>6, <3>1
  <2>8. ~Router!Dispatched(r) => Router!HandleJsonRpcPost(r, failed) = Router!InvalidMessage(m)
    BY <1>2, <2>4 DEF Router!HandleJsonRpcPost
  <2>9. CASE version # W["2.0"]
    <3>1. AnswerMethod(method, id, f, e) = Refuse(id, "-32600")
      BY <2>9 DEF AnswerMethod
    <3>2. Router!InvalidMessage(m) = Router!Reply(200, Router!ErrorBody(Router!EchoedId(m), -32600))
      BY <2>1, <2>9 DEF Router!InvalidMessage
    <3> HIDE DEF m, id, method, version, failed
    <3> QED BY <2>3, <2>4, <2>7, <2>8, <2>9, <3>1, <3>2 DEF r, failed
  <2>10. CASE version = W["2.0"] /\ method = Absent
    <3>1. AnswerMethod(method, id, f, e) = IF id = Absent THEN Accepted ELSE Refuse(id, "-32600")
      BY <2>10 DEF AnswerMethod
    <3>2. Router!InvalidMessage(m) =
            IF id = Absent THEN Router!Accepted
            ELSE Router!Reply(200, Router!ErrorBody(Router!EchoedId(m), -32600))
      BY <2>1, <2>10 DEF Router!InvalidMessage
    <3> HIDE DEF m, id, method, version, failed
    <3> QED BY <2>3, <2>4, <2>7, <2>8, <2>10, <3>1, <3>2, AcceptedUnderstood DEF r, failed
  <2>11. CASE version = W["2.0"] /\ method # Absent
    <3>1. AnswerMethod(method, id, f, e) = Report(id, Outcome(method, f, e))
      BY <2>11 DEF AnswerMethod
    <3>2. Router!HandleJsonRpcPost(r, failed) = Router!MethodAnswer(m, failed)
      BY <1>2, <2>4, <2>11 DEF Router!HandleJsonRpcPost
    <3>3. failed <=> m.method = "tools/call" /\ Router!IsEval(m.call) /\ ~e.success
      BY <1>2, <2>4, <2>11 DEF Router!Executes, Router!IsToolsCall
    <3>4. failed \in BOOLEAN
      OBVIOUS
    <3> HIDE DEF failed
    <3>5. ReadAnswer(Report(id, Outcome(method, f, e))) = Router!MethodAnswer(m, failed)
      BY <1>1, <1>4, <2>11, <3>3, <3>4, MethodAnswered
    <3> HIDE DEF m, id, method, version
    <3> QED BY <2>3, <3>1, <3>2, <3>5 DEF r, failed
  <2> QED BY <2>9, <2>10, <2>11
<1> QED
  BY <1>3, <1>4

-----------------------------------------------------------------------------
(* The specification *)

\* Bodies are texts.
BodyTyped ==
  body \in Seq(Nat) /\ left \in Nat /\ \A chunk \in chunks : chunk \in Seq(Nat)

\* A client writes bytes and words, whatever it has written so far.
LEMMA BodyIsTyped == Spec => []BodyTyped
<1>1. Init => BodyTyped
  BY StartsAssumption DEF Init, BodyTyped
<1>2. BodyTyped /\ [Next]_vars => BodyTyped'
  <2> SUFFICES ASSUME BodyTyped, [Next]_vars PROVE BodyTyped'
    OBVIOUS
  <2>1. CASE UNCHANGED vars
    BY <2>1 DEF BodyTyped, vars
  <2>2. ASSUME NEW chunk \in chunks, Write(chunk) PROVE BodyTyped'
    <3>1. body' = body \o chunk /\ left' = left - 1 /\ left > 0 /\ chunks' = chunks
      BY <2>2 DEF Write
    <3>2. body' \in Seq(Nat)
      <4>1. body \in Seq(Nat) /\ chunk \in Seq(Nat)
        BY DEF BodyTyped
      <4> QED BY <3>1, <4>1, ConcatProperties
    <3>3. left' \in Nat
      BY <3>1 DEF BodyTyped
    <3> QED BY <3>1, <3>2, <3>3 DEF BodyTyped
  <2> QED BY <2>1, <2>2 DEF Next
<1> QED
  BY <1>1, <1>2, PTL DEF Spec

\* Every answer says in its text what McpRequest decides for the message: no id,
\* however it is spelled, and no output breaks the answer it is put into.
THEOREM AnswersAreAsModelled == Spec => []AnswersAsModelled
<1>1. BodyTyped => AnswersAsModelled
  <2> SUFFICES ASSUME BodyTyped, NEW e \in Executions
               PROVE  ReadAnswer(HandleJsonRpcPost(body, e)) =
                        Router!HandleJsonRpcPost(Request(body), Router!Executes(Request(body)) /\ ~e.success)
    BY DEF AnswersAsModelled, AnswersAgree, Decided
  <2>1. e.success \in BOOLEAN /\ e.text \in Seq(Nat) /\ body \in Seq(Nat)
    BY OutputsAssumption DEF Executions, BodyTyped
  <2> QED BY <2>1, AnswersDecided
<1> QED
  BY <1>1, BodyIsTyped, PTL

-----------------------------------------------------------------------------
(* Lines of the log *)

\* Symbols that do not end a line, and the fields a line is made of.
Unbroken == Nat \ BreaksLine
LineNames ==
  {"trace_id", "stage", "method", "path", "rpc_meta", "rpc_method", "rpc_id", "tool",
   "sensitive_headers", "outcome", "rpc_outcome", "msg", "error", "result", "body"}
LineFields == [name : LineNames, text : Seq(Unbroken)]

\* A line, and what it shows of the trace, the id and the outcome of a request.
Tells(line, traces, ids, outcomes) ==
  /\ line \in Seq(LineFields)
  /\ ShownTexts(line, "trace_id") = traces
  /\ ShownTexts(line, "rpc_id") = ids
  /\ ShownTexts(line, "rpc_outcome") = outcomes

\* The words shown in the log.
LEMMA LogWords ==
  /\ "POST" \in DOMAIN W /\ "/mcp" \in DOMAIN W /\ "none" \in DOMAIN W
  /\ "...(truncated)" \in DOMAIN W /\ "(missing)" \in DOMAIN W /\ "(empty)" \in DOMAIN W
  /\ "rpc:" \in DOMAIN W /\ "local-" \in DOMAIN W /\ "in_progress" \in DOMAIN W
  /\ "success" \in DOMAIN W /\ "unknown" \in DOMAIN W /\ "unparseable" \in DOMAIN W
  /\ "request_received" \in DOMAIN W /\ "route_dispatch" \in DOMAIN W
  /\ "tool_execute_start" \in DOMAIN W /\ "response_sent" \in DOMAIN W
  /\ "authorization" \in DOMAIN W /\ "proxy-authorization" \in DOMAIN W
  /\ "x-api-key" \in DOMAIN W /\ "other" \in DOMAIN W
<1>1. DOMAIN W = {Words[i] : i \in 1..Len(Words)}
  BY DEF W
<1>2. Len(Words) = 58
  BY DEF Words
<1>3. \A i \in 1..58 : Words[i] \in DOMAIN W
  BY <1>1, <1>2
<1>4. "POST" \in DOMAIN W /\ "/mcp" \in DOMAIN W /\ "other" \in DOMAIN W
  <2>1. Words[30] = "POST" /\ Words[32] = "/mcp" /\ Words[17] = "other"
    BY DEF Words
  <2>2. Words[30] \in DOMAIN W /\ Words[32] \in DOMAIN W /\ Words[17] \in DOMAIN W
    BY <1>3
  <2> QED BY <2>1, <2>2
<1>5. "authorization" \in DOMAIN W /\ "proxy-authorization" \in DOMAIN W /\ "x-api-key" \in DOMAIN W
  <2>1. Words[33] = "authorization" /\ Words[34] = "proxy-authorization" /\ Words[35] = "x-api-key"
    BY DEF Words
  <2>2. Words[33] \in DOMAIN W /\ Words[34] \in DOMAIN W /\ Words[35] \in DOMAIN W
    BY <1>3
  <2> QED BY <2>1, <2>2
<1>6. "none" \in DOMAIN W /\ "rpc:" \in DOMAIN W /\ "local-" \in DOMAIN W
  <2>1. Words[36] = "none" /\ Words[41] = "rpc:" /\ Words[42] = "local-"
    BY DEF Words
  <2>2. Words[36] \in DOMAIN W /\ Words[41] \in DOMAIN W /\ Words[42] \in DOMAIN W
    BY <1>3
  <2> QED BY <2>1, <2>2
<1>7. "...(truncated)" \in DOMAIN W
  <2>1. Words[37] = "...(truncated)"
    BY DEF Words
  <2>2. Words[37] \in DOMAIN W
    BY <1>3
  <2> QED BY Zenon, <2>1, <2>2
<1>8. "(missing)" \in DOMAIN W
  <2>1. Words[38] = "(missing)"
    BY DEF Words
  <2>2. Words[38] \in DOMAIN W
    BY <1>3
  <2> QED BY Zenon, <2>1, <2>2
<1>9. "(empty)" \in DOMAIN W
  <2>1. Words[39] = "(empty)"
    BY DEF Words
  <2>2. Words[39] \in DOMAIN W
    BY <1>3
  <2> QED BY Zenon, <2>1, <2>2
<1>10. "in_progress" \in DOMAIN W /\ "success" \in DOMAIN W /\ "unknown" \in DOMAIN W
  <2>1. Words[43] = "in_progress" /\ Words[44] = "success" /\ Words[45] = "unknown"
    BY DEF Words
  <2>2. Words[43] \in DOMAIN W /\ Words[44] \in DOMAIN W /\ Words[45] \in DOMAIN W
    BY <1>3
  <2> QED BY <2>1, <2>2
<1>11. "unparseable" \in DOMAIN W /\ "request_received" \in DOMAIN W /\ "route_dispatch" \in DOMAIN W
  <2>1. Words[46] = "unparseable" /\ Words[47] = "request_received" /\ Words[48] = "route_dispatch"
    BY DEF Words
  <2>2. Words[46] \in DOMAIN W /\ Words[47] \in DOMAIN W /\ Words[48] \in DOMAIN W
    BY <1>3
  <2> QED BY <2>1, <2>2
<1>12. "tool_execute_start" \in DOMAIN W /\ "response_sent" \in DOMAIN W
  <2>1. Words[49] = "tool_execute_start" /\ Words[51] = "response_sent"
    BY DEF Words
  <2>2. Words[49] \in DOMAIN W /\ Words[51] \in DOMAIN W
    BY <1>3
  <2> QED BY <2>1, <2>2
<1> QED
  BY <1>4, <1>5, <1>6, <1>7, <1>8, <1>9, <1>10, <1>11, <1>12

\* A word does not end a line.
LEMMA WordUnbroken ==
  ASSUME NEW w \in DOMAIN W
  PROVE  W[w] \in Seq(Nat) /\ W[w] # <<>> /\ W[w] \in Seq(Unbroken)
<1> DEFINE v == W[w]
<1>1. v \in Seq(Nat) /\ Len(v) = 1 /\ v # <<>> /\ v[1] > 255
  BY WordsDiffer
<1> HIDE DEF v
<1>2. \A c \in Nat : c > 255 => c \in Unbroken
  BY DEF Unbroken, BreaksLine
<1>3. v[1] \in Nat
  BY <1>1
<1>4. \A i \in 1..Len(v) : v[i] \in Unbroken
  BY <1>1, <1>2, <1>3
<1>5. v \in Seq(Unbroken)
  <2>1. v = [i \in 1..Len(v) |-> v[i]] /\ Len(v) \in Nat
    BY <1>1, LenProperties
  <2> QED BY <1>4, <2>1
<1> QED
  BY <1>1, <1>5 DEF v

\* What the log shows of a text stays on its line (TruncateForSummary, io_echo.cpp).
LEMMA TruncatedUnbroken ==
  ASSUME NEW t \in Seq(Nat)
  PROVE  TruncateForSummary(t) \in Seq(Unbroken)
<1> DEFINE s == SanitizeSingleLine(t)
           k == kSummaryValueLimit
           cut == SubSeq(s, 1, k)
<1>1. s \in Seq(Unbroken)
  <2>1. Len(t) \in Nat /\ \A i \in 1..Len(t) : t[i] \in Nat
    BY LenProperties, ElementOfSeq
  <2>2. \A c \in Nat : (IF c \in BreaksLine THEN Space ELSE c) \in Unbroken
    BY DEF Unbroken, BreaksLine, Space
  <2>3. \A i \in 1..Len(t) : (IF t[i] \in BreaksLine THEN Space ELSE t[i]) \in Unbroken
    BY <2>1, <2>2
  <2> QED BY <2>1, <2>3 DEF SanitizeSingleLine
<1> HIDE DEF s
<1>2. TruncateForSummary(t) = IF Len(s) <= k THEN s ELSE cut \o W["...(truncated)"]
  BY DEF TruncateForSummary, s
<1>3. CASE ~(Len(s) <= k)
  <2>1. k \in Nat /\ k \in 0..Len(s) /\ Len(s) \in Nat
    BY <1>1, <1>3, LimitAssumption, LenProperties
  <2>2. 1 \in 1..(Len(s) + 1)
    BY <2>1
  <2> HIDE DEF k
  <2>3. cut \in Seq(Unbroken)
    BY <1>1, <2>1, <2>2, SubSeqProperties
  <2>4. W["...(truncated)"] \in Seq(Unbroken)
    BY LogWords, WordUnbroken
  <2> HIDE DEF cut
  <2> QED BY <1>2, <1>3, <2>3, <2>4, ConcatProperties
<1> QED
  BY <1>1, <1>2, <1>3

\* A line put together of two parts shows what they show.
LEMMA TellsConcat ==
  ASSUME NEW a, NEW b, NEW t1, NEW i1, NEW o1, NEW t2, NEW i2, NEW o2,
         Tells(a, t1, i1, o1), Tells(b, t2, i2, o2)
  PROVE  Tells(a \o b, t1 \cup t2, i1 \cup i2, o1 \cup o2)
<1>1. a \in Seq(LineFields) /\ b \in Seq(LineFields)
  BY DEF Tells
<1>2. /\ a \o b \in Seq(LineFields) /\ Len(a \o b) = Len(a) + Len(b)
      /\ \A i \in 1..(Len(a) + Len(b)) : (a \o b)[i] = IF i <= Len(a) THEN a[i] ELSE b[i - Len(a)]
  BY Zenon, <1>1, ConcatProperties
<1>3. Len(a) \in Nat /\ Len(b) \in Nat
  BY <1>1, LenProperties
<1>4. ASSUME NEW n PROVE ShownTexts(a \o b, n) = ShownTexts(a, n) \cup ShownTexts(b, n)
  <2> DEFINE c == a \o b
  <2> HIDE DEF c
  <2>1. Len(c) = Len(a) + Len(b)
    BY <1>2 DEF c
  <2>2. \A i \in 1..Len(a) : i \in 1..Len(c) /\ c[i] = a[i]
    <3>1. \A i \in 1..Len(a) : i \in 1..(Len(a) + Len(b)) /\ i <= Len(a)
      BY <1>3
    <3> QED BY <1>2, <3>1 DEF c
  <2>3. \A i \in 1..Len(b) : Len(a) + i \in 1..Len(c) /\ c[Len(a) + i] = b[i]
    <3>1. \A i \in 1..Len(b) : /\ Len(a) + i \in 1..(Len(a) + Len(b)) /\ ~(Len(a) + i <= Len(a))
                               /\ (Len(a) + i) - Len(a) = i
      BY <1>3
    <3> QED BY <1>2, <3>1 DEF c
  <2>4. \A i \in 1..Len(c) : i \in 1..Len(a) \/ \E j \in 1..Len(b) : i = Len(a) + j
    <3>1. ASSUME NEW i \in 1..Len(c), i \notin 1..Len(a) PROVE \E j \in 1..Len(b) : i = Len(a) + j
      <4>1. i - Len(a) \in 1..Len(b) /\ i = Len(a) + (i - Len(a))
        BY <1>3, <2>1, <3>1
      <4> QED BY <4>1
    <3> QED BY <3>1
  <2>5. ASSUME NEW x \in ShownTexts(c, n) PROVE x \in ShownTexts(a, n) \cup ShownTexts(b, n)
    <3>1. PICK i \in 1..Len(c) : c[i].name = n /\ x = c[i].text
      BY DEF ShownTexts
    <3>2. CASE i \in 1..Len(a)
      BY <2>2, <3>1, <3>2 DEF ShownTexts
    <3>3. CASE i \notin 1..Len(a)
      <4>1. PICK j \in 1..Len(b) : i = Len(a) + j
        BY <2>4, <3>3
      <4>2. c[i] = b[j]
        BY <2>3, <4>1
      <4> QED BY <3>1, <4>2 DEF ShownTexts
    <3> QED BY <3>2, <3>3
  <2>6. ASSUME NEW x \in ShownTexts(a, n) PROVE x \in ShownTexts(c, n)
    <3>1. PICK i \in 1..Len(a) : a[i].name = n /\ x = a[i].text
      BY DEF ShownTexts
    <3> QED BY <2>2, <3>1 DEF ShownTexts
  <2>7. ASSUME NEW x \in ShownTexts(b, n) PROVE x \in ShownTexts(c, n)
    <3>1. PICK i \in 1..Len(b) : b[i].name = n /\ x = b[i].text
      BY DEF ShownTexts
    <3>2. Len(a) + i \in 1..Len(c) /\ c[Len(a) + i] = b[i]
      BY <2>3
    <3> QED BY <3>1, <3>2 DEF ShownTexts
  <2> QED BY <2>5, <2>6, <2>7 DEF c
<1>5. /\ ShownTexts(a, "trace_id") = t1 /\ ShownTexts(a, "rpc_id") = i1 /\ ShownTexts(a, "rpc_outcome") = o1
      /\ ShownTexts(b, "trace_id") = t2 /\ ShownTexts(b, "rpc_id") = i2 /\ ShownTexts(b, "rpc_outcome") = o2
  BY DEF Tells
<1> QED
  BY <1>2, <1>4, <1>5 DEF Tells

\* A line of one field.
LEMMA TellsField ==
  ASSUME NEW f \in LineFields
  PROVE  Tells(<<f>>, IF f.name = "trace_id" THEN {f.text} ELSE {},
               IF f.name = "rpc_id" THEN {f.text} ELSE {}, IF f.name = "rpc_outcome" THEN {f.text} ELSE {})
<1> DEFINE a == <<f>>
<1>1. a \in Seq(LineFields) /\ Len(a) = 1 /\ a[1] = f
  OBVIOUS
<1> HIDE DEF a
<1>2. ASSUME NEW n PROVE ShownTexts(a, n) = IF f.name = n THEN {f.text} ELSE {}
  <2>1. 1..Len(a) = {1}
    BY <1>1
  <2> QED BY <1>1, <2>1 DEF ShownTexts
<1> QED
  BY <1>1, <1>2 DEF Tells, a

\* A line of nothing.
LEMMA TellsNothing == Tells(<<>>, {}, {}, {})
<1>1. <<>> \in Seq(LineFields) /\ Len(<<>>) = 0
  OBVIOUS
<1>2. ASSUME NEW n PROVE ShownTexts(<<>>, n) = {}
  BY DEF ShownTexts
<1> QED
  BY <1>1, <1>2 DEF Tells

\* A field shows its text.
LEMMA TellsShow ==
  ASSUME NEW name \in LineNames, NEW t \in Seq(Nat)
  PROVE  Tells(Show(name, t), IF name = "trace_id" THEN {TruncateForSummary(t)} ELSE {},
               IF name = "rpc_id" THEN {TruncateForSummary(t)} ELSE {},
               IF name = "rpc_outcome" THEN {TruncateForSummary(t)} ELSE {})
<1> DEFINE f == [name |-> name, text |-> TruncateForSummary(t)]
<1>1. f \in LineFields /\ f.name = name /\ f.text = TruncateForSummary(t)
  BY TruncatedUnbroken DEF LineFields
<1>2. Show(name, t) = <<f>>
  BY DEF Show
<1> HIDE DEF f
<1> QED
  BY <1>1, <1>2, TellsField

\* A field that is only shown if there is something to show.
LEMMA TellsShowIf ==
  ASSUME NEW name \in LineNames, NEW t, NEW shown \in BOOLEAN, shown => t \in Seq(Nat)
  PROVE  Tells(ShowIf(shown, name, t), IF shown /\ name = "trace_id" THEN {TruncateForSummary(t)} ELSE {},
               IF shown /\ name = "rpc_id" THEN {TruncateForSummary(t)} ELSE {},
               IF shown /\ name = "rpc_outcome" THEN {TruncateForSummary(t)} ELSE {})
<1>1. CASE shown
  <2>1. ShowIf(shown, name, t) = Show(name, t)
    BY <1>1 DEF ShowIf
  <2> QED BY <1>1, <2>1, TellsShow
<1>2. CASE ~shown
  <2>1. ShowIf(shown, name, t) = <<>>
    BY <1>2 DEF ShowIf
  <2> QED BY <1>2, <2>1, TellsNothing
<1> QED
  BY <1>1, <1>2

\* A field of the log that tells nothing of the request it is about.
LEMMA TellsOther ==
  ASSUME NEW name \in LineNames \ {"trace_id", "rpc_id", "rpc_outcome"}, NEW t, NEW shown \in BOOLEAN,
         shown => t \in Seq(Nat)
  PROVE  /\ Tells(ShowIf(shown, name, t), {}, {}, {})
         /\ shown => Tells(Show(name, t), {}, {}, {})
<1>1. name \in LineNames /\ name # "trace_id" /\ name # "rpc_id" /\ name # "rpc_outcome"
  OBVIOUS
<1>2. Tells(ShowIf(shown, name, t), {}, {}, {})
  BY <1>1, TellsShowIf
<1>3. shown => Tells(Show(name, t), {}, {}, {})
  BY <1>1, TellsShow
<1> QED
  BY <1>2, <1>3

\* What is known of a trace context, and of what was read of a request.
IsContext(c) ==
  /\ c.trace_id \in Seq(Nat) /\ c.trace_id # <<>> /\ c.stage \in Seq(Nat)
  /\ c.method \in Seq(Nat) /\ c.id \in Seq(Nat) /\ c.tool \in Seq(Nat) /\ c.outcome \in Seq(Nat)
IsRequestMeta(meta) ==
  /\ meta.method \in Seq(Nat) \cup {Absent} /\ meta.tool \in Seq(Nat) \cup {Absent}
  /\ meta.id \in Values \cup {Absent}

\* A context shows its trace.
LEMMA TraceContextTells ==
  ASSUME NEW c, IsContext(c)
  PROVE  Tells(AppendTraceContext(c), {TruncateForSummary(c.trace_id)}, {}, {})
<1>1. c.trace_id # <<>> /\ c.trace_id \in Seq(Nat) /\ c.stage \in Seq(Nat)
  BY DEF IsContext
<1>2. "trace_id" \in LineNames /\ "stage" \in LineNames \ {"trace_id", "rpc_id", "rpc_outcome"}
  BY DEF LineNames
<1>3. Tells(ShowIf(c.trace_id # <<>>, "trace_id", c.trace_id), {TruncateForSummary(c.trace_id)}, {}, {})
  <2>1. "trace_id" # "rpc_id" /\ "trace_id" # "rpc_outcome" /\ (c.trace_id # <<>>) \in BOOLEAN
    OBVIOUS
  <2> QED BY <1>1, <1>2, <2>1, TellsShowIf
<1>4. Tells(ShowIf(c.stage # <<>>, "stage", c.stage), {}, {}, {})
  BY <1>1, <1>2, TellsOther
<1> HIDE DEF LineNames
<1>5. Tells(AppendTraceContext(c), {TruncateForSummary(c.trace_id)} \cup {}, {} \cup {}, {} \cup {})
  BY <1>3, <1>4, TellsConcat DEF AppendTraceContext
<1> QED
  BY <1>5

\* What is preferred is a text if there is one to prefer.
LEMMA PreferredTyped ==
  ASSUME NEW ours \in Seq(Nat), NEW read \in Seq(Nat) \cup {Absent}, NEW default \in Seq(Nat)
  PROVE  /\ Preferred(ours, read, default) \in Seq(Nat)
         /\ ours # <<>> => Preferred(ours, read, default) = ours
BY DEF Preferred, IfAbsent

\* What is shown of a request shows the id of its context.
LEMMA RequestMetaTells ==
  ASSUME NEW meta, NEW c, IsContext(c), IsRequestMeta(meta)
  PROVE  \E shown : /\ Tells(AppendRpcRequestMeta(meta, c), {}, {TruncateForSummary(shown)}, {})
                    /\ c.id # <<>> => shown = c.id
<1> DEFINE method == Preferred(c.method, meta.method, W["(missing)"])
           tool == Preferred(c.tool, meta.tool, <<>>)
           id == Preferred(c.id, meta.id, W["(missing)"])
           named == IF tool = <<>> THEN W["(missing)"] ELSE tool
           hasTool == tool # <<>> \/ method = W["tools/call"]
<1>1. W["(missing)"] \in Seq(Nat) /\ <<>> \in Seq(Nat)
  BY LogWords, WordUnbroken
<1>2. method \in Seq(Nat) /\ tool \in Seq(Nat)
  BY <1>1, PreferredTyped DEF IsContext, IsRequestMeta
<1>3. id \in Seq(Nat) /\ (c.id # <<>> => id = c.id)
  <2>1. c.id \in Seq(Nat) /\ meta.id \in Seq(Nat) \cup {Absent}
    BY DEF IsContext, IsRequestMeta, Values
  <2> QED BY <1>1, <2>1, PreferredTyped
<1>4. named \in Seq(Nat) /\ hasTool \in BOOLEAN
  BY <1>1, <1>2
<1>5. AppendRpcRequestMeta(meta, c) =
        Show("rpc_method", method) \o Show("rpc_id", id) \o ShowIf(hasTool, "tool", named)
  BY DEF AppendRpcRequestMeta
<1> HIDE DEF method, tool, id, named, hasTool
<1>6. Tells(Show("rpc_method", method), {}, {}, {})
  <2>1. "rpc_method" \in LineNames \ {"trace_id", "rpc_id", "rpc_outcome"}
    BY DEF LineNames
  <2> QED BY <1>2, <2>1, TellsOther
<1>7. Tells(Show("rpc_id", id), {}, {TruncateForSummary(id)}, {})
  <2>1. "rpc_id" \in LineNames /\ "rpc_id" # "trace_id" /\ "rpc_id" # "rpc_outcome"
    BY DEF LineNames
  <2> QED BY <1>3, <2>1, TellsShow
<1>8. Tells(ShowIf(hasTool, "tool", named), {}, {}, {})
  <2>1. "tool" \in LineNames \ {"trace_id", "rpc_id", "rpc_outcome"}
    BY DEF LineNames
  <2> QED BY <1>4, <2>1, TellsOther
<1>9. Tells(Show("rpc_method", method) \o Show("rpc_id", id), {} \cup {},
            {} \cup {TruncateForSummary(id)}, {} \cup {})
  BY <1>6, <1>7, TellsConcat
<1>10. Tells(AppendRpcRequestMeta(meta, c), ({} \cup {}) \cup {},
             ({} \cup {TruncateForSummary(id)}) \cup {}, ({} \cup {}) \cup {})
  BY <1>5, <1>8, <1>9, TellsConcat
<1>11. Tells(AppendRpcRequestMeta(meta, c), {}, {TruncateForSummary(id)}, {})
  BY <1>10
<1> QED
  BY <1>3, <1>11

\* The id that a context shows.
ContextIds(c) == IF c.id # <<>> THEN {TruncateForSummary(c.id)} ELSE {}

\* A context shows its id.
LEMMA ContextIdTells ==
  ASSUME NEW c, IsContext(c)
  PROVE  Tells(ShowIf(c.id # <<>>, "rpc_id", c.id), {}, ContextIds(c), {})
<1>1. "rpc_id" \in LineNames /\ "rpc_id" # "trace_id" /\ "rpc_id" # "rpc_outcome"
  BY DEF LineNames
<1>2. c.id \in Seq(Nat) /\ (c.id # <<>>) \in BOOLEAN
  BY DEF IsContext
<1> QED
  BY <1>1, <1>2, TellsShowIf DEF ContextIds

\* What is shown of a context alone, which has no outcome yet, shows its id.
LEMMA ContextOnlyTells ==
  ASSUME NEW c, IsContext(c), c.outcome = <<>>
  PROVE  Tells(AppendContextOnly(c), {}, ContextIds(c), {})
<1> DEFINE a == ShowIf(c.id # <<>>, "rpc_id", c.id)
           b == ShowIf(c.outcome # <<>>, "rpc_outcome", c.outcome)
           d == ShowIf(c.tool # <<>>, "tool", c.tool)
<1>1. Tells(a, {}, ContextIds(c), {})
  BY ContextIdTells
<1>2. c.tool \in Seq(Nat) /\ (c.tool # <<>>) \in BOOLEAN
  BY DEF IsContext
<1>3. Tells(b, {}, {}, {})
  <2>1. b = <<>>
    BY DEF ShowIf
  <2> QED BY <2>1, TellsNothing
<1>4. Tells(d, {}, {}, {})
  <2>1. "tool" \in LineNames \ {"trace_id", "rpc_id", "rpc_outcome"}
    BY DEF LineNames
  <2> QED BY <1>2, <2>1, TellsOther
<1>5. AppendContextOnly(c) = a \o b \o d
  BY DEF AppendContextOnly
<1> HIDE DEF a, b, d
<1>6. Tells(a \o b, {} \cup {}, ContextIds(c) \cup {}, {} \cup {})
  BY <1>1, <1>3, TellsConcat
<1>7. Tells(a \o b \o d, ({} \cup {}) \cup {}, (ContextIds(c) \cup {}) \cup {}, ({} \cup {}) \cup {})
  BY <1>4, <1>6, TellsConcat
<1> QED
  BY <1>5, <1>7

\* Names between commas stay on their line.
LEMMA JoinedUnbroken ==
  ASSUME NEW items \in Seq(Seq(Unbroken))
  PROVE  Joined(items) \in Seq(Unbroken)
<1> DEFINE pieces == [i \in 1..Len(items) |-> IF i = 1 THEN items[i] ELSE <<Comma>> \o items[i]]
<1>1. Len(items) \in Nat /\ \A i \in 1..Len(items) : items[i] \in Seq(Unbroken)
  BY LenProperties, ElementOfSeq
<1>2. \A s \in Seq(Unbroken) : <<Comma>> \o s \in Seq(Unbroken)
  <2>1. Comma \in Unbroken
    BY DEF Comma, Unbroken, BreaksLine
  <2>2. <<Comma>> \in Seq(Unbroken)
    BY <2>1
  <2> QED BY <2>2, ConcatProperties
<1>3. \A i \in 1..Len(items) : (IF i = 1 THEN items[i] ELSE <<Comma>> \o items[i]) \in Seq(Unbroken)
  BY <1>1, <1>2
<1>4. pieces \in [1..Len(items) -> Seq(Unbroken)]
  BY <1>3
<1> HIDE DEF pieces
<1>5. pieces \in Seq(Seq(Unbroken))
  BY <1>1, <1>4, FunctionIsSeq
<1>6. Joined(items) = FlattenSeq(pieces)
  BY DEF Joined, pieces
<1> QED
  BY <1>5, <1>6, FlattenType

\* The names of the masked headers tell nothing of a request.
LEMMA SensitiveTells ==
  ASSUME NEW headers
  PROVE  Tells(BuildSensitiveHeadersSummary(headers), {}, {}, {})
<1> DEFINE named == [i \in 1..Len(Sensitive) |->
                       IF Sensitive[i] \in headers THEN <<W[Sensitive[i]]>> ELSE <<>>]
           shown == FlattenSeq(named)
           text == IF shown = <<>> THEN W["none"] ELSE Joined(shown)
           f == [name |-> "sensitive_headers", text |-> text]
<1>1. Len(Sensitive) = 3 /\ \A i \in 1..3 : Sensitive[i] \in DOMAIN W
  BY LogWords DEF Sensitive
<1>2. \A i \in 1..3 : W[Sensitive[i]] \in Seq(Unbroken)
  BY <1>1, WordUnbroken
<1>3. \A i \in 1..3 : (IF Sensitive[i] \in headers THEN <<W[Sensitive[i]]>> ELSE <<>>) \in Seq(Seq(Unbroken))
  BY <1>2
<1>4. named \in [1..3 -> Seq(Seq(Unbroken))]
  BY <1>1, <1>3
<1>5. named \in Seq(Seq(Seq(Unbroken)))
  BY <1>4, FunctionIsSeq
<1> HIDE DEF named
<1>6. shown \in Seq(Seq(Unbroken))
  BY <1>5, FlattenType
<1>7. BuildSensitiveHeadersSummary(headers) = <<f>>
  BY DEF BuildSensitiveHeadersSummary, named
<1> HIDE DEF shown
<1>8. text \in Seq(Unbroken)
  BY <1>6, JoinedUnbroken, LogWords, WordUnbroken
<1> HIDE DEF text
<1>9. f \in LineFields /\ f.name = "sensitive_headers"
  BY <1>8 DEF LineFields, LineNames
<1> HIDE DEF f
<1>10. /\ "sensitive_headers" # "trace_id" /\ "sensitive_headers" # "rpc_id"
       /\ "sensitive_headers" # "rpc_outcome"
  OBVIOUS
<1> QED
  BY <1>7, <1>9, <1>10, TellsField

\* The line shows the trace of the context, its id if it has one, and no more
\* outcomes than those.
Correlated(line, c, outcomes) ==
  \E ids : /\ Tells(line, {TruncateForSummary(c.trace_id)}, ids, outcomes)
           /\ c.id # <<>> => ids = ContextIds(c)

\* The line of a request (BuildRequestIoSummary, io_echo.cpp).
LEMMA RequestCorrelated ==
  ASSUME NEW r, r.method \in Seq(Nat), r.path \in Seq(Nat), NEW meta, IsRequestMeta(meta),
         NEW c, IsContext(c)
  PROVE  Correlated(RequestSummary(r, meta, c), c, {})
<1> DEFINE T == {TruncateForSummary(c.trace_id)}
           a == Show("method", r.method)
           b == AppendTraceContext(c)
           d == Show("path", r.path)
           e == IF meta.parseable THEN AppendRpcRequestMeta(meta, c)
                ELSE Show("rpc_meta", W["unparseable"])
                     \o ShowIf(c.method # <<>>, "rpc_method", c.method)
                     \o ShowIf(c.id # <<>>, "rpc_id", c.id) \o ShowIf(c.tool # <<>>, "tool", c.tool)
           h == BuildSensitiveHeadersSummary(r.headers)
<1>1. Tells(a, {}, {}, {}) /\ Tells(d, {}, {}, {})
  <2>1. /\ "method" \in LineNames \ {"trace_id", "rpc_id", "rpc_outcome"}
        /\ "path" \in LineNames \ {"trace_id", "rpc_id", "rpc_outcome"}
    BY DEF LineNames
  <2>2. TRUE \in BOOLEAN
    OBVIOUS
  <2>3. Tells(a, {}, {}, {})
    BY <2>1, <2>2, TellsOther
  <2>4. Tells(d, {}, {}, {})
    BY <2>1, <2>2, TellsOther
  <2> QED BY <2>3, <2>4
<1>2. Tells(b, T, {}, {})
  BY TraceContextTells
<1>3. Tells(h, {}, {}, {})
  BY SensitiveTells
<1>4. \E ids : Tells(e, {}, ids, {}) /\ (c.id # <<>> => ids = ContextIds(c))
  <2>1. CASE meta.parseable
    <3>1. PICK shown : /\ Tells(AppendRpcRequestMeta(meta, c), {}, {TruncateForSummary(shown)}, {})
                       /\ c.id # <<>> => shown = c.id
      BY RequestMetaTells
    <3>2. e = AppendRpcRequestMeta(meta, c)
      BY <2>1
    <3>3. c.id # <<>> => {TruncateForSummary(shown)} = ContextIds(c)
      BY <3>1 DEF ContextIds
    <3> QED BY <3>1, <3>2, <3>3
  <2>2. CASE ~meta.parseable
    <3> DEFINE u == Show("rpc_meta", W["unparseable"])
               v == ShowIf(c.method # <<>>, "rpc_method", c.method)
               w == ShowIf(c.id # <<>>, "rpc_id", c.id)
               x == ShowIf(c.tool # <<>>, "tool", c.tool)
    <3>1. /\ "rpc_meta" \in LineNames \ {"trace_id", "rpc_id", "rpc_outcome"}
          /\ "rpc_method" \in LineNames \ {"trace_id", "rpc_id", "rpc_outcome"}
          /\ "tool" \in LineNames \ {"trace_id", "rpc_id", "rpc_outcome"}
      BY DEF LineNames
    <3>2. W["unparseable"] \in Seq(Nat) /\ c.method \in Seq(Nat) /\ c.tool \in Seq(Nat)
      BY LogWords, WordUnbroken DEF IsContext
    <3>3. TRUE \in BOOLEAN /\ (c.method # <<>>) \in BOOLEAN /\ (c.tool # <<>>) \in BOOLEAN
      OBVIOUS
    <3>4. Tells(u, {}, {}, {})
      BY <3>1, <3>2, <3>3, TellsOther
    <3>5. Tells(v, {}, {}, {})
      BY <3>1, <3>2, <3>3, TellsOther
    <3>6. Tells(x, {}, {}, {})
      BY <3>1, <3>2, <3>3, TellsOther
    <3>7. Tells(w, {}, ContextIds(c), {})
      BY ContextIdTells
    <3>8. e = u \o v \o w \o x
      BY <2>2
    <3> HIDE DEF u, v, w, x, e
    <3>9. Tells(u \o v, {} \cup {}, {} \cup {}, {} \cup {})
      BY <3>4, <3>5, TellsConcat
    <3>10. Tells(u \o v \o w, ({} \cup {}) \cup {}, ({} \cup {}) \cup ContextIds(c), ({} \cup {}) \cup {})
      BY <3>7, <3>9, TellsConcat
    <3>11. Tells(u \o v \o w \o x, (({} \cup {}) \cup {}) \cup {}, (({} \cup {}) \cup ContextIds(c)) \cup {},
                 (({} \cup {}) \cup {}) \cup {})
      BY <3>6, <3>10, TellsConcat
    <3>12. Tells(e, {}, ContextIds(c), {})
      BY <3>8, <3>11
    <3> QED BY <3>12
  <2> QED BY <2>1, <2>2
<1>5. PICK ids : Tells(e, {}, ids, {}) /\ (c.id # <<>> => ids = ContextIds(c))
  BY <1>4
<1>6. RequestSummary(r, meta, c) = a \o b \o d \o e \o h
  BY DEF RequestSummary
<1> HIDE DEF a, b, d, e, h, T
<1>7. Tells(a \o b, {} \cup T, {} \cup {}, {} \cup {})
  BY <1>1, <1>2, TellsConcat
<1>8. Tells(a \o b \o d, ({} \cup T) \cup {}, ({} \cup {}) \cup {}, ({} \cup {}) \cup {})
  BY <1>1, <1>7, TellsConcat
<1>9. Tells(a \o b \o d, T, {}, {})
  BY <1>8
<1>10. Tells(a \o b \o d \o e, T \cup {}, {} \cup ids, {} \cup {})
  BY <1>5, <1>9, TellsConcat
<1>11. Tells(a \o b \o d \o e \o h, (T \cup {}) \cup {}, ({} \cup ids) \cup {}, ({} \cup {}) \cup {})
  BY <1>3, <1>10, TellsConcat
<1>12. Tells(RequestSummary(r, meta, c), T, ids, {})
  BY <1>6, <1>11
<1> QED
  BY <1>5, <1>12 DEF Correlated, T

\* The line of a step of a request (BuildLifecycleIoSummary, io_echo.cpp).
LEMMA LifecycleCorrelated ==
  ASSUME NEW c, IsContext(c), NEW message \in Seq(Nat)
  PROVE  Correlated(BuildLifecycleIoSummary(c, message), c, {})
<1> DEFINE T == {TruncateForSummary(c.trace_id)}
           a == AppendTraceContext(c)
           b == ShowIf(c.method # <<>>, "rpc_method", c.method)
           d == ShowIf(c.id # <<>>, "rpc_id", c.id)
           e == ShowIf(c.tool # <<>>, "tool", c.tool)
           f == ShowIf(c.outcome # <<>>, "outcome", c.outcome)
           g == ShowIf(message # <<>>, "msg", message)
<1>1. Tells(a, T, {}, {})
  BY TraceContextTells
<1>2. Tells(b, {}, {}, {}) /\ Tells(e, {}, {}, {}) /\ Tells(f, {}, {}, {}) /\ Tells(g, {}, {}, {})
  <2>1. \A name \in {"rpc_method", "tool", "outcome", "msg"} :
          name \in LineNames \ {"trace_id", "rpc_id", "rpc_outcome"}
    BY DEF LineNames
  <2>2. /\ (c.method # <<>>) \in BOOLEAN /\ (c.tool # <<>>) \in BOOLEAN
        /\ (c.outcome # <<>>) \in BOOLEAN /\ (message # <<>>) \in BOOLEAN
        /\ c.method \in Seq(Nat) /\ c.tool \in Seq(Nat) /\ c.outcome \in Seq(Nat)
    BY DEF IsContext
  <2>3. Tells(b, {}, {}, {})
    BY <2>1, <2>2, TellsOther
  <2>4. Tells(e, {}, {}, {})
    BY <2>1, <2>2, TellsOther
  <2>5. Tells(f, {}, {}, {})
    BY <2>1, <2>2, TellsOther
  <2>6. Tells(g, {}, {}, {})
    BY <2>1, <2>2, TellsOther
  <2> QED BY <2>3, <2>4, <2>5, <2>6
<1>3. Tells(d, {}, ContextIds(c), {})
  BY ContextIdTells
<1>4. BuildLifecycleIoSummary(c, message) = a \o b \o d \o e \o f \o g
  BY DEF BuildLifecycleIoSummary
<1> HIDE DEF a, b, d, e, f, g, T
<1>5. Tells(a \o b, T \cup {}, {} \cup {}, {} \cup {})
  BY <1>1, <1>2, TellsConcat
<1>6. Tells(a \o b \o d, (T \cup {}) \cup {}, ({} \cup {}) \cup ContextIds(c), ({} \cup {}) \cup {})
  BY <1>3, <1>5, TellsConcat
<1>7. Tells(a \o b \o d, T, ContextIds(c), {})
  BY <1>6
<1>8. Tells(a \o b \o d \o e, T \cup {}, ContextIds(c) \cup {}, {} \cup {})
  BY <1>2, <1>7, TellsConcat
<1>9. Tells(a \o b \o d \o e \o f, (T \cup {}) \cup {}, (ContextIds(c) \cup {}) \cup {},
            ({} \cup {}) \cup {})
  BY <1>2, <1>8, TellsConcat
<1>10. Tells(a \o b \o d \o e \o f, T, ContextIds(c), {})
  BY <1>9
<1>11. Tells(a \o b \o d \o e \o f \o g, T \cup {}, ContextIds(c) \cup {}, {} \cup {})
  BY <1>2, <1>10, TellsConcat
<1>12. Tells(BuildLifecycleIoSummary(c, message), T, ContextIds(c), {})
  BY <1>4, <1>11
<1> QED
  BY <1>12 DEF Correlated, T

\* What is read of the text of an answer.
ResponseOutcomes == {"error", "success", "unknown"}
IsResponseMeta(meta) ==
  /\ meta.parseable /\ meta.id \in Values \cup {Absent} /\ meta.error \in Values \cup {Absent}
  /\ meta.result \in Values \cup {Absent} /\ meta.outcome \in ResponseOutcomes

\* What is shown of an answer shows the id of the context, and the answer's outcome.
LEMMA ResponseMetaTells ==
  ASSUME NEW meta, IsResponseMeta(meta), NEW c, IsContext(c), c.outcome = <<>>
  PROVE  \E ids : /\ Tells(AppendRpcResponseMeta(meta, c), {}, ids, {TruncateForSummary(W[meta.outcome])})
                  /\ c.id # <<>> => ids = ContextIds(c)
<1> DEFINE id == ResponseId(meta, c)
           o == {TruncateForSummary(W[meta.outcome])}
           ids == IF id # <<>> THEN {TruncateForSummary(id)} ELSE {}
           u == ShowIf(id # <<>>, "rpc_id", id)
           v == Show("rpc_outcome", W[meta.outcome])
           w == ShowIf(c.tool # <<>>, "tool", c.tool)
           x == IF meta.error # Absent THEN Show("error", meta.error)
                ELSE ShowIf(meta.result # Absent, "result", meta.result)
<1>1. id \in Seq(Nat) /\ (c.id # <<>> => id = c.id)
  <2>1. c.id \in Seq(Nat) /\ meta.id \in Seq(Nat) \cup {Absent} /\ <<>> \in Seq(Nat)
    BY DEF IsContext, IsResponseMeta, Values
  <2> QED BY <2>1, PreferredTyped DEF ResponseId
<1>2. c.id # <<>> => ids = ContextIds(c)
  BY <1>1 DEF ContextIds
<1>3. AppendRpcResponseMeta(meta, c) = u \o v \o w \o x
  BY DEF AppendRpcResponseMeta
<1> HIDE DEF id
<1>4. Tells(u, {}, ids, {})
  <2>1. "rpc_id" \in LineNames /\ "rpc_id" # "trace_id" /\ "rpc_id" # "rpc_outcome"
    BY DEF LineNames
  <2>2. (id # <<>>) \in BOOLEAN
    OBVIOUS
  <2> QED BY <1>1, <2>1, <2>2, TellsShowIf
<1>5. Tells(v, {}, {}, o)
  <2>1. "rpc_outcome" \in LineNames /\ "rpc_outcome" # "trace_id" /\ "rpc_outcome" # "rpc_id"
    BY DEF LineNames
  <2>2. meta.outcome \in DOMAIN W
    BY AnswerWords, LogWords DEF IsResponseMeta, ResponseOutcomes
  <2>3. W[meta.outcome] \in Seq(Nat)
    BY <2>2, WordUnbroken
  <2> QED BY <2>1, <2>3, TellsShow
<1>6. Tells(w, {}, {}, {})
  <2>1. "tool" \in LineNames \ {"trace_id", "rpc_id", "rpc_outcome"}
    BY DEF LineNames
  <2>2. c.tool \in Seq(Nat) /\ (c.tool # <<>>) \in BOOLEAN
    BY DEF IsContext
  <2> QED BY <2>1, <2>2, TellsOther
<1>7. Tells(x, {}, {}, {})
  <2>1. /\ "error" \in LineNames \ {"trace_id", "rpc_id", "rpc_outcome"}
        /\ "result" \in LineNames \ {"trace_id", "rpc_id", "rpc_outcome"}
    BY DEF LineNames
  <2>2. /\ meta.error # Absent => meta.error \in Seq(Nat)
        /\ meta.result # Absent => meta.result \in Seq(Nat)
    BY DEF IsResponseMeta, Values
  <2>3. (meta.error # Absent) \in BOOLEAN /\ (meta.result # Absent) \in BOOLEAN
    OBVIOUS
  <2>4. CASE meta.error # Absent
    <3>1. Tells(Show("error", meta.error), {}, {}, {})
      BY <2>1, <2>2, <2>3, <2>4, TellsOther
    <3> QED BY <2>4, <3>1
  <2>5. CASE meta.error = Absent
    <3>1. Tells(ShowIf(meta.result # Absent, "result", meta.result), {}, {}, {})
      BY <2>1, <2>2, <2>3, TellsOther
    <3> QED BY <2>5, <3>1
  <2> QED BY <2>4, <2>5
<1> HIDE DEF u, v, w, x, ids, o
<1>8. Tells(u \o v, {} \cup {}, ids \cup {}, {} \cup o)
  BY <1>4, <1>5, TellsConcat
<1>9. Tells(u \o v \o w, ({} \cup {}) \cup {}, (ids \cup {}) \cup {}, ({} \cup o) \cup {})
  BY <1>6, <1>8, TellsConcat
<1>10. Tells(u \o v \o w \o x, (({} \cup {}) \cup {}) \cup {}, ((ids \cup {}) \cup {}) \cup {},
             (({} \cup o) \cup {}) \cup {})
  BY <1>7, <1>9, TellsConcat
<1>11. Tells(AppendRpcResponseMeta(meta, c), {}, ids, o)
  BY <1>3, <1>10
<1> QED
  BY <1>2, <1>11 DEF o

\* The line of an answer (BuildResponseIoSummary, io_echo.cpp).
LEMMA ResponseCorrelated ==
  ASSUME NEW a, NEW meta, a.body # Absent => IsResponseMeta(meta),
         NEW c, IsContext(c), c.outcome = <<>>
  PROVE  Correlated(ResponseSummary(a, meta, c), c,
                    IF a.body = Absent THEN {} ELSE {TruncateForSummary(W[meta.outcome])})
<1> DEFINE T == {TruncateForSummary(c.trace_id)}
           o == IF a.body = Absent THEN {} ELSE {TruncateForSummary(W[meta.outcome])}
           b == AppendTraceContext(c)
           d == IF a.body = Absent THEN AppendContextOnly(c)
                ELSE AppendRpcResponseMeta(meta, c)
<1>1. Tells(b, T, {}, {})
  BY TraceContextTells
<1>2. \E ids : Tells(d, {}, ids, o) /\ (c.id # <<>> => ids = ContextIds(c))
  <2>1. CASE a.body = Absent
    <3>1. Tells(AppendContextOnly(c), {}, ContextIds(c), {})
      BY ContextOnlyTells
    <3> QED BY <2>1, <3>1
  <2>2. CASE a.body # Absent
    <3>1. \E ids : /\ Tells(AppendRpcResponseMeta(meta, c), {}, ids, {TruncateForSummary(W[meta.outcome])})
                   /\ c.id # <<>> => ids = ContextIds(c)
      BY <2>2, ResponseMetaTells
    <3> QED BY <2>2, <3>1
  <2> QED BY <2>1, <2>2
<1>3. PICK ids : Tells(d, {}, ids, o) /\ (c.id # <<>> => ids = ContextIds(c))
  BY <1>2
<1>4. ResponseSummary(a, meta, c) = b \o d
  BY DEF ResponseSummary, IsResponseMeta
<1> HIDE DEF b, d, o, T
<1>5. Tells(b \o d, T \cup {}, {} \cup ids, {} \cup o)
  BY <1>1, <1>3, TellsConcat
<1>6. Tells(ResponseSummary(a, meta, c), T, ids, o)
  BY <1>4, <1>5
<1> QED
  BY <1>3, <1>6 DEF Correlated, T, o

\* Texts of answers: an object with a result or an error, and an id if it has
\* a result.
AnswerTexts ==
  {b \in Values :
     LET f == ParseObjectFields(b) IN
     /\ f # NoObject /\ (Has(f, W["error"]) <=> ~Has(f, W["result"]))
     /\ Has(f, W["result"]) => Has(f, W["id"])}

\* What the log reads of an answer is the outcome that is understood of it
\* (ParseResponseIoMeta, io_echo.cpp).
LEMMA AnswerRead ==
  ASSUME NEW b \in AnswerTexts
  PROVE  /\ IsResponseMeta(ParseResponseIoMeta(b))
         /\ ParseResponseIoMeta(b).outcome = Router!RpcOutcome([body |-> Understood(b)])
         /\ b # Absent
<1> DEFINE f == ParseObjectFields(b)
           id == TryGetRawField(f, W["id"])
           error == TryGetRawField(f, W["error"])
           result == TryGetRawField(f, W["result"])
           g == ParseObjectFields(result)
           says == TryGetRawField(g, W["isError"])
           outcome == IF error # Absent THEN "error"
                      ELSE IF result = Absent THEN "unknown"
                      ELSE IF SaysError(g) THEN "error" ELSE "success"
           meta == [parseable |-> TRUE, id |-> id, error |-> error,
                    result |-> IF error = Absent THEN result ELSE Absent, outcome |-> outcome]
           understood == UnderstoodFrom(f)
<1>1. /\ W["id"] \in Seq(Nat) /\ W["error"] \in Seq(Nat) /\ W["result"] \in Seq(Nat)
      /\ W["isError"] \in Seq(Nat) /\ W["true"] \in Seq(Nat) /\ W["true"] # <<>>
  <2>1. /\ "id" \in DOMAIN W /\ "error" \in DOMAIN W /\ "result" \in DOMAIN W
        /\ "isError" \in DOMAIN W /\ "true" \in DOMAIN W
    BY Zenon, AnswerWords
  <2>2. \A w \in DOMAIN W : W[w] \in Seq(Nat) /\ W[w] # <<>>
    BY WordUnbroken
  <2> QED BY <2>1, <2>2
<1>2. b \in Seq(Nat) /\ b # Absent
  BY AbsentAssumption DEF AnswerTexts, Values
<1>3. f \in FieldMaps
  BY <1>2, ObjectFieldsAreValues
<1>4. /\ f # NoObject /\ (Has(f, W["error"]) <=> ~Has(f, W["result"]))
      /\ Has(f, W["result"]) => Has(f, W["id"])
  BY DEF AnswerTexts
<1>5. ParseResponseIoMeta(b) = meta
  BY <1>4 DEF ParseResponseIoMeta, ResponseMeta
<1>6. Understood(b) = understood
  BY <1>2 DEF Understood
<1> HIDE DEF f
<1>7. /\ id \in Values \cup {Absent} /\ error \in Values \cup {Absent} /\ result \in Values \cup {Absent}
      /\ id = IF Has(f, W["id"]) THEN f[W["id"]] ELSE Absent
      /\ error = IF Has(f, W["error"]) THEN f[W["error"]] ELSE Absent
      /\ result = IF Has(f, W["result"]) THEN f[W["result"]] ELSE Absent
  BY <1>1, <1>3, GettersTyped
<1>8. /\ Has(f, W["id"]) => f[W["id"]] \in Values
      /\ Has(f, W["error"]) => f[W["error"]] \in Values
      /\ Has(f, W["result"]) => f[W["result"]] \in Values
  BY <1>3, <1>4, FieldMapCases DEF Has
<1>9. Absent \notin Values
  BY AbsentAssumption DEF Values
<1> HIDE DEF id, error, result
<1>10. error # Absent <=> Has(f, W["error"])
  BY <1>7, <1>8, <1>9
<1>11. result # Absent <=> Has(f, W["result"])
  BY <1>7, <1>8, <1>9
<1>12. outcome \in ResponseOutcomes
  BY DEF ResponseOutcomes
<1> HIDE DEF outcome
<1>13. IsResponseMeta(meta)
  BY <1>7, <1>12 DEF IsResponseMeta
<1>14. outcome = Router!RpcOutcome([body |-> understood])
  <2>1. \A x : x.body = understood /\ understood \in Router!Bodies =>
          Router!RpcOutcome(x) =
            IF understood.kind # "result" \/ understood.failed THEN "error" ELSE "success"
    BY MessageAssumption DEF Router!RpcOutcome
  <2>2. CASE Has(f, W["error"])
    <3>1. outcome = "error"
      BY <1>10, <2>2 DEF outcome
    <3>2. ~Has(f, W["result"])
      BY <1>4, <2>2
    <3>3. CASE ~Has(f, W["id"])
      <4>1. understood = Router!PlainBody
        BY <1>4, <3>2, <3>3 DEF UnderstoodFrom
      <4> HIDE DEF understood
      <4>2. understood \in Router!Bodies /\ understood.kind # "result"
        BY <4>1 DEF Router!PlainBody, Router!Bodies
      <4> QED BY <2>1, <3>1, <4>2
    <3>4. CASE Has(f, W["id"])
      <4> DEFINE code == CodeOf(TryGetRawField(ParseObjectFields(f[W["error"]]), W["code"]))
      <4>1. understood = [kind |-> "error", id |-> f[W["id"]], failed |-> FALSE, code |-> code]
        BY <1>4, <3>2, <3>4 DEF UnderstoodFrom
      <4>2. code \in Int
        BY DEF CodeOf
      <4> HIDE DEF code
      <4>3. f[W["id"]] \in Seq(Nat)
        BY <1>8, <3>4 DEF Values
      <4>4. understood \in Router!Bodies /\ understood.kind # "result"
        BY <4>1, <4>2, <4>3 DEF Router!Bodies
      <4> HIDE DEF understood
      <4> QED BY <2>1, <3>1, <4>4
    <3> QED BY <3>3, <3>4
  <2>3. CASE ~Has(f, W["error"])
    <3>1. Has(f, W["result"]) /\ Has(f, W["id"]) /\ error = Absent /\ result # Absent
      BY <1>4, <1>10, <1>11, <2>3
    <3>2. result = f[W["result"]] /\ result \in Seq(Nat)
      BY <1>7, <1>8, <3>1 DEF Values
    <3>3. g \in FieldMaps
      BY <3>2, ObjectFieldsAreValues
    <3> HIDE DEF g
    <3>4. says \in Values \cup {Absent} /\ (g = NoObject => says = Absent)
      <4>1. says \in Values \cup {Absent} /\ says = IF Has(g, W["isError"]) THEN g[W["isError"]] ELSE Absent
        BY <1>1, <3>3, GettersTyped
      <4>2. g = NoObject => ~Has(g, W["isError"])
        BY <1>1, AbsentAssumption DEF NoObject, Has
      <4> HIDE DEF says
      <4> QED BY <4>1, <4>2
    <3> HIDE DEF says
    <3>5. W["true"] # Absent
      BY <1>1, AbsentAssumption
    <3>6. SaysError(g) <=> says = W["true"]
      BY <3>4, <3>5 DEF SaysError, says
    <3>7. IfAbsent(says, <<>>) = W["true"] <=> says = W["true"]
      BY <1>1, <3>5 DEF IfAbsent
    <3>8. understood = [kind |-> "result", id |-> f[W["id"]], code |-> 0,
                        failed |-> (IfAbsent(says, <<>>) = W["true"])]
      BY <1>4, <3>1, <3>2 DEF UnderstoodFrom, says, g
    <3>9. f[W["id"]] \in Seq(Nat)
      BY <1>8, <3>1 DEF Values
    <3>10. understood \in Router!Bodies /\ understood.kind = "result"
           /\ (understood.failed <=> says = W["true"])
      <4>1. (IfAbsent(says, <<>>) = W["true"]) \in BOOLEAN
        OBVIOUS
      <4> DEFINE failed == (IfAbsent(says, <<>>) = W["true"])
      <4>2. failed \in BOOLEAN /\ (failed <=> says = W["true"])
        BY <3>7
      <4> HIDE DEF failed, understood
      <4>3. understood = [kind |-> "result", id |-> f[W["id"]], code |-> 0, failed |-> failed]
        BY <3>8 DEF failed
      <4> QED BY <3>9, <4>2, <4>3 DEF Router!Bodies
    <3>11. outcome = IF says = W["true"] THEN "error" ELSE "success"
      BY <3>1, <3>6 DEF outcome
    <3> HIDE DEF understood
    <3> QED BY <2>1, <3>10, <3>11
  <2> QED BY <2>2, <2>3
<1>15. meta.outcome = outcome
  OBVIOUS
<1> HIDE DEF meta, understood
<1> QED
  BY <1>2, <1>5, <1>6, <1>13, <1>14, <1>15

\* What is read of a request is texts, and its id a value.
LEMMA RequestMetaTyped ==
  ASSUME NEW t \in Seq(Nat)
  PROVE  IsRequestMeta(ParseRequestIoMeta(t))
<1> DEFINE f == ParseObjectFields(t)
           method == TryGetStringField(f, W["method"])
           params == TryGetObjectField(f, W["params"])
           id == TryGetRawField(f, W["id"])
           tool == ToolName(method, params)
<1>1. /\ W["id"] \in Seq(Nat) /\ W["params"] \in Seq(Nat) /\ W["method"] \in Seq(Nat)
      /\ W["name"] \in Seq(Nat)
  <2>1. "id" \in DOMAIN W /\ "params" \in DOMAIN W /\ "method" \in DOMAIN W /\ "name" \in DOMAIN W
    BY KnownWords
  <2> QED BY <2>1, WordsDiffer
<1>2. f \in FieldMaps
  BY ObjectFieldsAreValues
<1>3. ParseRequestIoMeta(t) = IF f = NoObject THEN NoRequestMeta
                              ELSE [parseable |-> TRUE, method |-> method, id |-> id, tool |-> tool]
  BY DEF ParseRequestIoMeta, RequestMeta
<1> HIDE DEF f
<1>4. /\ method \in Seq(Nat) \cup {Absent} /\ params \in FieldMaps /\ id \in Values \cup {Absent}
  BY <1>1, <1>2, GettersTyped
<1> HIDE DEF method, params, id
<1>5. tool \in Seq(Nat) \cup {Absent}
  <2>1. TryGetStringField(params, W["name"]) \in Seq(Nat) \cup {Absent}
    BY <1>1, <1>4, GettersTyped
  <2> QED BY <2>1 DEF ToolName
<1> HIDE DEF tool
<1>6. CASE f = NoObject
  BY <1>3, <1>6 DEF IsRequestMeta, NoRequestMeta
<1>7. CASE f # NoObject
  BY <1>3, <1>4, <1>5, <1>7 DEF IsRequestMeta
<1> QED
  BY <1>6, <1>7

\* A request's context has its trace, and its own id if it has one
\* (BuildRequestTraceState and BuildTraceContext, dbgx-mcp.cpp).
LEMMA ContextOfRequest ==
  ASSUME NEW t \in Seq(Nat), NEW stage \in Seq(Nat), NEW outcome \in Seq(Nat)
  PROVE  LET trace == BuildRequestTraceState(t, 1) id == ParseRequestIoMeta(t).id
             c == BuildTraceContext(trace, stage, outcome) IN
         /\ IsContext(c) /\ c.trace_id = trace.trace_id /\ c.outcome = outcome
         /\ id # Absent => c.id = id /\ id # <<>>
<1> DEFINE meta == ParseRequestIoMeta(t)
           named == IF meta.id # Absent THEN W["rpc:"] \o meta.id ELSE W["local-"] \o <<48 + 1>>
           trace == BuildRequestTraceState(t, 1)
           c == BuildTraceContext(trace, stage, outcome)
<1>1. IsRequestMeta(meta)
  BY RequestMetaTyped
<1>2. trace = [trace_id |-> named, method |-> OrEmpty(meta.method), id |-> OrEmpty(meta.id),
               tool |-> OrEmpty(meta.tool)]
  BY DEF BuildRequestTraceState, TraceState
<1>3. c = [trace_id |-> trace.trace_id, method |-> trace.method, id |-> trace.id, tool |-> trace.tool,
           stage |-> stage, outcome |-> outcome]
  BY DEF BuildTraceContext
<1> HIDE DEF meta
<1>4. /\ meta.method \in Seq(Nat) \cup {Absent} /\ meta.tool \in Seq(Nat) \cup {Absent}
      /\ meta.id # Absent => meta.id \in Seq(Nat) /\ meta.id # <<>>
  BY <1>1 DEF IsRequestMeta, Values
<1>5. named \in Seq(Nat) /\ named # <<>>
  <2>1. /\ W["rpc:"] \in Seq(Nat) /\ W["rpc:"] # <<>> /\ W["local-"] \in Seq(Nat) /\ W["local-"] # <<>>
    BY LogWords, WordUnbroken
  <2>2. \A a \in Seq(Nat), b \in Seq(Nat) : a # <<>> => a \o b \in Seq(Nat) /\ a \o b # <<>>
    <3>1. ASSUME NEW a \in Seq(Nat), NEW b \in Seq(Nat), a # <<>>
          PROVE  a \o b \in Seq(Nat) /\ a \o b # <<>>
      <4>1. a \o b \in Seq(Nat) /\ Len(a \o b) = Len(a) + Len(b)
        BY ConcatProperties
      <4>2. Len(a) \in Nat \ {0} /\ Len(b) \in Nat
        BY <3>1, LenProperties, EmptySeq
      <4>3. Len(a \o b) # 0
        BY <4>1, <4>2
      <4> QED BY <4>1, <4>3
    <3> QED BY <3>1
  <2>3. <<48 + 1>> \in Seq(Nat)
    OBVIOUS
  <2> QED BY <1>4, <2>1, <2>2, <2>3
<1> HIDE DEF named, trace, c
<1>6. /\ c.trace_id = named /\ c.method = OrEmpty(meta.method) /\ c.id = OrEmpty(meta.id)
      /\ c.tool = OrEmpty(meta.tool) /\ c.stage = stage /\ c.outcome = outcome
      /\ c.trace_id = trace.trace_id
  BY <1>2, <1>3
<1>7. \A x : x \in Seq(Nat) \cup {Absent} => OrEmpty(x) \in Seq(Nat)
  BY DEF OrEmpty, IfAbsent
<1>8. meta.id # Absent => OrEmpty(meta.id) = meta.id
  BY DEF OrEmpty, IfAbsent
<1>9. IsContext(c)
  <2>1. meta.id \in Seq(Nat) \cup {Absent}
    BY <1>4
  <2>2. /\ OrEmpty(meta.method) \in Seq(Nat) /\ OrEmpty(meta.id) \in Seq(Nat)
        /\ OrEmpty(meta.tool) \in Seq(Nat)
    BY <1>4, <1>7, <2>1
  <2> QED BY <1>5, <1>6, <2>2 DEF IsContext
<1> QED
  BY <1>4, <1>6, <1>8, <1>9 DEF meta, trace, c

\* A line that shows what it must of a context correlates with its request.
LEMMA CorrelatesWith ==
  ASSUME NEW line, NEW c, NEW outcomes, Correlated(line, c, outcomes),
         NEW trace, c.trace_id = trace.trace_id, NEW id, id # Absent => c.id = id /\ id # <<>>
  PROVE  Correlates(line, trace, id) /\ ShownTexts(line, "rpc_outcome") = outcomes
<1>1. PICK ids : /\ Tells(line, {TruncateForSummary(c.trace_id)}, ids, outcomes)
                 /\ c.id # <<>> => ids = ContextIds(c)
  BY DEF Correlated
<1>2. /\ ShownTexts(line, "trace_id") = {TruncateForSummary(c.trace_id)}
      /\ ShownTexts(line, "rpc_id") = ids /\ ShownTexts(line, "rpc_outcome") = outcomes
      /\ line \in Seq(LineFields)
  BY <1>1 DEF Tells
<1>3. id # Absent => ids = {TruncateForSummary(id)}
  BY <1>1 DEF ContextIds
<1>4. ASSUME NEW i \in 1..Len(line) PROVE OneLine(line[i].text)
  <2>1. line[i] \in LineFields
    BY <1>2, ElementOfSeq
  <2>2. line[i].text \in Seq(Unbroken)
    BY <2>1 DEF LineFields
  <2>3. \A k \in 1..Len(line[i].text) : line[i].text[k] \in Unbroken
    BY <2>2, ElementOfSeq
  <2> QED BY <2>3 DEF OneLine, Unbroken
<1> QED
  BY <1>2, <1>3, <1>4 DEF Correlates

\* Errors and results are texts of answers.
LEMMA BuiltIsAnswer ==
  ASSUME NEW id \in Values
  PROVE  /\ \A code \in DOMAIN W : BuildJsonRpcError(id, code) \in AnswerTexts
         /\ \A result \in Values : BuildJsonRpcSuccess(id, result) \in AnswerTexts
<1>1. ASSUME NEW code \in DOMAIN W PROVE BuildJsonRpcError(id, code) \in AnswerTexts
  <2> DEFINE b == BuildJsonRpcError(id, code)
             f == ParseObjectFields(b)
  <2>1. b \in Values /\ f # NoObject /\ ~Has(f, W["result"]) /\ Has(f, W["error"])
    BY ErrorFields
  <2> QED BY <2>1 DEF AnswerTexts
<1>2. ASSUME NEW result \in Values PROVE BuildJsonRpcSuccess(id, result) \in AnswerTexts
  <2> DEFINE b == BuildJsonRpcSuccess(id, result)
             f == ParseObjectFields(b)
  <2>1. /\ b \in Values /\ f # NoObject /\ Has(f, W["result"]) /\ ~Has(f, W["error"]) /\ Has(f, W["id"])
    BY SuccessFields
  <2> QED BY <2>1 DEF AnswerTexts
<1> QED
  BY <1>1, <1>2

\* The router answers with a text of that kind, or with none.
LEMMA AnswersAreTexts ==
  ASSUME NEW t \in Seq(Nat), NEW e, e.text \in Seq(Nat), e.success \in BOOLEAN
  PROVE  LET a == HandleJsonRpcPost(t, e) IN a.body = Absent \/ a.body \in AnswerTexts
<1> DEFINE f == ParseObjectFields(t)
           id == TryGetRawField(f, W["id"])
           method == TryGetStringField(f, W["method"])
           outcome == Outcome(method, f, e)
           Fine(a) == a.body = Absent \/ a.body \in AnswerTexts
<1>1. f \in FieldMaps
  BY ObjectFieldsAreValues
<1>2. HandleJsonRpcPost(t, e) = Answer(f, e)
  BY DEF HandleJsonRpcPost
<1>3. W["null"] \in Values /\ W["id"] \in Seq(Nat)
  BY AnswerWords, WordIsValue, WordsDiffer
<1> HIDE DEF f
<1>4. id \in Values \cup {Absent}
  BY <1>1, <1>3, GettersTyped
<1>5. /\ "-32600" \in DOMAIN W /\ "-32601" \in DOMAIN W /\ "-32602" \in DOMAIN W
      /\ "-32700" \in DOMAIN W
  BY KnownWords
<1> HIDE DEF id, method
<1>6. ASSUME NEW code \in DOMAIN W PROVE Fine(Refuse(id, code))
  <2>1. IfAbsent(id, W["null"]) \in Values
    BY <1>3, <1>4 DEF IfAbsent
  <2>2. BuildJsonRpcError(IfAbsent(id, W["null"]), code) \in AnswerTexts
    BY <2>1, BuiltIsAnswer
  <2>3. Refuse(id, code).body = BuildJsonRpcError(IfAbsent(id, W["null"]), code)
    BY DEF Refuse, Reply
  <2> QED BY <2>2, <2>3
<1>7. Fine(Accepted)
  BY DEF Accepted, Reply
<1>8. Fine(Report(id, outcome))
  <2>1. \/ \E code \in {"-32601", "-32602"} : outcome = [ok |-> FALSE, code |-> code]
        \/ \E result \in {FixedResult, ToolResult(e)} : outcome = [ok |-> TRUE, result |-> result]
    BY DEF Outcome
  <2> HIDE DEF outcome
  <2>2. ASSUME NEW code \in {"-32601", "-32602"}, outcome = [ok |-> FALSE, code |-> code]
        PROVE  Fine(Report(id, outcome))
    <3>1. Report(id, outcome) = Refuse(id, code)
      BY <2>2 DEF Report
    <3>2. code \in DOMAIN W
      BY <1>5
    <3> HIDE DEF Fine
    <3> QED BY <1>6, <3>1, <3>2
  <2>3. ASSUME NEW result \in {FixedResult, ToolResult(e)}, outcome = [ok |-> TRUE, result |-> result]
        PROVE  Fine(Report(id, outcome))
    <3>1. result \in Values
      <4>1. FixedResult \in Values /\ ToolResult(e) \in Values
        BY FixedResultFields, ToolResultFields
      <4> QED BY <4>1
    <3>2. CASE id = Absent
      <4>1. Report(id, outcome) = Accepted
        BY <2>3, <3>2 DEF Report
      <4> QED BY <1>7, <4>1
    <3>3. CASE id # Absent
      <4>1. Report(id, outcome) = Reply(200, BuildJsonRpcSuccess(id, result))
        BY <2>3, <3>3 DEF Report
      <4>2. BuildJsonRpcSuccess(id, result) \in AnswerTexts
        BY <1>4, <3>1, <3>3, BuiltIsAnswer
      <4> QED BY <4>1, <4>2 DEF Reply
    <3> QED BY <3>2, <3>3
  <2> QED BY <2>1, <2>2, <2>3
<1> HIDE DEF Fine, outcome
<1>9. Fine(AnswerMethod(method, id, f, e))
  <2>1. \/ AnswerMethod(method, id, f, e) = Refuse(id, "-32600")
        \/ AnswerMethod(method, id, f, e) = Report(id, outcome)
        \/ AnswerMethod(method, id, f, e) = Accepted
    BY DEF AnswerMethod, outcome
  <2> QED BY <1>5, <1>6, <1>7, <1>8, <2>1
<1>10. Fine(Answer(f, e))
  <2>1. CASE f = NoObject
    <3>1. Answer(f, e).body = BuildJsonRpcError(W["null"], "-32700")
      BY <2>1 DEF Answer, Reply
    <3> QED BY <1>3, <1>5, <3>1, BuiltIsAnswer DEF Fine
  <2>2. CASE f # NoObject
    <3>1. Answer(f, e) = AnswerMethod(method, id, f, e)
      BY <2>2 DEF Answer, method, id
    <3> QED BY <1>9, <3>1
  <2> QED BY <2>1, <2>2
<1> QED
  BY <1>2, <1>10 DEF Fine

\* The handler's own refusals are answered so too.
LEMMA RefusalsAreTexts ==
  ASSUME NEW a \in Refusals
  PROVE  a.body \in AnswerTexts
<1> DEFINE own == BuildJsonRpcError(W["null"], "-32000")
           plain == Object(<<Field("error", Quoted(W["other"]))>>)
           f == ParseObjectFields(plain)
<1>1. a.body = own \/ a.body = plain
  BY DEF Refusals, Reply
<1>2. own \in AnswerTexts
  <2>1. W["null"] \in Values /\ "-32000" \in DOMAIN W
    BY AnswerWords, KnownWords, WordIsValue
  <2> QED BY <2>1, BuiltIsAnswer
<1>3. plain \in AnswerTexts
  <2>1. Quoted(W["other"]) \in Values /\ "error" \in DOMAIN W /\ "result" \in DOMAIN W
    BY AnswerWords, LogWords, WordIsValue
  <2>2. HasOne(plain, "error", Quoted(W["other"]))
    BY <2>1, ObjectOfOne
  <2>3. plain \in Values /\ f # NoObject /\ DOMAIN f = {W["error"]}
    BY <2>2 DEF HasOne
  <2>4. W["error"] # W["result"]
    BY <2>1, WordsDiffer
  <2> HIDE DEF plain
  <2>5. Has(f, W["error"]) /\ ~Has(f, W["result"])
    BY <2>3, <2>4 DEF Has
  <2> QED BY <2>3, <2>5 DEF AnswerTexts
<1> QED
  BY <1>1, <1>2, <1>3

\* The lines echoed before the answer show the trace and the id.
LEMMA EarlyTrue ==
  ASSUME NEW t \in Seq(Nat), NEW line, t = body,
         line \in EarlyEchoes(BuildRequestTraceState(t, 1))
  PROVE  Correlates(line, BuildRequestTraceState(t, 1), ParseRequestIoMeta(t).id)
<1> DEFINE trace == BuildRequestTraceState(t, 1)
           meta == ParseRequestIoMeta(t)
           id == meta.id
           r == [method |-> W["POST"], path |-> W["/mcp"], headers |-> {"authorization"}, body |-> t]
           first == BuildTraceContext(trace, W["request_received"], <<>>)
           Then(stage) == BuildTraceContext(trace, W[stage], W["in_progress"])
           Stages == {"route_dispatch", "tool_execute_start"}
<1>1. /\ W["POST"] \in Seq(Nat) /\ W["/mcp"] \in Seq(Nat) /\ W["request_received"] \in Seq(Nat)
      /\ W["route_dispatch"] \in Seq(Nat) /\ W["tool_execute_start"] \in Seq(Nat)
      /\ W["in_progress"] \in Seq(Nat) /\ W["message"] \in Seq(Nat) /\ <<>> \in Seq(Nat)
  <2>1. /\ "POST" \in DOMAIN W /\ "/mcp" \in DOMAIN W /\ "request_received" \in DOMAIN W
        /\ "route_dispatch" \in DOMAIN W /\ "tool_execute_start" \in DOMAIN W
        /\ "in_progress" \in DOMAIN W /\ "message" \in DOMAIN W
    BY Zenon, AnswerWords, LogWords
  <2>2. \A w \in DOMAIN W : W[w] \in Seq(Nat)
    BY WordUnbroken
  <2> QED BY <2>1, <2>2
<1>2. CASE line = BuildRequestIoSummary(r, first)
  <2>1. /\ IsContext(first) /\ first.trace_id = trace.trace_id
        /\ id # Absent => first.id = id /\ id # <<>>
    <3>1. W["request_received"] \in Seq(Nat) /\ <<>> \in Seq(Nat)
      BY <1>1
    <3> QED BY <3>1, ContextOfRequest
  <2>2. IsRequestMeta(meta)
    BY RequestMetaTyped
  <2>3. r.method \in Seq(Nat) /\ r.path \in Seq(Nat)
    BY <1>1
  <2>4. line = RequestSummary(r, meta, first)
    BY <1>2 DEF BuildRequestIoSummary
  <2> HIDE DEF first, trace, meta, r
  <2>5. Correlated(line, first, {})
    BY <2>1, <2>2, <2>3, <2>4, RequestCorrelated
  <2> QED BY <2>1, <2>5, CorrelatesWith DEF trace, meta
<1>3. ASSUME NEW stage \in Stages, line = BuildLifecycleIoSummary(Then(stage), W["message"])
      PROVE  Correlates(line, trace, id)
  <2> DEFINE c == Then(stage)
  <2>1. W[stage] \in Seq(Nat)
    BY <1>1
  <2>2. IsContext(c) /\ c.trace_id = trace.trace_id /\ (id # Absent => c.id = id /\ id # <<>>)
    <3>1. W["in_progress"] \in Seq(Nat)
      BY <1>1
    <3> QED BY <2>1, <3>1, ContextOfRequest
  <2> HIDE DEF c, trace, meta
  <2>3. Correlated(line, c, {})
    BY <1>1, <1>3, <2>2, LifecycleCorrelated DEF c
  <2> QED BY <2>2, <2>3, CorrelatesWith
<1>4. \/ line = BuildRequestIoSummary(r, first)
      \/ \E stage \in Stages : line = BuildLifecycleIoSummary(Then(stage), W["message"])
  BY DEF EarlyEchoes
<1> QED
  BY <1>2, <1>3, <1>4

\* The line of an answer shows the trace, the id of the request and the outcome
\* that is understood of the answer.
LEMMA AnswerTrue ==
  ASSUME NEW t \in Seq(Nat), NEW a, a.body = Absent \/ a.body \in AnswerTexts
  PROVE  LET trace == BuildRequestTraceState(t, 1) IN
         Echoed(AnswerEcho(trace, a), a, trace, ParseRequestIoMeta(t).id)
<1> DEFINE trace == BuildRequestTraceState(t, 1)
           id == ParseRequestIoMeta(t).id
           c == BuildTraceContext(trace, W["response_sent"], <<>>)
           meta == ParseResponseIoMeta(a.body)
           line == AnswerEcho(trace, a)
           outcomes == IF a.body = Absent THEN {} ELSE {TruncateForSummary(W[meta.outcome])}
<1>1. W["response_sent"] \in Seq(Nat) /\ <<>> \in Seq(Nat)
  BY LogWords, WordUnbroken
<1>2. /\ IsContext(c) /\ c.trace_id = trace.trace_id /\ c.outcome = <<>>
      /\ id # Absent => c.id = id /\ id # <<>>
  BY <1>1, ContextOfRequest
<1>3. a.body # Absent =>
        IsResponseMeta(meta) /\ meta.outcome = Router!RpcOutcome([body |-> Understood(a.body)])
  BY AnswerRead
<1>4. line = ResponseSummary(a, meta, c)
  BY DEF AnswerEcho, BuildResponseIoSummary
<1> HIDE DEF trace, id, c, meta, line
<1>5. Correlated(line, c, outcomes)
  BY <1>2, <1>3, <1>4, ResponseCorrelated
<1> HIDE DEF outcomes
<1>6. Correlates(line, trace, id) /\ ShownTexts(line, "rpc_outcome") = outcomes
  BY <1>2, <1>5, CorrelatesWith
<1>7. ShowsOutcome(line, a.body)
  BY <1>3, <1>6 DEF ShowsOutcome, outcomes
<1> QED
  BY <1>6, <1>7 DEF Echoed, trace, id, line

\* All lines echoed for a request show the same trace, and its own id if it has
\* one, whatever the id in its answer; the last shows the outcome McpRequest
\* keeps; and whatever the client writes, no summary has a line break.
THEOREM EchoesAreTrue == Spec => []EchoesTrue
<1>1. BodyTyped => EchoesTrue
  <2> SUFFICES ASSUME BodyTyped PROVE EchoesTrue
    OBVIOUS
  <2> DEFINE trace == BuildRequestTraceState(body, 1)
             id == ParseRequestIoMeta(body).id
  <2>1. body \in Seq(Nat)
    BY DEF BodyTyped
  <2>2. ASSUME NEW line \in EarlyEchoes(trace) PROVE Correlates(line, trace, id)
    BY <2>1, <2>2, EarlyTrue
  <2>3. ASSUME NEW a \in AnswersTo(body) PROVE Echoed(AnswerEcho(trace, a), a, trace, id)
    <3>1. a.body = Absent \/ a.body \in AnswerTexts
      <4>1. CASE a \in Refusals
        BY <4>1, RefusalsAreTexts
      <4>2. ASSUME NEW e \in Executions, a = HandleJsonRpcPost(body, e)
            PROVE  a.body = Absent \/ a.body \in AnswerTexts
        <5>1. e.success \in BOOLEAN /\ e.text \in Seq(Nat)
          BY <2>1, OutputsAssumption DEF Executions
        <5> QED BY <2>1, <4>2, <5>1, AnswersAreTexts
      <4> QED BY <4>1, <4>2 DEF AnswersTo
    <3> QED BY <2>1, <3>1, AnswerTrue
  <2> HIDE DEF trace, id
  <2>4. TracedBy(trace, id)
    BY <2>2, <2>3 DEF TracedBy
  <2> QED BY <2>4 DEF EchoesTrue, trace, id
<1> QED
  BY <1>1, BodyIsTyped, PTL

-----------------------------------------------------------------------------
(* Characters *)

\* What CharactersOf may divide a text into.
Slices == {u \in Seq(Nat) : Len(u) \in 1..3}
\* Whole characters.
Chars == {u \in Slices : IsCharacter(u)}

\* The places CharactersOf goes through.
CharPlaces(t) == 1..(Len(t) + 3)
\* The characters from a place on, given those from every later one.
CharsAt(t, p, from) ==
  IF p > Len(t) THEN <<>> ELSE <<CharacterAt(t, p)>> \o from[p + Width(t[p])]
\* The characters from each place on.
Divides(from, t) ==
  /\ from \in [CharPlaces(t) -> Seq(Slices)]
  /\ \A p \in CharPlaces(t) : from[p] = CharsAt(t, p, from)

\* A character has one to three symbols.
LEMMA CharacterTyped ==
  ASSUME NEW t \in Seq(Nat), NEW p \in 1..Len(t)
  PROVE  LET w == Width(t[p]) n == IF p + w - 1 > Len(t) THEN Len(t) - p + 1 ELSE w IN
           /\ w \in 1..3 /\ p + w \in CharPlaces(t) /\ CharacterAt(t, p) \in Slices
           /\ Len(CharacterAt(t, p)) = n /\ n \in 1..3
           /\ CharacterAt(t, p) = SubSeq(t, p, p + n - 1)
           /\ \A i \in 1..n : CharacterAt(t, p)[i] = t[p + i - 1]
<1> DEFINE w == Width(t[p])
           n == IF p + w - 1 > Len(t) THEN Len(t) - p + 1 ELSE w
           u == CharacterAt(t, p)
<1>1. Len(t) \in Nat /\ \A i \in 1..Len(t) : t[i] \in Nat
  BY LenProperties, ElementOfSeq
<1>2. w \in 1..3
  BY DEF Width
<1> HIDE DEF w
<1>3. n \in 1..3 /\ p + n - 1 \in p..Len(t) /\ p + w \in CharPlaces(t)
  BY <1>1, <1>2 DEF CharPlaces
<1>4. u = SubSeq(t, p, p + n - 1)
  <2>1. (IF p + w - 1 > Len(t) THEN Len(t) ELSE p + w - 1) = p + n - 1
    BY <1>1, <1>2
  <2> QED BY <2>1 DEF CharacterAt, w
<1> HIDE DEF n, u
<1>5. \A i \in p..(p + n - 1) : t[i] \in Nat
  BY <1>1, <1>3
<1>6. /\ u \in Seq(Nat) /\ Len(u) = n /\ \A i \in 1..n : u[i] = t[p + i - 1]
  <2> DEFINE m == p + n - 1
  <2>1. m \in Int /\ p <= m /\ m - p + 1 = n
    BY <1>3
  <2> HIDE DEF m
  <2>2. /\ SubSeq(t, p, m) \in Seq(Nat) /\ Len(SubSeq(t, p, m)) = m - p + 1
        /\ \A i \in 1..(m - p + 1) : SubSeq(t, p, m)[i] = t[p + i - 1]
    BY <1>5, <2>1, SubSeqProperties DEF m
  <2> QED BY <1>4, <2>1, <2>2 DEF m
<1>7. u \in Slices
  BY <1>3, <1>6 DEF Slices
<1> QED
  BY <1>2, <1>3, <1>4, <1>6, <1>7 DEF w, n, u

\* Characters is well defined: what is at a place needs later places only.
LEMMA CharactersDivide ==
  ASSUME NEW t \in Seq(Nat)
  PROVE  \E from : Divides(from, t) /\ CharactersOf(t) = from[1]
<1> DEFINE P == CharPlaces(t)
           V == Seq(Slices)
           step == [p \in P |-> [f \in [P -> V] |-> CharsAt(t, p, f)]]
           m == Len(t) + 2
           rank == [p \in P |-> Len(t) + 3 - p]
<1>1. Len(t) \in Nat
  BY LenProperties
<1>2. m \in Nat /\ rank \in [P -> 0..m] /\ <<>> \in V
  BY <1>1 DEF CharPlaces
<1>3. \A p \in P : \A f \in [P -> V] : step[p][f] = CharsAt(t, p, f)
  OBVIOUS
<1>4. ASSUME NEW p \in P, NEW f \in [P -> V] PROVE CharsAt(t, p, f) \in V
  <2>1. CASE p > Len(t)
    BY <2>1 DEF CharsAt
  <2>2. CASE ~(p > Len(t))
    <3>1. p \in 1..Len(t)
      BY <1>1, <2>2 DEF CharPlaces
    <3>2. CharacterAt(t, p) \in Slices /\ p + Width(t[p]) \in P
      BY <3>1, CharacterTyped
    <3> DEFINE u == CharacterAt(t, p)
               q == p + Width(t[p])
    <3>3. u \in Slices /\ f[q] \in Seq(Slices)
      BY <3>2
    <3> HIDE DEF u, q
    <3>4. <<u>> \o f[q] \in Seq(Slices)
      BY <3>3, ConcatProperties
    <3> QED BY <2>2, <3>4 DEF CharsAt, u, q
  <2> QED BY <2>1, <2>2
<1>5. ASSUME NEW p \in P, NEW f \in [P -> V], NEW g, Agree(f, g, P, rank, p)
      PROVE  CharsAt(t, p, f) = CharsAt(t, p, g)
  <2>1. CASE p > Len(t)
    BY <2>1 DEF CharsAt
  <2>2. CASE ~(p > Len(t))
    <3>1. p \in 1..Len(t)
      BY <1>1, <2>2 DEF CharPlaces
    <3> DEFINE q == p + Width(t[p])
    <3>2. q \in P /\ Width(t[p]) \in 1..3
      BY <3>1, CharacterTyped
    <3>3. rank[q] < rank[p]
      BY <1>1, <3>1, <3>2 DEF CharPlaces
    <3>4. f[q] = g[q]
      BY <1>5, <3>2, <3>3 DEF Agree
    <3> QED BY <3>4 DEF CharsAt
  <2> QED BY <2>1, <2>2
<1> DEFINE F == [P -> V]
<1> HIDE DEF step, m, rank, V
<1>6. PICK f \in F : \A p \in P : f[p] = step[p][f]
  <2>1. [p \in P |-> <<>>] \in F
    BY <1>2
  <2>2. ASSUME NEW f \in F PROVE \E g \in F : \A p \in P : g[p] = step[p][f]
    <3> DEFINE g == [p \in P |-> step[p][f]]
    <3>1. \A p \in P : step[p][f] \in V
      BY <1>3, <1>4
    <3>2. g \in F /\ \A p \in P : g[p] = step[p][f]
      BY <3>1
    <3> QED BY <3>2
  <2>3. ASSUME NEW p \in P, NEW f \in F, NEW g \in F, Agree(f, g, P, rank, p)
        PROVE  step[p][f] = step[p][g]
    BY <1>3, <1>5, <2>3
  <2> DEFINE none == [p \in P |-> <<>>]
  <2>4. none \in F
    BY <2>1
  <2>5. m \in Nat /\ rank \in [P -> 0..m]
    BY <1>2
  <2> HIDE DEF P, F, none
  <2>6. WellRanked(step, F, P, rank)
    BY <2>2, <2>3 DEF WellRanked
  <2>7. \E f \in F : Solves(f, step, P)
    BY <2>4, <2>5, <2>6, RankedRecursion
  <2> QED BY <2>7 DEF Solves
<1> DEFINE Def(h) == h = [p \in P |-> CharsAt(t, p, h)]
           from == CHOOSE h : Def(h)
<1>7. Def(f)
  <2>1. f = [p \in P |-> f[p]] /\ \A p \in P : f[p] = CharsAt(t, p, f)
    BY <1>3, <1>6
  <2> QED BY <2>1
<1>8. CharactersOf(t) = from[1]
  BY DEF CharactersOf, CharPlaces, CharsAt
<1>9. Def(from)
  <2> HIDE DEF Def
  <2> QED BY <1>7
<1> HIDE DEF from
<1>10. \A p \in P : f[p] = from[p]
  <2>1. \A i \in P : Agree(f, from, P, rank, i) => f[i] = from[i]
    <3>1. ASSUME NEW p \in P, Agree(f, from, P, rank, p) PROVE f[p] = from[p]
      <4>1. CharsAt(t, p, f) = CharsAt(t, p, from)
        BY <1>5, <1>6, <3>1
      <4>2. from[p] = CharsAt(t, p, from) /\ f[p] = CharsAt(t, p, f)
        BY <1>7, <1>9
      <4> QED BY <4>1, <4>2
    <3> QED BY <3>1
  <2>2. m \in Nat /\ rank \in [P -> 0..m]
    BY <1>2
  <2> HIDE DEF P, F, Def
  <2> QED BY <2>1, <2>2, RankedUnique
<1>11. Divides(from, t)
  <2>1. from = [p \in P |-> from[p]] /\ \A p \in P : from[p] \in V
    BY <1>9, <1>10
  <2>2. \A p \in P : from[p] = CharsAt(t, p, from)
    BY <1>9
  <2> QED BY <2>1, <2>2 DEF Divides, P, V
<1> QED
  BY <1>8, <1>11

\* The first symbol of a character tells how long it is.
LEMMA CharShape ==
  ASSUME NEW u \in Chars
  PROVE  /\ u \in Seq(Nat) /\ Len(u) \in 1..3 /\ u # <<>> /\ u[1] \in Nat /\ Width(u[1]) = Len(u)
         /\ Len(u) = 1 => u[1] \in 0..127 \/ u[1] > 255
         /\ Len(u) = 2 => u[1] \in 194..223 /\ u[2] \in 128..191
         /\ Len(u) = 3 => /\ u[1] \in 224..239 /\ u[2] \in 128..191 /\ u[3] \in 128..191
                          /\ u[1] = 224 => u[2] >= 160
<1>1. u \in Seq(Nat) /\ Len(u) \in 1..3 /\ IsCharacter(u)
  BY DEF Chars, Slices
<1>2. u # <<>> /\ u[1] \in Nat
  BY <1>1, ElementOfSeq, EmptySeq
<1>3. /\ Len(u) = 1 => u[1] \in 0..127 \/ u[1] > 255
      /\ Len(u) = 2 => u[1] \in 194..223 /\ u[2] \in 128..191
      /\ Len(u) = 3 => /\ u[1] \in 224..239 /\ u[2] \in 128..191 /\ u[3] \in 128..191
                       /\ u[1] = 224 => u[2] >= 160
  <2> DEFINE n == Len(u)
             a == u[1]
             b == u[2]
             c == u[3]
  <2>1. IF n = 1 THEN a \in 0..127 \/ a > 255
        ELSE IF n = 2 THEN a \in 194..223 /\ b \in 128..191
        ELSE /\ a \in 224..239 /\ b \in 128..191 /\ c \in 128..191
             /\ a = 224 => b >= 160
    BY <1>1 DEF IsCharacter
  <2> HIDE DEF n, a, b, c
  <2>2. CASE n = 1
    <3>1. a \in 0..127 \/ a > 255
      BY <2>1, <2>2
    <3> QED BY <2>2, <3>1 DEF n, a
  <2>3. CASE n = 2
    <3>1. a \in 194..223 /\ b \in 128..191
      BY <2>1, <2>3
    <3> QED BY <2>3, <3>1 DEF n, a, b
  <2>4. CASE n = 3
    <3>1. /\ a \in 224..239 /\ b \in 128..191 /\ c \in 128..191
          /\ a = 224 => b >= 160
      BY <2>1, <2>4
    <3> QED BY <2>4, <3>1 DEF n, a, b, c
  <2>5. n \in 1..3
    BY <1>1 DEF n
  <2> QED BY <2>2, <2>3, <2>4, <2>5
<1>4. Width(u[1]) = Len(u)
  <2> DEFINE c == u[1]
             n == Len(u)
  <2>1. /\ c \in Nat /\ n \in 1..3 /\ (n = 1 => c \in 0..127 \/ c > 255)
        /\ (n = 2 => c \in 194..223) /\ (n = 3 => c \in 224..239)
    BY <1>1, <1>2, <1>3
  <2> HIDE DEF c, n
  <2>2. Width(c) = n
    BY <2>1 DEF Width
  <2> QED BY <2>2 DEF c, n
<1> QED
  BY <1>1, <1>2, <1>3, <1>4

\* Whole characters are sequences of symbols.
LEMMA CharsTyped ==
  ASSUME NEW us \in Seq(Chars)
  PROVE  us \in Seq(Seq(Nat)) /\ us \in Seq(Slices) /\ FlattenSeq(us) \in Seq(Nat)
<1>1. us \in Seq(Seq(Nat)) /\ us \in Seq(Slices)
  <2>1. us \in [1..Len(us) -> Chars] /\ Len(us) \in Nat
    BY LenProperties, ElementOfSeq
  <2>2. us \in [1..Len(us) -> Seq(Nat)] /\ us \in [1..Len(us) -> Slices]
    BY <2>1 DEF Chars, Slices
  <2> QED BY <2>1, <2>2, FunctionIsSeq
<1> QED
  BY <1>1, FlattenType

\* Where a character stands, it is found.
LEMMA CharacterFound ==
  ASSUME NEW t \in Seq(Nat), NEW p \in Nat \ {0}, NEW u \in Chars, Stands(u, t, p)
  PROVE  /\ p \in 1..Len(t) /\ CharacterAt(t, p) = u /\ Width(t[p]) = Len(u)
         /\ p + Len(u) \in Places(t)
<1>1. u \in Seq(Nat) /\ Len(u) \in 1..3 /\ u # <<>> /\ Width(u[1]) = Len(u)
  BY CharShape
<1>2. /\ p \in 1..Len(t) /\ p + Len(u) \in Places(t) /\ At(t, p) = u[1]
      /\ SubSeq(t, p, p + Len(u) - 1) = u
  BY <1>1, StandsPart
<1>3. t[p] = u[1]
  BY <1>2, SymbolAt
<1>4. ~(p + Len(u) - 1 > Len(t))
  BY <1>1, <1>2, LenProperties DEF Places
<1>5. CharacterAt(t, p) = SubSeq(t, p, p + Len(u) - 1)
  BY <1>1, <1>3, <1>4 DEF CharacterAt
<1> QED
  BY <1>1, <1>2, <1>3, <1>5

\* Where whole characters stand, they are found one by one.
LEMMA CharactersRead ==
  ASSUME NEW t \in Seq(Nat), NEW from, Divides(from, t), NEW p \in Places(t)
  PROVE  \A us \in Seq(Chars) : Stands(FlattenSeq(us), t, p) =>
           LET q == p + Len(FlattenSeq(us)) IN q \in Places(t) /\ from[p] = us \o from[q]
<1> DEFINE Goal(us) == LET q == p + Len(FlattenSeq(us)) IN q \in Places(t) /\ from[p] = us \o from[q]
           T == {us \in Seq(Chars) : Stands(FlattenSeq(us), t, p) => Goal(us)}
<1>1. p \in Nat \ {0} /\ Len(t) \in Nat /\ \A q \in Places(t) : q \in Nat \ {0} /\ q \in CharPlaces(t)
  BY LenProperties DEF Places, CharPlaces
<1>2. \A q \in Places(t) : from[q] \in Seq(Slices) /\ from[q] = CharsAt(t, q, from)
  BY <1>1 DEF Divides
<1>3. <<>> \in T
  <2>1. FlattenSeq(<<>>) = <<>> /\ Len(<<>>) = 0 /\ <<>> \in Seq(Chars)
    BY FlattenEmpty, EmptySeq
  <2>2. p + 0 = p
    BY <1>1
  <2>3. <<>> \o from[p] = from[p]
    BY <1>2
  <2>4. Goal(<<>>)
    BY <2>1, <2>2, <2>3
  <2> HIDE DEF Goal
  <2> QED BY <2>1, <2>4
<1>4. ASSUME NEW us \in Seq(Chars), NEW u \in Chars, us \in T PROVE Append(us, u) \in T
  <2> DEFINE a == FlattenSeq(us)
             vs == Append(us, u)
             q == p + Len(a)
             r == q + Len(u)
  <2>1. a \in Seq(Nat) /\ us \in Seq(Seq(Nat)) /\ us \in Seq(Slices) /\ u \in Seq(Nat) /\ u \in Slices
    BY CharsTyped, CharShape DEF Chars
  <2>2. FlattenSeq(vs) = a \o u /\ vs \in Seq(Chars)
    BY <2>1, FlattenAppend, AppendProperties
  <2>3. vs = us \o <<u>>
    BY AppendIsConcat
  <2>4. SUFFICES ASSUME Stands(a \o u, t, p) PROVE Goal(vs)
    <3> HIDE DEF Goal, vs, a
    <3> QED BY <2>2 DEF vs
  <2>5. Stands(a, t, p) /\ Stands(u, t, q)
    BY <1>1, <2>1, <2>4, StandsConcat
  <2>6. q \in Places(t) /\ from[p] = us \o from[q]
    BY <1>4, <2>5
  <2>7. q \in 1..Len(t) /\ CharacterAt(t, q) = u /\ Width(t[q]) = Len(u) /\ r \in Places(t)
    BY <1>1, <2>5, <2>6, CharacterFound
  <2>8. from[q] = <<u>> \o from[r]
    <3>1. ~(q > Len(t))
      BY <1>1, <2>7
    <3>2. from[q] = CharsAt(t, q, from)
      BY <1>2, <2>6
    <3> HIDE DEF q
    <3> QED BY <2>7, <3>1, <3>2 DEF CharsAt
  <2>9. us \o (<<u>> \o from[r]) = vs \o from[r]
    <3> DEFINE one == <<u>>
               rest == from[r]
    <3>1. one \in Seq(Slices) /\ rest \in Seq(Slices)
      BY <1>2, <2>1, <2>7
    <3> HIDE DEF one, rest
    <3>2. us \in Seq(Slices)
      BY <2>1
    <3>3. (us \o one) \o rest = us \o (one \o rest)
      BY <3>1, <3>2, ConcatAssociative, SMTT(60)
    <3> QED BY <2>3, <3>3 DEF one, rest
  <2>10. p + Len(FlattenSeq(vs)) = r
    <3>1. Len(a \o u) = Len(a) + Len(u) /\ Len(a) \in Nat /\ Len(u) \in Nat
      BY <2>1, ConcatProperties, LenProperties
    <3> QED BY <1>1, <2>2, <3>1
  <2> HIDE DEF q, r, a, vs
  <2> QED BY <2>6, <2>7, <2>8, <2>9, <2>10
<1>5. \A us \in Seq(Chars) : us \in T
  <2> HIDE DEF T
  <2> QED BY <1>3, <1>4, SeqInduction
<1> QED
  BY <1>5

\* Characters are what a text put together of whole ones is divided into.
LEMMA CharactersOfWhole ==
  ASSUME NEW us \in Seq(Chars)
  PROVE  CharactersOf(FlattenSeq(us)) = us /\ IsUtf8(FlattenSeq(us))
<1> DEFINE t == FlattenSeq(us)
           r == 1 + Len(t)
<1>1. t \in Seq(Nat) /\ us \in Seq(Slices)
  BY CharsTyped
<1> HIDE DEF t
<1>2. PICK from : Divides(from, t) /\ CharactersOf(t) = from[1]
  BY <1>1, CharactersDivide
<1>3. Len(t) \in Nat /\ 1 \in Places(t) /\ r \in CharPlaces(t) /\ r > Len(t)
  BY <1>1, LenProperties DEF Places, CharPlaces
<1>4. Stands(t, t, 1)
  <2>1. \A i \in 1..Len(t) : 1 - 1 + i = i /\ i <= Len(t)
    BY <1>3
  <2> QED BY <2>1 DEF Stands
<1>5. from[1] = us \o from[r]
  BY <1>1, <1>2, <1>3, <1>4, CharactersRead DEF t
<1>6. from[r] = <<>>
  <2>1. from[r] = CharsAt(t, r, from)
    BY <1>2, <1>3 DEF Divides
  <2> QED BY <1>3, <2>1 DEF CharsAt
<1>7. us \o <<>> = us
  BY <1>1
<1>8. CharactersOf(t) = us
  BY <1>2, <1>5, <1>6, <1>7
<1>9. \A i \in 1..Len(us) : IsCharacter(us[i])
  BY ElementOfSeq DEF Chars
<1> QED
  BY <1>8, <1>9 DEF IsUtf8, t

\* A text is its characters in a row.
LEMMA CharactersInARow ==
  ASSUME NEW t \in Seq(Nat)
  PROVE  CharactersOf(t) \in Seq(Slices) /\ FlattenSeq(CharactersOf(t)) = t
<1> DEFINE P == CharPlaces(t)
           L == Len(t)
           m == Len(t) + 2
           rank == [p \in P |-> Len(t) + 3 - p]
<1>1. PICK from : Divides(from, t) /\ CharactersOf(t) = from[1]
  BY CharactersDivide
<1>2. L \in Nat /\ m \in Nat /\ rank \in [P -> 0..m] /\ 1 \in P
  BY LenProperties DEF CharPlaces
<1> DEFINE f == [p \in P |-> FlattenSeq(from[p])]
           g == [p \in P |-> SubSeq(t, p, L)]
<1>3. \A p \in P : from[p] \in Seq(Slices) /\ from[p] = CharsAt(t, p, from)
  BY <1>1 DEF Divides
<1>4. ASSUME NEW p \in P, Agree(f, g, P, rank, p) PROVE f[p] = g[p]
  <2>1. CASE p > L
    <3>1. from[p] = <<>>
      BY <1>3, <2>1 DEF CharsAt
    <3>2. p \in Int /\ L \in Int /\ L < p
      BY <1>2, <2>1 DEF CharPlaces
    <3>3. SubSeq(t, p, L) = <<>>
      BY <3>2, SubSeqEmpty
    <3> QED BY <3>1, <3>3, FlattenEmpty
  <2>2. CASE ~(p > L)
    <3> DEFINE w == Width(t[p])
               n == IF p + w - 1 > L THEN L - p + 1 ELSE w
               u == CharacterAt(t, p)
               q == p + w
    <3>1. p \in 1..L
      BY <1>2, <2>2 DEF CharPlaces
    <3>2. w \in 1..3 /\ q \in P /\ u \in Slices /\ n \in 1..3 /\ u = SubSeq(t, p, p + n - 1)
      BY <3>1, CharacterTyped
    <3>3. from[p] = <<u>> \o from[q]
      BY <1>3, <2>2 DEF CharsAt
    <3>4. rank[q] < rank[p]
      <4>1. rank[q] = L + 3 - q /\ rank[p] = L + 3 - p
        BY <3>2
      <4>2. q > p /\ p \in Nat /\ q \in Nat
        BY <3>1, <3>2
      <4> HIDE DEF q, rank
      <4> QED BY <1>2, <4>1, <4>2
    <3>5. f[q] = g[q]
      BY <1>4, <3>2, <3>4 DEF Agree
    <3>6. FlattenSeq(from[q]) = SubSeq(t, q, L)
      BY <3>2, <3>5
    <3> HIDE DEF w, n, u, q, f, g
    <3>7. FlattenSeq(from[p]) = u \o SubSeq(t, q, L)
      <4> DEFINE one == <<u>>
                 rest == from[q]
      <4>1. rest \in Seq(Slices) /\ one \in Seq(Slices) /\ u \in Seq(Nat)
        <5>1. rest \in Seq(Slices)
          BY <1>3, <3>2
        <5>2. one \in Seq(Slices)
          BY <3>2
        <5>3. u \in Seq(Nat)
          BY <3>2 DEF Slices
        <5> QED BY <5>1, <5>2, <5>3
      <4>2. Slices \subseteq Seq(Nat)
        BY DEF Slices
      <4>3. rest \in Seq(Seq(Nat)) /\ one \in Seq(Seq(Nat))
        BY <4>1, <4>2
      <4> HIDE DEF one, rest
      <4>4. FlattenSeq(one \o rest) = FlattenSeq(one) \o FlattenSeq(rest)
        BY <4>3, FlattenConcat
      <4>5. FlattenSeq(one) = u
        BY <4>1, FlattenOne DEF one
      <4> QED BY <3>3, <3>6, <4>4, <4>5 DEF one, rest
    <3>8. u \o SubSeq(t, q, L) = SubSeq(t, p, L)
      <4>1. CASE p + w - 1 > L
        <5>1. p + n - 1 = L /\ q \in Int /\ L < q
          BY <1>2, <3>1, <3>2, <4>1 DEF n, q
        <5>2. SubSeq(t, q, L) = <<>>
          BY <1>2, <5>1, SubSeqEmpty
        <5>3. u \in Seq(Nat)
          BY <3>2 DEF Slices
        <5>4. u \o <<>> = u
          BY <5>3
        <5> QED BY <3>2, <5>1, <5>2, <5>4
      <4>2. CASE ~(p + w - 1 > L)
        <5> DEFINE k == p + n - 1
        <5>1. k \in (p - 1)..L /\ k + 1 = q /\ p \in 1..(L + 1) /\ L \in k..L
          BY <1>2, <3>1, <3>2, <4>2 DEF n, q
        <5> HIDE DEF k
        <5>2. SubSeq(t, p, k) \o SubSeq(t, k + 1, L) = SubSeq(t, p, L)
          BY <5>1, ConcatAdjacentSubSeq
        <5> QED BY <3>2, <5>1, <5>2 DEF k
      <4> QED BY <4>1, <4>2
    <3> QED BY <3>7, <3>8 DEF f, g
  <2> QED BY <2>1, <2>2
<1>5. \A i \in P : f[i] = g[i]
  <2>1. \A i \in P : Agree(f, g, P, rank, i) => f[i] = g[i]
    <3> HIDE DEF f, g, rank, P
    <3> QED BY <1>4
  <2>2. m \in Nat /\ rank \in [P -> 0..m]
    BY <1>2
  <2> HIDE DEF P, f, g, m, rank
  <2> QED BY <2>1, <2>2, RankedUnique
<1>6. FlattenSeq(from[1]) = SubSeq(t, 1, L)
  BY <1>2, <1>5
<1>7. SubSeq(t, 1, L) = t
  BY SubSeqFull
<1> QED
  BY <1>1, <1>2, <1>3, <1>6, <1>7

\* A text of whole characters is them in a row, and so are two of them.
LEMMA Utf8Whole ==
  ASSUME NEW t \in Seq(Nat), IsUtf8(t)
  PROVE  CharactersOf(t) \in Seq(Chars) /\ FlattenSeq(CharactersOf(t)) = t
<1> DEFINE us == CharactersOf(t)
<1>1. us \in Seq(Slices) /\ FlattenSeq(us) = t
  BY CharactersInARow
<1>2. \A i \in 1..Len(us) : IsCharacter(us[i])
  BY DEF IsUtf8
<1> HIDE DEF us
<1>3. us \in [1..Len(us) -> Slices] /\ Len(us) \in Nat
  BY <1>1, LenProperties, ElementOfSeq
<1>4. us \in [1..Len(us) -> Chars]
  BY <1>2, <1>3 DEF Chars
<1>5. us \in Seq(Chars)
  BY <1>3, <1>4, FunctionIsSeq
<1> QED
  BY <1>1, <1>5 DEF us

\* What comes of two texts of whole characters, one after the other, is one.
LEMMA Utf8Concat ==
  ASSUME NEW t \in Seq(Nat), IsUtf8(t), NEW s \in Seq(Nat), IsUtf8(s)
  PROVE  IsUtf8(t \o s)
<1> DEFINE us == CharactersOf(t)
           vs == CharactersOf(s)
<1>1. us \in Seq(Chars) /\ FlattenSeq(us) = t
  BY Utf8Whole
<1>2. vs \in Seq(Chars) /\ FlattenSeq(vs) = s
  BY Utf8Whole
<1> HIDE DEF us, vs
<1>3. us \o vs \in Seq(Chars)
  BY <1>1, <1>2, ConcatProperties
<1>4. us \in Seq(Seq(Nat)) /\ vs \in Seq(Seq(Nat))
  BY <1>1, <1>2, CharsTyped
<1>5. FlattenSeq(us \o vs) = t \o s
  BY <1>1, <1>2, <1>4, FlattenConcat
<1> QED
  BY <1>3, <1>5, CharactersOfWhole

-----------------------------------------------------------------------------
(* What a client writes in a string *)

\* The units of s stand for the text r.
Spelled(s, r) == \E us \in Seq(Units) : FlattenSeq(us) = s /\ FlattenSeq(Texts(us)) = r

\* What is spelled are texts; a string that is one is a value, and is read as it was meant.
LEMMA SpelledRead ==
  ASSUME NEW s, NEW r, Spelled(s, r)
  PROVE  /\ s \in Seq(Nat) /\ r \in Seq(Nat) /\ Quoted(s) \in Values
         /\ LET p == ParseJsonString(Quoted(s), 1) IN
              p.pos = Len(s) + 3 /\ p.out = r /\ AtEnd(Quoted(s), p.pos)
<1>1. PICK us \in Seq(Units) : FlattenSeq(us) = s /\ FlattenSeq(Texts(us)) = r
  BY DEF Spelled
<1>2. s \in Seq(Nat) /\ r \in Seq(Nat)
  <2>1. us \in Seq(Seq(Nat)) /\ Texts(us) \in Seq(Seq(Nat))
    BY UnitsTyped
  <2> QED BY <1>1, <2>1, FlattenType
<1>3. Quoted(s) \in Values
  BY <1>1, QuotedIsValue
<1> DEFINE v == Quoted(s)
           p == ParseJsonString(v, 1)
<1>4. v \in Seq(Nat) /\ Len(v) = Len(s) + 2 /\ Len(s) \in Nat
  BY <1>2, QuotedTyped, LenProperties
<1>5. Stands(v, v, 1)
  <2> HIDE DEF v
  <2>1. \A i \in 1..Len(v) : 1 - 1 + i = i /\ i <= Len(v)
    BY <1>4
  <2> QED BY <2>1 DEF Stands
<1>6. p = [pos |-> 1 + Len(s) + 2, out |-> r]
  <2> HIDE DEF v
  <2>1. Stands(Quoted(FlattenSeq(us)), v, 1)
    BY <1>1, <1>5 DEF v
  <2>2. ParseJsonString(v, 1) = [pos |-> 1 + Len(FlattenSeq(us)) + 2, out |-> FlattenSeq(Texts(us))]
    BY <1>4, <2>1, StringsAreRead
  <2> QED BY <1>1, <2>2
<1>7. p.pos = Len(s) + 3 /\ p.out = r
  BY <1>4, <1>6
<1>8. AtEnd(v, Len(s) + 3)
  <2> DEFINE n == Len(s) + 3
  <2>1. n \in Nat \ {0} /\ n > Len(v) /\ Len(v) \in Nat
    BY <1>4
  <2> HIDE DEF n, v
  <2>2. Skip(v, n) \in Nat /\ n <= Skip(v, n)
    BY <1>4, <2>1, SkipTo
  <2>3. Skip(v, n) > Len(v)
    BY <2>1, <2>2
  <2> QED BY <2>3 DEF AtEnd, n
<1> QED
  BY <1>2, <1>3, <1>7, <1>8

\* One more unit spells what it stands for.
LEMMA SpelledMore ==
  ASSUME NEW s, NEW r, Spelled(s, r), NEW u \in Units
  PROVE  Spelled(s \o u, r \o UnitText(u))
<1>1. PICK us \in Seq(Units) : FlattenSeq(us) = s /\ FlattenSeq(Texts(us)) = r
  BY DEF Spelled
<1> DEFINE vs == Append(us, u)
           v == UnitText(u)
<1>2. /\ us \in Seq(Seq(Nat)) /\ Texts(us) \in Seq(Seq(Nat)) /\ u \in Seq(Nat) /\ v \in Seq(Nat)
      /\ vs \in Seq(Units) /\ Texts(vs) = Append(Texts(us), v)
  BY UnitsTyped, UnitTextTyped, TextsAppend, AppendProperties DEF Units
<1> HIDE DEF v
<1>3. FlattenSeq(vs) = s \o u
  BY <1>1, <1>2, FlattenAppend
<1>4. FlattenSeq(Texts(vs)) = r \o v
  BY <1>1, <1>2, FlattenAppend
<1> QED
  BY <1>2, <1>3, <1>4 DEF Spelled, v

\* Nothing spells nothing.
LEMMA SpelledNothing == Spelled(<<>>, <<>>)
<1>1. <<>> \in Seq(Units) /\ FlattenSeq(<<>>) = <<>>
  BY FlattenEmpty, EmptySeq
<1>2. Texts(<<>>) = <<>>
  <2> DEFINE x == Texts(<<>>)
  <2>1. x = [i \in 1..Len(<<>>) |-> UnitText(<<>>[i])] /\ Len(<<>>) = 0
    BY EmptySeq DEF Texts
  <2>2. x \in Seq(Seq(Nat))
    BY <1>1, UnitsTyped
  <2>3. Len(x) = 0
    BY <2>1, <2>2, LenProperties
  <2> HIDE DEF x
  <2>4. x = <<>>
    BY <2>2, <2>3, EmptySeq
  <2> QED BY <2>4 DEF x
<1> QED
  BY <1>1, <1>2 DEF Spelled

\* Texts, under a name that the provers need not take apart.
Text == Seq(Nat)

\* Texts are put together in any order.
LEMMA TextsConcat ==
  \A a, x, y \in Text : (a \o x) \o y = a \o (x \o y)
<1>1. ASSUME NEW a \in Seq(Nat), NEW x \in Seq(Nat), NEW y \in Seq(Nat)
      PROVE  (a \o x) \o y = a \o (x \o y)
  BY ConcatAssociative, SMTT(60)
<1> QED
  BY <1>1, Zenon DEF Text

\* Symbols that need no escape stand for themselves, one, two or three at a time.
LEMMA SpelledPlain ==
  ASSUME NEW s, NEW r, Spelled(s, r), NEW u \in Seq(Nat), Len(u) \in 1..3,
         \A i \in 1..Len(u) : u[i] \notin MustEscape
  PROVE  Spelled(s \o u, r \o u)
<1>1. s \in Seq(Nat) /\ r \in Seq(Nat)
  BY SpelledRead
<1>2. ASSUME NEW a, NEW b, Spelled(a, b), NEW i \in 1..Len(u)
      PROVE  Spelled(a \o <<u[i]>>, b \o <<u[i]>>)
  <2> DEFINE c == <<u[i]>>
  <2>1. u[i] \in Nat /\ u[i] \notin MustEscape
    BY ElementOfSeq
  <2>2. c \in Seq(Nat) /\ Len(c) = 1 /\ c[1] = u[i]
    BY <2>1
  <2> HIDE DEF c
  <2>3. c \in Units /\ UnitText(c) = c
    <3>1. IsUnit(c)
      BY <2>1, <2>2 DEF IsUnit
    <3> QED BY <2>2, <3>1 DEF Units, UnitText
  <2> QED BY <1>2, <2>3, SpelledMore DEF c
<1> DEFINE x == <<u[1]>>
           y == <<u[2]>>
           z == <<u[3]>>
<1>4. CASE Len(u) = 1
  <2>1. u = x
    BY <1>4
  <2>2. Spelled(s \o x, r \o x)
    BY <1>2, <1>4
  <2> QED BY <2>1, <2>2
<1>5. CASE Len(u) = 2
  <2>1. u[1] \in Nat /\ u[2] \in Nat
    BY <1>5, ElementOfSeq
  <2>2. u = x \o y /\ x \in Seq(Nat) /\ y \in Seq(Nat)
    BY <1>5, <2>1
  <2>3. Spelled(s \o x, r \o x)
    BY <1>2, <1>5
  <2>4. ASSUME NEW a, NEW b, Spelled(a, b) PROVE Spelled(a \o y, b \o y)
    BY <1>2, <1>5, <2>4
  <2> HIDE DEF x, y
  <2>5. Spelled((s \o x) \o y, (r \o x) \o y)
    BY <2>3, <2>4
  <2>6. (s \o x) \o y = s \o u /\ (r \o x) \o y = r \o u
    <3>1. s \in Text /\ r \in Text /\ x \in Text /\ y \in Text
      BY <1>1, <2>2 DEF Text
    <3>2. \A a \in Text : (a \o x) \o y = a \o (x \o y)
      <4>1. x \in Text /\ y \in Text
        BY <3>1
      <4> QED BY <4>1, TextsConcat, Zenon
    <3> QED BY <2>2, <3>1, <3>2, Zenon
  <2> QED BY <2>5, <2>6
<1>6. CASE Len(u) = 3
  <2>1. u[1] \in Nat /\ u[2] \in Nat /\ u[3] \in Nat
    BY <1>6, ElementOfSeq
  <2>2. u = (x \o y) \o z /\ x \in Seq(Nat) /\ y \in Seq(Nat) /\ z \in Seq(Nat)
    BY <1>6, <2>1
  <2>3. Spelled(s \o x, r \o x)
    BY <1>2, <1>6
  <2>4. ASSUME NEW a, NEW b, Spelled(a, b) PROVE Spelled(a \o y, b \o y)
    BY <1>2, <1>6, <2>4
  <2>5. ASSUME NEW a, NEW b, Spelled(a, b) PROVE Spelled(a \o z, b \o z)
    BY <1>2, <1>6, <2>5
  <2> HIDE DEF x, y, z
  <2>6. Spelled(((s \o x) \o y) \o z, ((r \o x) \o y) \o z)
    BY <2>3, <2>4, <2>5
  <2> DEFINE w == x \o y
  <2>7. s \in Text /\ r \in Text /\ x \in Text /\ y \in Text /\ z \in Text /\ w \in Text
    BY <1>1, <2>2, ConcatProperties DEF Text
  <2>8. \A a \in Text : (a \o x) \o y = a \o w
    <3>1. x \in Text /\ y \in Text
      BY <2>7
    <3> QED BY <3>1, TextsConcat, Zenon
  <2> HIDE DEF w
  <2>9. \A a \in Text : (a \o w) \o z = a \o (w \o z)
    <3>1. w \in Text /\ z \in Text
      BY <2>7
    <3> QED BY <3>1, TextsConcat, Zenon
  <2>10. u = w \o z
    BY <2>2 DEF w
  <2>11. ((s \o x) \o y) \o z = s \o u /\ ((r \o x) \o y) \o z = r \o u
    BY <2>7, <2>8, <2>9, <2>10, Zenon
  <2> QED BY <2>6, <2>11
<1>7. Len(u) = 1 \/ Len(u) = 2 \/ Len(u) = 3
  OBVIOUS
<1> QED
  BY <1>4, <1>5, <1>6, <1>7

\* A client's escape sequence is one, of the code point it is for.
LEMMA WrittenUnit ==
  ASSUME NEW code \in Codes
  PROVE  Written(code) \in Units /\ UnitText(Written(code)) = AppendUtf8(code)
<1> DEFINE p == code \div 16
           q == p \div 16
           r == q \div 16
           d == code % 16
           c == p % 16
           b == q % 16
           u == Written(code)
<1>1. code \in Nat /\ p \in Nat /\ d \in 0..15 /\ code = p * 16 + d
  BY DEF Codes
<1>2. q \in Nat /\ c \in 0..15 /\ p = q * 16 + c
  <2> HIDE DEF p
  <2> QED BY <1>1
<1>3. r \in Nat /\ b \in 0..15 /\ q = r * 16 + b
  <2> HIDE DEF q
  <2> QED BY <1>2
<1>4. code \div 256 = q /\ code \div 4096 = r /\ r \in 0..15
  <2>1. code \div 4096 < 16
    BY DEF Codes
  <2> HIDE DEF p, q, r, d, c, b
  <2>2. code = q * 256 + (c * 16 + d) /\ c * 16 + d \in 0..255
    BY <1>1, <1>2, <1>3
  <2>3. code \div 256 = q
    BY <1>2, <2>2
  <2>4. code = r * 4096 + (b * 256 + (c * 16 + d)) /\ b * 256 + (c * 16 + d) \in 0..4095
    BY <1>1, <1>2, <1>3
  <2>5. code \div 4096 = r
    <3> DEFINE e == b * 256 + (c * 16 + d)
    <3>1. e \in 0..4095 /\ code = r * 4096 + e
      BY <2>4
    <3> HIDE DEF e
    <3>2. (r * 4096 + e) \div 4096 = r
      BY <1>3, <3>1
    <3> QED BY <3>1, <3>2
  <2> QED BY <1>3, <2>1, <2>3, <2>5
<1>5. u = <<Backslash, LetterU, LowHex(r), LowHex(b), LowHex(c), LowHex(d)>>
  BY <1>4 DEF Written
<1>6. ASSUME NEW n \in 0..15
      PROVE  LowHex(n) \in HexDigits /\ LowHex(n) \in Nat /\ HexDigitValue(LowHex(n)) = n
  BY DEF LowHex, HexDigits, Digits, HexDigitValue
<1> DEFINE w == LowHex(r)
           x == LowHex(b)
           y == LowHex(c)
           z == LowHex(d)
<1>7. /\ w \in Nat /\ w \in HexDigits /\ HexDigitValue(w) = r
      /\ x \in Nat /\ x \in HexDigits /\ HexDigitValue(x) = b
      /\ y \in Nat /\ y \in HexDigits /\ HexDigitValue(y) = c
      /\ z \in Nat /\ z \in HexDigits /\ HexDigitValue(z) = d
  BY <1>1, <1>2, <1>3, <1>4, <1>6
<1> HIDE DEF p, q, r, d, c, b, u, w, x, y, z
<1>8. /\ u \in Seq(Nat) /\ Len(u) = 6 /\ u[1] = Backslash /\ u[2] = LetterU
      /\ u[3] = w /\ u[4] = x /\ u[5] = y /\ u[6] = z
  <2>1. u = <<Backslash, LetterU, w, x, y, z>>
    BY <1>5 DEF w, x, y, z
  <2> QED BY <1>7, <2>1 DEF Backslash, LetterU
<1>9. u \in Units
  <2>1. \A i \in 3..6 : i = 3 \/ i = 4 \/ i = 5 \/ i = 6
    OBVIOUS
  <2>2. \A i \in 3..6 : u[i] \in HexDigits
    BY <1>7, <1>8, <2>1
  <2>3. IsUnit(u)
    BY <1>8, <2>2 DEF IsUnit
  <2> QED BY <1>8, <2>3 DEF Units
<1> DEFINE h == Hex(u, 3)
<1>10. h[0] = r /\ h[1] = b /\ h[2] = c /\ h[3] = d
  <2>1. \A i \in 0..3 : At(u, 3 + i) = u[3 + i]
    BY <1>8 DEF At
  <2>2. \A i \in 0..3 : h[i] = HexDigitValue(u[3 + i])
    BY <2>1 DEF Hex
  <2> HIDE DEF h
  <2>3. 3 + 0 = 3 /\ 3 + 1 = 4 /\ 3 + 2 = 5 /\ 3 + 3 = 6
    OBVIOUS
  <2> QED BY <1>7, <1>8, <2>2, <2>3
<1> HIDE DEF h
<1>11. HexValue(h) = code
  BY <1>1, <1>2, <1>3, <1>10 DEF HexValue
<1>12. \A i \in 0..3 : h[i] # End
  <2>1. \A i \in 0..3 : i = 0 \/ i = 1 \/ i = 2 \/ i = 3
    OBVIOUS
  <2>2. r # End /\ b # End /\ c # End /\ d # End
    BY <1>1, <1>2, <1>3, <1>4 DEF End
  <2> QED BY <1>10, <2>1, <2>2
<1>13. At(u, 2) = LetterU /\ LetterU \notin Escapable
  <2>1. LetterU \notin Escapable
    BY DEF LetterU, Escapable, EscapeLetters, Quote, Backslash, Slash
  <2> QED BY <1>8, <2>1 DEF At
<1>14. EscapeAt(u, 2).text = AppendUtf8(code)
  <2>1. EscapeAt(u, 2) = EscapeOf(At(u, 2), Hex(u, 2 + 1))
    BY DEF EscapeAt
  <2>2. EscapeAt(u, 2) = EscapeOf(LetterU, h)
    BY <1>13, <2>1 DEF h
  <2>3. EscapeOf(LetterU, h) = [length |-> 5, text |-> AppendUtf8(HexValue(h))]
    BY <1>12, <1>13 DEF EscapeOf
  <2> QED BY <1>11, <2>2, <2>3
<1>15. UnitText(u) = AppendUtf8(code)
  BY <1>8, <1>14 DEF UnitText
<1> QED
  BY <1>9, <1>15 DEF u

\* AppendUtf8 gives back the character a code point is of.
LEMMA CodePointRead ==
  ASSUME NEW u \in Chars, u[1] < 256
  PROVE  CodePoint(u) \in Codes /\ AppendUtf8(CodePoint(u)) = u
<1>1. /\ u \in Seq(Nat) /\ Len(u) \in 1..3 /\ u[1] \in Nat
      /\ Len(u) = 1 => u[1] \in 0..127 \/ u[1] > 255
      /\ Len(u) = 2 => u[1] \in 194..223 /\ u[2] \in 128..191
      /\ Len(u) = 3 => /\ u[1] \in 224..239 /\ u[2] \in 128..191 /\ u[3] \in 128..191
                       /\ u[1] = 224 => u[2] >= 160
  BY CharShape
<1> DEFINE n == Len(u)
           x == u[1]
           y == u[2]
           z == u[3]
<1>2. n = 1 => u = <<x>>
  BY <1>1
<1>3. n = 2 => u = <<x, y>>
  BY <1>1
<1>4. n = 3 => u = <<x, y, z>>
  BY <1>1
<1>5. CodePoint(u) = IF n = 1 THEN x ELSE IF n = 2 THEN (x - 192) * 64 + y - 128
                     ELSE ((x - 224) * 64 + y - 128) * 64 + z - 128
  BY DEF CodePoint
<1>6. n \in 1..3 /\ x \in Nat /\ x < 256
  BY <1>1
<1>7. /\ n = 1 => x \in 0..127
      /\ n = 2 => x \in 194..223 /\ y \in 128..191
      /\ n = 3 => x \in 224..239 /\ y \in 128..191 /\ z \in 128..191 /\ (x = 224 => y >= 160)
  <2>1. n = 1 => x \in 0..127 \/ x > 255
    BY <1>1
  <2>2. n = 2 => x \in 194..223 /\ y \in 128..191
    BY <1>1
  <2>3. n = 3 => x \in 224..239 /\ y \in 128..191 /\ z \in 128..191 /\ (x = 224 => y >= 160)
    BY <1>1
  <2> HIDE DEF n, x, y, z
  <2> QED BY <1>6, <2>1, <2>2, <2>3
<1> HIDE DEF n, x, y, z
<1>8. CASE n = 1
  <2>1. x \in Codes /\ AppendUtf8(x) = <<x>>
    BY <1>7, <1>8 DEF AppendUtf8, Codes
  <2> QED BY <1>2, <1>5, <1>8, <2>1
<1>9. CASE n = 2
  <2> DEFINE a == x - 192
             b == y - 128
             code == a * 64 + b
  <2>1. a \in 2..31 /\ b \in 0..63 /\ x = 192 + a /\ y = 128 + b
    BY <1>7, <1>9
  <2>2. CodePoint(u) = code
    BY <1>5, <1>7, <1>9
  <2> HIDE DEF a, b
  <2>3. code \in 128..2047 /\ code \div 64 = a /\ code % 64 = b
    BY <2>1
  <2> HIDE DEF code
  <2>4. AppendUtf8(code) = <<192 + a, 128 + b>>
    BY <2>3 DEF AppendUtf8
  <2>5. code \in Codes
    <3>1. code \in Nat /\ code < 4096
      BY <2>3
    <3>2. code \div 4096 = 0
      BY <3>1
    <3> QED BY <3>1, <3>2 DEF Codes
  <2> QED BY <1>3, <1>9, <2>1, <2>2, <2>4, <2>5
<1>10. CASE n = 3
  <2> DEFINE a == x - 224
             b == y - 128
             c == z - 128
             high == a * 64 + b
             code == high * 64 + c
  <2>1. /\ a \in 0..15 /\ b \in 0..63 /\ c \in 0..63 /\ (a = 0 => b >= 32)
        /\ x = 224 + a /\ y = 128 + b /\ z = 128 + c
    BY <1>7, <1>10
  <2>2. CodePoint(u) = code
    BY <1>5, <1>7, <1>10
  <2> HIDE DEF a, b, c
  <2>3. high \in 32..1023 /\ high % 64 = b /\ high \div 64 = a
    BY <2>1
  <2>4. high = a * 64 + b
    BY DEF high
  <2> HIDE DEF high
  <2>5. code \in Nat /\ code >= 2048 /\ code \div 64 = high /\ code % 64 = c
    BY <2>1, <2>3
  <2>6. code \div 4096 = a
    <3> DEFINE e == b * 64 + c
    <3>1. code = a * 4096 + e /\ e \in 0..4095
      BY <2>1, <2>4
    <3> HIDE DEF code, e
    <3>2. (a * 4096 + e) \div 4096 = a
      BY <2>1, <3>1
    <3> QED BY <3>1, <3>2
  <2> HIDE DEF code
  <2>7. AppendUtf8(code) = <<224 + a, 128 + b, 128 + c>>
    BY <2>3, <2>5, <2>6 DEF AppendUtf8
  <2>8. code \in Codes
    BY <2>1, <2>5, <2>6 DEF Codes
  <2> QED BY <1>4, <1>10, <2>1, <2>2, <2>7, <2>8
<1> QED
  BY <1>6, <1>8, <1>9, <1>10

\* However a client writes a character, it stands for it.
LEMMA CharSpelled ==
  ASSUME NEW s, NEW r, Spelled(s, r), NEW u \in Chars, NEW asciiOnly \in BOOLEAN
  PROVE  Spelled(s \o WrittenAs(u, asciiOnly), r \o u) /\ WrittenAs(u, asciiOnly) \in Seq(Nat)
<1>1. /\ u \in Seq(Nat) /\ Len(u) \in 1..3 /\ u[1] \in Nat
      /\ Len(u) = 1 => u[1] \in 0..127 \/ u[1] > 255
      /\ Len(u) = 2 => u[1] \in 194..223 /\ u[2] \in 128..191
      /\ Len(u) = 3 => /\ u[1] \in 224..239 /\ u[2] \in 128..191 /\ u[3] \in 128..191
                       /\ u[1] = 224 => u[2] >= 160
  BY CharShape
<1>2. \A n \in MustEscape : n < 128
  BY DEF MustEscape, Controls, Quote, Backslash
<1>3. CASE u[1] \in MustEscape \/ (asciiOnly /\ u[1] < 256)
  <2> DEFINE v == Written(CodePoint(u))
  <2>1. u[1] < 256
    BY <1>1, <1>2, <1>3
  <2>2. v \in Units /\ UnitText(v) = u
    BY <2>1, CodePointRead, WrittenUnit
  <2>3. WrittenAs(u, asciiOnly) = v
    BY <1>3 DEF WrittenAs
  <2> HIDE DEF v
  <2>4. v \in Seq(Nat)
    BY <2>2 DEF Units
  <2>5. Spelled(s \o v, r \o u)
    BY <2>2, SpelledMore
  <2> QED BY <2>3, <2>4, <2>5
<1>4. CASE ~(u[1] \in MustEscape \/ (asciiOnly /\ u[1] < 256))
  <2>1. WrittenAs(u, asciiOnly) = u
    BY <1>4 DEF WrittenAs
  <2>2. \A i \in 1..Len(u) : u[i] \notin MustEscape
    <3> DEFINE n == Len(u)
               x == u[1]
               y == u[2]
               z == u[3]
    <3>1. x \notin MustEscape
      BY <1>4
    <3>2. n = 2 => y \in 128..191
      BY <1>1
    <3>3. n = 3 => y \in 128..191 /\ z \in 128..191
      BY <1>1
    <3>4. n \in 1..3
      BY <1>1
    <3> HIDE DEF n, x, y, z
    <3>5. n >= 2 => y \notin MustEscape
      BY <1>2, <3>2, <3>3, <3>4
    <3>6. n = 3 => z \notin MustEscape
      BY <1>2, <3>3
    <3>7. \A i \in 1..n : i = 1 \/ (i = 2 /\ n >= 2) \/ (i = 3 /\ n = 3)
      BY <3>4
    <3> QED BY <3>1, <3>5, <3>6, <3>7 DEF n, x, y, z
  <2>3. Spelled(s \o u, r \o u)
    BY <1>1, <2>2, SpelledPlain
  <2> QED BY <1>1, <2>1, <2>3
<1> QED
  BY <1>3, <1>4

\* What a client writes for each of some characters.
WrittenAll(us, asciiOnly) == [i \in 1..Len(us) |-> WrittenAs(us[i], asciiOnly)]

\* What it writes for one more comes last.
LEMMA WrittenAppend ==
  ASSUME NEW us \in Seq(Chars), NEW u \in Chars, NEW a \in BOOLEAN, WrittenAll(us, a) \in Seq(Seq(Nat)),
         WrittenAs(u, a) \in Seq(Nat)
  PROVE  WrittenAll(Append(us, u), a) = Append(WrittenAll(us, a), WrittenAs(u, a))
<1> DEFINE vs == Append(us, u)
           n == Len(us)
           A == Seq(Nat)
           ts == WrittenAll(us, a)
           e == WrittenAs(u, a)
           x == Append(ts, e)
           y == WrittenAll(vs, a)
<1>1. /\ n \in Nat /\ Len(vs) = n + 1 /\ vs[n + 1] = u
      /\ \A i \in 1..n : vs[i] = us[i]
  BY AppendProperties, LenProperties
<1>2. y = [i \in 1..(n + 1) |-> WrittenAs(vs[i], a)] /\ ts = [i \in 1..n |-> WrittenAs(us[i], a)]
  <2> HIDE DEF vs, n
  <2> QED BY <1>1 DEF WrittenAll, n
<1>3. ts \in Seq(A) /\ e \in A
  OBVIOUS
<1> HIDE DEF vs, n, A, ts, e
<1>4. Len(ts) = n
  BY <1>1, <1>2, <1>3, LenProperties
<1>5. x \in Seq(A) /\ Len(x) = n + 1 /\ (\A i \in 1..n : x[i] = ts[i]) /\ x[n + 1] = e
  <2>1. /\ x \in Seq(A) /\ Len(x) = Len(ts) + 1
        /\ (\A i \in 1..Len(ts) : x[i] = ts[i]) /\ x[Len(ts) + 1] = e
    BY <1>3, AppendProperties
  <2> HIDE DEF x
  <2> QED BY <1>4, <2>1
<1>6. x = [i \in 1..(n + 1) |-> x[i]]
  BY <1>1, <1>5, LenProperties
<1> HIDE DEF x, y
<1>7. \A i \in 1..(n + 1) : x[i] = WrittenAs(vs[i], a)
  <2>1. \A i \in 1..(n + 1) : i \in 1..n \/ i = n + 1
    BY <1>1
  <2>2. \A i \in 1..n : x[i] = WrittenAs(vs[i], a)
    BY <1>1, <1>2, <1>5
  <2>3. x[n + 1] = WrittenAs(vs[n + 1], a)
    BY <1>1, <1>5 DEF e
  <2> QED BY <2>1, <2>2, <2>3
<1>8. x = y
  BY <1>2, <1>6, <1>7
<1> QED
  BY <1>8 DEF x, y, vs, ts, e

\* A text of whole characters, escaped, stands for itself.
LEMMA EscapedSpelled ==
  ASSUME NEW t \in Seq(Nat), IsUtf8(t), NEW a \in BOOLEAN
  PROVE  Spelled(Escaped(t, a), t)
<1> DEFINE Goal(us) == /\ WrittenAll(us, a) \in Seq(Seq(Nat))
                       /\ Spelled(FlattenSeq(WrittenAll(us, a)), FlattenSeq(us))
           T == {us \in Seq(Chars) : Goal(us)}
<1>1. <<>> \in T
  <2> DEFINE x == WrittenAll(<<>>, a)
  <2>1. x = [i \in 1..0 |-> WrittenAs(<<>>[i], a)]
    <3>1. Len(<<>>) = 0
      BY EmptySeq
    <3> QED BY <3>1 DEF WrittenAll
  <2> HIDE DEF x
  <2>2. x = <<>>
    BY <2>1
  <2>3. <<>> \in Seq(Seq(Nat)) /\ <<>> \in Seq(Chars) /\ FlattenSeq(<<>>) = <<>>
    BY FlattenEmpty, EmptySeq
  <2>4. Goal(<<>>)
    BY <2>2, <2>3, SpelledNothing DEF x
  <2> HIDE DEF Goal
  <2> QED BY <2>3, <2>4
<1>2. ASSUME NEW us \in Seq(Chars), NEW u \in Chars, us \in T PROVE Append(us, u) \in T
  <2> DEFINE vs == Append(us, u)
             ts == WrittenAll(us, a)
             e == WrittenAs(u, a)
             x == WrittenAll(vs, a)
  <2>1. ts \in Seq(Seq(Nat)) /\ Spelled(FlattenSeq(ts), FlattenSeq(us))
    BY <1>2
  <2>2. us \in Seq(Seq(Nat)) /\ u \in Seq(Nat) /\ vs \in Seq(Chars)
    BY CharsTyped, CharShape, AppendProperties
  <2>3. Spelled(FlattenSeq(ts) \o e, FlattenSeq(us) \o u) /\ e \in Seq(Nat)
    BY <2>1, CharSpelled
  <2>4. x = Append(ts, e)
    BY <2>1, <2>3, WrittenAppend
  <2> HIDE DEF ts, e, x
  <2>5. x \in Seq(Seq(Nat)) /\ FlattenSeq(x) = FlattenSeq(ts) \o e
    BY <2>1, <2>3, <2>4, FlattenAppend, AppendProperties
  <2>6. FlattenSeq(vs) = FlattenSeq(us) \o u
    BY <2>2, FlattenAppend
  <2> HIDE DEF vs
  <2>7. x \in Seq(Seq(Nat)) /\ Spelled(FlattenSeq(x), FlattenSeq(vs))
    BY <2>3, <2>5, <2>6
  <2>8. Goal(vs)
    BY <2>7 DEF x
  <2> HIDE DEF Goal
  <2> QED BY <2>2, <2>8 DEF vs
<1>3. \A us \in Seq(Chars) : us \in T
  <2> HIDE DEF T
  <2> QED BY <1>1, <1>2, SeqInduction
<1> DEFINE us == CharactersOf(t)
<1>4. us \in Seq(Chars) /\ FlattenSeq(us) = t
  BY Utf8Whole
<1>5. Escaped(t, a) = FlattenSeq(WrittenAll(us, a))
  BY DEF Escaped, WrittenAll
<1> HIDE DEF us
<1> QED
  BY <1>3, <1>4, <1>5

-----------------------------------------------------------------------------
(* Numbers *)

\* What is read of the first digits, as Number reads them.
Sums(n, ds) ==
  /\ n \in [0..Len(ds) -> Nat] /\ n[0] = 0
  /\ \A i \in 1..Len(ds) : n[i] = Capped(n[i - 1] * 10 + ds[i] - 48)

\* Number reads so.
LEMMA NumberSums ==
  ASSUME NEW ds \in Seq(Digits)
  PROVE  \E n : Sums(n, ds) /\ Number(ds) = n[Len(ds)]
<1> DEFINE m == Len(ds)
           Sum(i, k) == Capped(k * 10 + ds[i] - 48)
           step == [i \in 1..m |-> [k \in Nat |-> Sum(i, k)]]
           Def(h) == h = [i \in 0..m |-> IF i = 0 THEN 0 ELSE Sum(i, h[i - 1])]
           n == CHOOSE h : Def(h)
<1>1. m \in Nat /\ \A i \in 1..m : ds[i] \in 48..57
  BY LenProperties, ElementOfSeq DEF Digits
<1>2. ASSUME NEW i \in 1..m, NEW k \in Nat PROVE Sum(i, k) \in Nat
  <2> DEFINE c == ds[i]
  <2>1. c \in 48..57
    BY <1>1
  <2> HIDE DEF c
  <2>2. k * 10 + c - 48 \in Nat
    BY <2>1
  <2> QED BY <2>2, IntAssumption DEF Capped, c
<1> HIDE DEF m, Sum
<1>3. step \in Steps(m, Nat)
  BY <1>2 DEF Steps
<1>4. PICK f : Iterates(f, m, Nat, 0, step)
  <2> HIDE DEF step
  <2>1. 0 \in Nat
    OBVIOUS
  <2> QED BY <1>1, <1>3, <2>1, RecursionExists
<1>5. f \in [0..m -> Nat] /\ f[0] = 0 /\ \A i \in 1..m : f[i] = Sum(i, f[i - 1])
  <2>1. f \in [0..m -> Nat] /\ f[0] = 0 /\ \A i \in 1..m : f[i] = step[i][f[i - 1]]
    BY <1>4 DEF Iterates
  <2>2. \A i \in 1..m : f[i - 1] \in Nat
    BY <1>1, <2>1
  <2> QED BY <2>1, <2>2
<1>6. Def(f)
  <2>1. \A i \in 0..m : i = 0 \/ i \in 1..m
    BY <1>1
  <2>2. \A i \in 0..m : f[i] = IF i = 0 THEN 0 ELSE Sum(i, f[i - 1])
    BY <1>5, <2>1
  <2> QED BY <1>5, <2>2
<1>7. Def(n)
  <2> HIDE DEF Def
  <2> QED BY <1>6
<1>8. Number(ds) = n[m]
  BY DEF Number, Sum, m
<1> HIDE DEF n
<1>9. \A i \in 0..m : n[i] = f[i]
  <2> DEFINE T == {i \in 0..m : n[i] = f[i]}
  <2>1. \A i \in 0..m : n[i] = IF i = 0 THEN 0 ELSE Sum(i, n[i - 1])
    BY <1>7
  <2>2. 0 \in T
    BY <1>1, <1>5, <2>1
  <2>3. ASSUME NEW i \in 0..(m - 1), i \in T PROVE i + 1 \in T
    <3>1. i + 1 \in 1..m /\ i + 1 \in 0..m /\ i + 1 # 0 /\ (i + 1) - 1 = i
      BY <1>1
    <3>2. n[i + 1] = Sum(i + 1, n[(i + 1) - 1])
      BY <2>1, <3>1
    <3>3. f[i + 1] = Sum(i + 1, f[(i + 1) - 1])
      BY <1>5, <3>1
    <3> QED BY <2>3, <3>1, <3>2, <3>3
  <2> HIDE DEF T
  <2>4. \A i \in 0..m : i \in T
    BY <1>1, <2>2, <2>3, BoundedInduction
  <2> QED BY <2>4 DEF T
<1>10. Sums(f, ds)
  BY <1>5 DEF Sums, Sum, m
<1>11. n[m] = f[m]
  BY <1>1, <1>9
<1> QED
  BY <1>8, <1>10, <1>11 DEF m

\* No digits are zero, and one more counts as it should.
LEMMA NumberMore ==
  ASSUME NEW ds \in Seq(Digits), NEW c \in Digits
  PROVE  /\ Number(<<>>) = 0 /\ Number(ds) \in Nat
         /\ Number(Append(ds, c)) = Capped(Number(ds) * 10 + c - 48)
<1>1. Number(<<>>) = 0
  <2>1. <<>> \in Seq(Digits) /\ Len(<<>>) = 0
    BY EmptySeq
  <2>2. PICK n : Sums(n, <<>>) /\ Number(<<>>) = n[Len(<<>>)]
    BY <2>1, NumberSums
  <2> QED BY <2>1, <2>2 DEF Sums
<1> DEFINE es == Append(ds, c)
           m == Len(ds)
<1>2. /\ es \in Seq(Digits) /\ Len(es) = m + 1 /\ m \in Nat /\ es[m + 1] = c
      /\ \A i \in 1..m : es[i] = ds[i]
  BY AppendProperties, LenProperties
<1>3. PICK n : Sums(n, ds) /\ Number(ds) = n[Len(ds)]
  BY NumberSums
<1> HIDE DEF es
<1>4. PICK k : Sums(k, es) /\ Number(es) = k[Len(es)]
  BY <1>2, NumberSums
<1>5. /\ n \in [0..m -> Nat] /\ n[0] = 0
      /\ \A i \in 1..m : n[i] = Capped(n[i - 1] * 10 + ds[i] - 48)
  BY <1>3 DEF Sums
<1>6. /\ k[0] = 0
      /\ \A i \in 1..(m + 1) : k[i] = Capped(k[i - 1] * 10 + es[i] - 48)
  BY <1>2, <1>4 DEF Sums
<1>7. Number(ds) = n[m] /\ Number(es) = k[m + 1]
  BY <1>2, <1>3, <1>4
<1> HIDE DEF m
<1>8. \A i \in 0..m : k[i] = n[i]
  <2> DEFINE T == {i \in 0..m : k[i] = n[i]}
  <2>1. 0 \in T
    BY <1>2, <1>5, <1>6
  <2>2. ASSUME NEW i \in 0..(m - 1), i \in T PROVE i + 1 \in T
    <3>1. i + 1 \in 1..m /\ i + 1 \in 0..m /\ i + 1 \in 1..(m + 1) /\ (i + 1) - 1 = i
      BY <1>2
    <3>2. n[i + 1] = Capped(n[(i + 1) - 1] * 10 + ds[i + 1] - 48)
      BY <1>5, <3>1
    <3>3. k[i + 1] = Capped(k[(i + 1) - 1] * 10 + es[i + 1] - 48)
      BY <1>6, <3>1
    <3>4. es[i + 1] = ds[i + 1] /\ k[(i + 1) - 1] = n[(i + 1) - 1]
      BY <1>2, <2>2, <3>1
    <3> QED BY <3>1, <3>2, <3>3, <3>4
  <2> HIDE DEF T
  <2>3. \A i \in 0..m : i \in T
    BY <1>2, <2>1, <2>2, BoundedInduction
  <2> QED BY <2>3 DEF T
<1>9. k[m + 1] = Capped(k[m] * 10 + c - 48)
  <2>1. m + 1 \in 1..(m + 1) /\ (m + 1) - 1 = m
    BY <1>2
  <2> QED BY <1>2, <1>6, <2>1
<1>10. k[m] = n[m] /\ n[m] \in Nat
  BY <1>2, <1>5, <1>8
<1> QED
  BY <1>1, <1>7, <1>9, <1>10 DEF es

\* Recursion over ranks up to m.
Ranks(P, m) == [P -> 0..m]

\* There is a function in F for a step that reads only lower ranks.
LEMMA RankedSolved ==
  ASSUME NEW P, NEW F, NEW v \in F, NEW m \in Nat, NEW rank \in Ranks(P, m), NEW step,
         WellRanked(step, F, P, rank)
  PROVE  \E f \in F : Solves(f, step, P)
<1>1. m \in Nat /\ rank \in [P -> 0..m] /\ v \in F
  BY DEF Ranks
<1> QED
  BY <1>1, RankedRecursion

\* Functions that solve alike whatever stands lower are the same.
LEMMA RankedSame ==
  ASSUME NEW P, NEW m \in Nat, NEW rank \in Ranks(P, m), NEW f, NEW g,
         \A i \in P : Agree(f, g, P, rank, i) => f[i] = g[i]
  PROVE  \A i \in P : f[i] = g[i]
<1>1. m \in Nat /\ rank \in [P -> 0..m]
  BY DEF Ranks
<1> QED
  BY <1>1, RankedUnique

\* What a number is written as.
Numerals == {ds \in Seq(Digits) : ds # <<>>}

\* The numerals of the numbers up to n, as Decimal writes them.
Numeral(m, digits) == IF m < 10 THEN <<48 + m>> ELSE Append(digits[m \div 10], 48 + (m % 10))
Numbered(digits, n) ==
  /\ digits \in [0..n -> Numerals]
  /\ \A m \in 0..n : digits[m] = Numeral(m, digits)

\* A number is ten times what is written first, and its last digit.
LEMMA DigitsOf ==
  ASSUME NEW m \in Nat
  PROVE  /\ m \div 10 \in Nat /\ m % 10 \in 0..9 /\ m = (m \div 10) * 10 + (m % 10)
         /\ m >= 10 => m \div 10 < m
         /\ 48 + (m % 10) \in Digits
<1>1. m \div 10 \in Nat /\ m % 10 \in 0..9 /\ m = (m \div 10) * 10 + (m % 10)
  OBVIOUS
<1> DEFINE q == m \div 10
           r == m % 10
<1> HIDE DEF q, r
<1>2. q \in Nat /\ r \in 0..9 /\ m = q * 10 + r
  BY <1>1 DEF q, r
<1>3. m >= 10 => q < m
  BY <1>2
<1>4. 48 + r \in Digits
  BY <1>2 DEF Digits
<1> QED
  BY <1>1, <1>3, <1>4 DEF q, r

\* Decimal is well defined.
LEMMA DecimalNumbered ==
  ASSUME NEW n \in Nat
  PROVE  \E digits : Numbered(digits, n) /\ Decimal(n) = digits[n]
<1> DEFINE P == 0..n
           V == Numerals
           top == n
           rank == [m \in P |-> m]
           step == [m \in P |-> [f \in [P -> V] |-> Numeral(m, f)]]
           Def(h) == h = [m \in P |-> Numeral(m, h)]
           digits == CHOOSE h : Def(h)
<1>1. ASSUME NEW m \in P, NEW f \in [P -> V] PROVE Numeral(m, f) \in V
  <2>1. CASE m < 10
    <3>1. 48 + m \in Digits
      BY <2>1 DEF Digits
    <3> DEFINE c == 48 + m
    <3> HIDE DEF c
    <3>2. <<c>> \in Seq(Digits) /\ <<c>> # <<>>
      BY <3>1 DEF c
    <3> QED BY <2>1, <3>2 DEF Numeral, Numerals, c
  <2>2. CASE ~(m < 10)
    <3> DEFINE q == m \div 10
               c == 48 + (m % 10)
    <3>1. q \in P /\ c \in Digits
      BY <2>2, DigitsOf
    <3> HIDE DEF q, c
    <3>2. f[q] \in Seq(Digits)
      BY <3>1 DEF Numerals
    <3>3. Append(f[q], c) \in Seq(Digits) /\ Append(f[q], c) # <<>>
      BY <3>1, <3>2, AppendProperties
    <3> QED BY <2>2, <3>3 DEF Numeral, Numerals, q, c
  <2> QED BY <2>1, <2>2
<1>2. ASSUME NEW m \in P, NEW f, NEW g, Agree(f, g, P, rank, m)
      PROVE  Numeral(m, f) = Numeral(m, g)
  <2>1. CASE m < 10
    BY <2>1 DEF Numeral
  <2>2. CASE ~(m < 10)
    <3> DEFINE q == m \div 10
    <3>1. q \in P /\ q < m
      BY <2>2, DigitsOf
    <3> HIDE DEF q
    <3>2. f[q] = g[q]
      BY <1>2, <3>1 DEF Agree
    <3> QED BY <2>2, <3>2 DEF Numeral, q
  <2> QED BY <2>1, <2>2
<1>3. rank \in Ranks(P, top) /\ top \in Nat
  BY DEF Ranks
<1>4. <<48>> \in V
  <2>1. 48 \in Digits
    BY DEF Digits
  <2> QED BY <2>1 DEF Numerals
<1>5. PICK f \in [P -> V] : \A m \in P : f[m] = Numeral(m, f)
  <2>1. \A m \in P : \A f \in [P -> V] : step[m][f] = Numeral(m, f)
    OBVIOUS
  <2> DEFINE F == [P -> V]
             v == [m \in P |-> <<48>>]
  <2>2. v \in F
    BY <1>4
  <2>3. ASSUME NEW f \in F PROVE \E g \in F : \A m \in P : g[m] = step[m][f]
    <3> DEFINE g == [m \in P |-> step[m][f]]
    <3>1. \A m \in P : step[m][f] \in V
      BY <1>1, <2>1
    <3>2. g \in F /\ \A m \in P : g[m] = step[m][f]
      BY <3>1
    <3> QED BY <3>2
  <2>4. ASSUME NEW m \in P, NEW f \in F, NEW g \in F, Agree(f, g, P, rank, m)
        PROVE  step[m][f] = step[m][g]
    BY <1>2, <2>1, <2>4
  <2> HIDE DEF P, F, rank, step, v, top
  <2>5. WellRanked(step, F, P, rank)
    BY <2>3, <2>4 DEF WellRanked
  <2>6. \E f \in F : Solves(f, step, P)
    BY <1>3, <2>2, <2>5, RankedSolved
  <2> QED BY <2>1, <2>6 DEF Solves, F
<1>6. Def(f)
  <2> HIDE DEF P, V
  <2>1. f = [m \in P |-> f[m]]
    BY <1>5
  <2> QED BY <1>5, <2>1
<1>7. Def(digits)
  <2> HIDE DEF Def
  <2> QED BY <1>6
<1>8. Decimal(n) = digits[n]
  BY DEF Decimal, Numeral
<1> HIDE DEF digits, P, V
<1>9. \A m \in P : f[m] = digits[m]
  <2>1. \A m \in P : digits[m] = Numeral(m, digits)
    BY <1>7
  <2> HIDE DEF Def, rank, top
  <2>2. \A m \in P : Agree(f, digits, P, rank, m) => f[m] = digits[m]
    <3>1. ASSUME NEW m \in P, Agree(f, digits, P, rank, m) PROVE f[m] = digits[m]
      <4>1. Numeral(m, f) = Numeral(m, digits)
        BY <1>2, <3>1
      <4> QED BY <1>5, <2>1, <4>1
    <3> QED BY <3>1
  <2> QED BY <1>3, <2>2, RankedSame
<1>10. Numbered(digits, n)
  <2>1. digits = [m \in P |-> digits[m]] /\ \A m \in P : digits[m] = Numeral(m, digits)
    BY <1>7
  <2>2. digits \in [P -> V]
    BY <1>5, <1>9, <2>1
  <2> QED BY <2>1, <2>2 DEF Numbered, P, V
<1> QED
  BY <1>8, <1>10

\* A number is read as it was written, or as too large for an int.
LEMMA DecimalRead ==
  ASSUME NEW n \in Nat
  PROVE  /\ Decimal(n) \in Seq(Digits) /\ Decimal(n) # <<>>
         /\ Number(Decimal(n)) = Capped(n)
<1>1. PICK digits : Numbered(digits, n) /\ Decimal(n) = digits[n]
  BY DecimalNumbered
<1> DEFINE P == 0..n
           top == n
           rank == [m \in P |-> m]
           f == [m \in P |-> Number(digits[m])]
           g == [m \in P |-> Capped(m)]
<1>2. \A m \in P : digits[m] \in Seq(Digits) /\ digits[m] # <<>> /\ digits[m] = Numeral(m, digits)
  BY <1>1 DEF Numbered, Numerals
<1>3. \A m \in Nat : Capped(m) = IF m > IntMax + 2 THEN IntMax + 2 ELSE m
  BY DEF Capped
<1>4. ASSUME NEW m \in P, Agree(f, g, P, rank, m) PROVE f[m] = g[m]
  <2>1. CASE m < 10
    <3> DEFINE c == 48 + m
    <3>1. c \in Digits /\ 0 * 10 + c - 48 = m
      BY <2>1 DEF Digits
    <3>2. digits[m] = <<c>>
      BY <1>2, <2>1 DEF Numeral
    <3> HIDE DEF c
    <3>3. <<c>> = Append(<<>>, c) /\ <<>> \in Seq(Digits)
      BY EmptySeq
    <3>4. Number(Append(<<>>, c)) = Capped(0 * 10 + c - 48)
      BY <3>1, <3>3, NumberMore
    <3>5. Number(digits[m]) = Capped(m)
      BY <3>1, <3>2, <3>3, <3>4
    <3> QED BY <3>5
  <2>2. CASE ~(m < 10)
    <3> DEFINE q == m \div 10
               r == m % 10
               c == 48 + r
               ds == digits[q]
    <3>1. q \in P /\ q < m /\ r \in 0..9 /\ c \in Digits /\ m = q * 10 + r /\ q \in Nat
      BY <2>2, DigitsOf
    <3>2. digits[m] = Append(ds, c)
      BY <1>2, <2>2 DEF Numeral
    <3>3. Number(ds) = Capped(q)
      <4> HIDE DEF q
      <4>1. rank[q] < rank[m]
        BY <3>1
      <4>2. f[q] = g[q]
        BY <1>4, <3>1, <4>1 DEF Agree
      <4> QED BY <3>1, <4>2
    <3>4. ds \in Seq(Digits)
      BY <1>2, <3>1
    <3> HIDE DEF ds, q, r
    <3>5. Number(Append(ds, c)) = Capped(Number(ds) * 10 + c - 48)
      BY <3>1, <3>4, NumberMore
    <3>6. Capped(Number(ds) * 10 + c - 48) = Capped(m)
      <4> DEFINE k == Number(ds) * 10 + c - 48
      <4>1. Number(ds) = IF q > IntMax + 2 THEN IntMax + 2 ELSE q
        BY <1>3, <3>1, <3>3
      <4>2. Number(ds) \in Nat
        BY <3>1, <4>1, IntAssumption
      <4> DEFINE s == Number(ds)
      <4> HIDE DEF s
      <4>3. k = s * 10 + r
        BY <3>1, <4>2 DEF s
      <4>4. s \in Nat /\ s = IF q > IntMax + 2 THEN IntMax + 2 ELSE q
        BY <4>1, <4>2 DEF s
      <4> HIDE DEF k
      <4>5. k \in Nat
        BY <3>1, <4>3, <4>4
      <4>6. CASE q > IntMax + 2
        <5>1. k > IntMax + 2 /\ m > IntMax + 2
          BY <3>1, <4>3, <4>4, <4>6, IntAssumption
        <5> QED BY <1>3, <3>1, <4>5, <5>1 DEF k
      <4>7. CASE ~(q > IntMax + 2)
        BY <3>1, <4>3, <4>4, <4>7 DEF k
      <4> QED BY <4>6, <4>7
    <3>7. Number(digits[m]) = Capped(m)
      BY <3>2, <3>3, <3>5, <3>6
    <3> QED BY <3>7
  <2> QED BY <2>1, <2>2
<1>5. \A m \in P : f[m] = g[m]
  <2>1. top \in Nat /\ rank \in Ranks(P, top)
    BY DEF Ranks
  <2>2. \A m \in P : Agree(f, g, P, rank, m) => f[m] = g[m]
    <3> HIDE DEF f, g, rank, P
    <3> QED BY <1>4
  <2> HIDE DEF f, g, rank, P, top
  <2> QED BY <2>1, <2>2, RankedSame
<1>6. n \in P
  OBVIOUS
<1>7. Number(digits[n]) = Capped(n)
  BY <1>5, <1>6
<1> QED
  BY <1>1, <1>2, <1>6, <1>7

\* A number is a value, whether it is negative or not.
LEMMA IntegerValue ==
  ASSUME NEW n \in Int
  PROVE  Integer(n) \in Values
<1>1. ASSUME NEW k \in Nat PROVE Decimal(k) \in Seq(Nat) /\ \A i \in 1..Len(Decimal(k)) : Decimal(k)[i] \in 48..57
  <2>1. Decimal(k) \in Seq(Digits)
    BY DecimalRead
  <2> DEFINE ds == Decimal(k)
  <2> HIDE DEF ds
  <2>2. \A i \in 1..Len(ds) : ds[i] \in 48..57
    BY <2>1, ElementOfSeq DEF ds, Digits
  <2>3. ds \in [1..Len(ds) -> Nat] /\ Len(ds) \in Nat
    BY <2>1, <2>2, LenProperties DEF ds
  <2>4. ds \in Seq(Nat)
    BY <2>3, FunctionIsSeq
  <2> QED BY <2>2, <2>4 DEF ds
<1> DEFINE v == Integer(n)
<1>2. v \in Seq(Nat) /\ v # <<>> /\ \A i \in 1..Len(v) : v[i] \in {45} \cup 48..57
  <2>1. CASE n < 0
    <3> DEFINE k == -n
               ds == Decimal(k)
    <3>1. k \in Nat
      BY <2>1
    <3> HIDE DEF k
    <3>2. ds \in Seq(Nat) /\ \A i \in 1..Len(ds) : ds[i] \in 48..57
      BY <1>1, <3>1
    <3> HIDE DEF ds
    <3>3. v = <<45>> \o ds
      BY <2>1 DEF Integer, Minus, k, ds
    <3> HIDE DEF v
    <3>4. /\ v \in Seq(Nat) /\ v # <<>> /\ Len(ds) \in Nat /\ Len(v) = Len(ds) + 1 /\ v[1] = 45
          /\ \A i \in 2..(Len(ds) + 1) : v[i] = ds[i - 1]
      BY <3>2, <3>3
    <3>5. ASSUME NEW i \in 1..Len(v) PROVE v[i] \in {45} \cup 48..57
      <4>1. CASE i = 1
        BY <3>4, <4>1
      <4>2. CASE i # 1
        <5>1. i \in 2..(Len(ds) + 1) /\ i - 1 \in 1..Len(ds)
          BY <3>4, <4>2
        <5>2. v[i] = ds[i - 1]
          BY <3>4, <5>1
        <5> QED BY <3>2, <5>1, <5>2
      <4> QED BY <4>1, <4>2
    <3> QED BY <3>4, <3>5
  <2>2. CASE ~(n < 0)
    <3>1. n \in Nat
      BY <2>2
    <3>2. v = Decimal(n)
      BY <2>2 DEF Integer
    <3>3. Decimal(n) # <<>>
      BY <3>1, DecimalRead
    <3> HIDE DEF v
    <3>4. v \in Seq(Nat) /\ \A i \in 1..Len(v) : v[i] \in 48..57
      BY <1>1, <3>1, <3>2
    <3> QED BY <3>2, <3>3, <3>4
  <2> QED BY <2>1, <2>2
<1> HIDE DEF v
<1>3. \A c \in {45} \cup 48..57 : c \notin ScalarStops /\ c \notin {LBrace, LBracket, Quote}
  BY DEF ScalarStops, Whitespace, LBrace, LBracket, RBrace, RBracket, Quote, Comma, End
<1>4. v[1] \in {45} \cup 48..57
  <2>1. 1 \in 1..Len(v)
    BY <1>2, EmptySeq, LenProperties
  <2> QED BY <1>2, <2>1
<1>5. v[1] \notin {LBrace, LBracket, Quote} /\ \A i \in 1..Len(v) : v[i] \notin ScalarStops
  BY <1>2, <1>3, <1>4
<1> QED
  BY <1>2, <1>5, ScalarIsValue DEF v

\* What TryGetIntField makes of a raw value.
ReadInt(raw) ==
  LET signed == At(raw, 1) \in {Minus, Plus}
      digits == IF signed THEN Tail(raw) ELSE raw
      n == IF At(raw, 1) = Minus THEN -Number(digits) ELSE Number(digits)
  IN IF /\ digits # <<>> /\ \A i \in 1..Len(digits) : digits[i] \in Digits
        /\ n \in (-IntMax - 1)..IntMax
     THEN n ELSE Absent

\* An int is read as it was written, and no other number is read as one.
LEMMA IntegerRead ==
  ASSUME NEW n \in Int
  PROVE  ReadInt(Integer(n)) = IF n \in (-IntMax - 1)..IntMax THEN n ELSE Absent
<1> DEFINE raw == Integer(n)
           size == IF n < 0 THEN -n ELSE n
           ds == Decimal(size)
           lim == IntMax
<1>1. size \in Nat /\ lim \in Nat
  BY IntAssumption
<1>2. ds \in Seq(Digits) /\ ds # <<>> /\ Number(ds) = IF size > lim + 2 THEN lim + 2 ELSE size
  <2> HIDE DEF size
  <2> QED BY <1>1, DecimalRead DEF Capped
<1>3. /\ \A i \in 1..Len(ds) : ds[i] \in Digits
      /\ 1 \in 1..Len(ds) /\ ds[1] \in Digits
  <2> HIDE DEF ds
  <2>1. 1 \in 1..Len(ds)
    BY <1>2, EmptySeq, LenProperties
  <2> QED BY <1>2, <2>1, ElementOfSeq
<1> DEFINE k == IF size > lim + 2 THEN lim + 2 ELSE size
<1>4. CASE n < 0
  <2>1. raw = <<Minus>> \o ds /\ size = -n
    BY <1>4 DEF Integer
  <2> HIDE DEF raw, ds, size, lim
  <2>2. At(raw, 1) = Minus /\ Tail(raw) = ds
    <3>1. Len(ds) \in Nat /\ \A i \in 1..Len(ds) : ds[i] \in Digits
      BY <1>2, <1>3, LenProperties
    <3>2. Len(raw) = Len(ds) + 1 /\ raw[1] = Minus
      BY <1>2, <2>1
    <3>3. Tail(raw) = ds
      BY <1>2, <2>1
    <3> QED BY <3>1, <3>2, <3>3 DEF At
  <2>3. ReadInt(raw) = IF -k \in (-lim - 1)..lim THEN -k ELSE Absent
    BY <1>2, <1>3, <2>2 DEF ReadInt, lim
  <2>4. (IF -k \in (-lim - 1)..lim THEN -k ELSE Absent) = (IF n \in (-lim - 1)..lim THEN n ELSE Absent)
    BY <1>1, <1>4, <2>1
  <2> QED BY <2>3, <2>4 DEF raw, lim
<1>5. CASE ~(n < 0)
  <2>1. raw = ds /\ size = n
    BY <1>5 DEF Integer
  <2> HIDE DEF raw, ds, size, lim
  <2>2. At(raw, 1) \notin {Minus, Plus}
    <3>1. At(raw, 1) \in Digits
      BY <1>3, <2>1 DEF At
    <3> QED BY <3>1 DEF Digits, Minus, Plus
  <2>3. ReadInt(raw) = IF k \in (-lim - 1)..lim THEN k ELSE Absent
    BY <1>2, <1>3, <2>1, <2>2 DEF ReadInt, lim
  <2>4. (IF k \in (-lim - 1)..lim THEN k ELSE Absent) = (IF n \in (-lim - 1)..lim THEN n ELSE Absent)
    BY <1>1, <1>5, <2>1
  <2> QED BY <2>3, <2>4 DEF raw, lim
<1> QED
  BY <1>4, <1>5

\* The same of a field.
LEMMA IntFieldRead ==
  ASSUME NEW n \in Int, NEW fields, NEW name, Has(fields, name), fields[name] = Integer(n)
  PROVE  TryGetIntField(fields, name) = IF n \in (-IntMax - 1)..IntMax THEN n ELSE Absent
<1> DEFINE raw == Integer(n)
<1>1. Trim(fields[name]) = raw
  BY IntegerValue, TrimValue
<1> HIDE DEF raw
<1>2. TryGetIntField(fields, name) = ReadInt(raw)
  BY <1>1 DEF TryGetIntField, ReadInt
<1> QED
  BY <1>2, IntegerRead DEF raw

-----------------------------------------------------------------------------
(* Calls of windbg.eval *)

\* The words that a call is put together of.
LEMMA CallWords ==
  /\ "jsonrpc" \in DOMAIN W /\ "2.0" \in DOMAIN W /\ "id" \in DOMAIN W /\ "method" \in DOMAIN W
  /\ "params" \in DOMAIN W /\ "name" \in DOMAIN W /\ "arguments" \in DOMAIN W
  /\ "command" \in DOMAIN W /\ "max_lines" \in DOMAIN W /\ "pattern" \in DOMAIN W
  /\ "windbg.eval" \in DOMAIN W /\ "tools/call" \in DOMAIN W /\ "other" \in DOMAIN W
<1>1. /\ "method" \in DOMAIN W /\ "params" \in DOMAIN W /\ "arguments" \in DOMAIN W
      /\ "command" \in DOMAIN W /\ "max_lines" \in DOMAIN W /\ "pattern" \in DOMAIN W
      /\ "tools/call" \in DOMAIN W
  BY Zenon, KnownWords
<1> QED
  BY Zenon, <1>1, AnswerWords, LogWords

\* A text that is an object with these four fields and no others.
HasFour(t, a, x, b, y, c, z, d, v) ==
  /\ t \in Values /\ ParseObjectFields(t) # NoObject
  /\ DOMAIN ParseObjectFields(t) = {W[a], W[b], W[c], W[d]}
  /\ ParseObjectFields(t)[W[a]] = x /\ ParseObjectFields(t)[W[b]] = y
  /\ ParseObjectFields(t)[W[c]] = z /\ ParseObjectFields(t)[W[d]] = v

\* An object that is written with four fields is read back with these fields.
LEMMA ObjectOfFour ==
  ASSUME NEW a \in DOMAIN W, NEW x \in Values, NEW b \in DOMAIN W, NEW y \in Values,
         NEW c \in DOMAIN W, NEW z \in Values, NEW d \in DOMAIN W, NEW v \in Values,
         a # b, a # c, a # d, b # c, b # d, c # d
  PROVE  HasFour(Object(<<Field(a, x), Field(b, y), Field(c, z), Field(d, v)>>), a, x, b, y, c, z, d, v)
<1> DEFINE m == WordMember(a, x)
           n == WordMember(b, y)
           o == WordMember(c, z)
           r == WordMember(d, v)
           ms == <<m, n, o, r>>
           t == Object(<<Field(a, x), Field(b, y), Field(c, z), Field(d, v)>>)
           f == ParseObjectFields(t)
<1>1. /\ m \in Members /\ MemberName(m) = W[a] /\ m.raw = x /\ MemberText(m) = Field(a, x)
      /\ n \in Members /\ MemberName(n) = W[b] /\ n.raw = y /\ MemberText(n) = Field(b, y)
      /\ o \in Members /\ MemberName(o) = W[c] /\ o.raw = z /\ MemberText(o) = Field(c, z)
      /\ r \in Members /\ MemberName(r) = W[d] /\ r.raw = v /\ MemberText(r) = Field(d, v)
  BY WordMembers
<1>2. /\ W[a] # W[b] /\ W[a] # W[c] /\ W[a] # W[d]
      /\ W[b] # W[c] /\ W[b] # W[d] /\ W[c] # W[d]
  BY WordsDiffer
<1> HIDE DEF m, n, o, r
<1>3. ms \in Seq(Members) /\ Len(ms) = 4 /\ ms[1] = m /\ ms[2] = n /\ ms[3] = o /\ ms[4] = r
  BY <1>1
<1>4. MemberTexts(ms) = <<Field(a, x), Field(b, y), Field(c, z), Field(d, v)>>
  BY <1>1, <1>3 DEF MemberTexts
<1> HIDE DEF ms
<1>5. t \in Values
  BY <1>3, <1>4, ObjectIsValue
<1>6. ReadsBack(f, ms, 1) /\ f # NoObject
  BY <1>3, <1>4, ObjectsReadBack
<1> HIDE DEF f
<1>7. /\ \A j \in 1..Len(ms) : j = 1 \/ j = 2 \/ j = 3 \/ j = 4
      /\ 1 \in 1..Len(ms) /\ 2 \in 1..Len(ms) /\ 3 \in 1..Len(ms) /\ 4 \in 1..Len(ms)
      /\ \A k \in (1 + 1)..Len(ms) : k = 2 \/ k = 3 \/ k = 4
      /\ \A k \in (2 + 1)..Len(ms) : k = 3 \/ k = 4
      /\ \A k \in (3 + 1)..Len(ms) : k = 4
      /\ \A k \in (4 + 1)..Len(ms) : FALSE
  BY <1>3
<1>8. DOMAIN f = {W[a], W[b], W[c], W[d]}
  <2>1. \A w : w \in DOMAIN f <=> w = W[a] \/ w = W[b] \/ w = W[c] \/ w = W[d]
    BY <1>1, <1>3, <1>6, <1>7 DEF ReadsBack
  <2> QED BY <2>1
<1>9. f[W[a]] = x /\ f[W[b]] = y /\ f[W[c]] = z /\ f[W[d]] = v
  <2>1. f[W[a]] = x
    BY <1>1, <1>2, <1>3, <1>6, <1>7 DEF ReadsBack
  <2>2. f[W[b]] = y
    BY <1>1, <1>2, <1>3, <1>6, <1>7 DEF ReadsBack
  <2>3. f[W[c]] = z
    BY <1>1, <1>2, <1>3, <1>6, <1>7 DEF ReadsBack
  <2>4. f[W[d]] = v
    BY <1>1, <1>2, <1>3, <1>6, <1>7 DEF ReadsBack
  <2> QED BY <2>1, <2>2, <2>3, <2>4
<1> QED
  BY <1>5, <1>6, <1>8, <1>9 DEF f, HasFour

\* A field that is a string is read as the text its symbols spell.
LEMMA StringFieldRead ==
  ASSUME NEW fields, NEW name, Has(fields, name), NEW s, NEW r, Spelled(s, r), fields[name] = Quoted(s)
  PROVE  TryGetStringField(fields, name) = r
<1> DEFINE p == ParseJsonString(Quoted(s), 1)
<1>1. p.pos = Len(s) + 3 /\ p.out = r /\ AtEnd(Quoted(s), p.pos) /\ s \in Seq(Nat)
  BY SpelledRead
<1>2. p.pos # 0
  BY <1>1, LenProperties
<1>3. TryGetStringField(fields, name) =
        IF p.pos # 0 /\ AtEnd(Quoted(s), p.pos) THEN p.out ELSE Absent
  BY DEF TryGetStringField
<1> HIDE DEF p
<1> QED
  BY <1>1, <1>2, <1>3

\* A word spells itself.
LEMMA WordSpelled ==
  ASSUME NEW w \in DOMAIN W
  PROVE  Spelled(W[w], W[w])
BY WordIsUnit DEF Spelled

\* What a client serialises as a call of windbg.eval is read as that call: a
\* request with id 1, for the command it spells and the limit of lines it means.
LEMMA CallRead ==
  ASSUME NEW s, NEW r, Spelled(s, r), r # <<>>, NEW n \in Int
  PROVE  LET f == ParseObjectFields(CallOf(s, n)) IN
           /\ f # NoObject /\ TryGetStringField(f, W["jsonrpc"]) = W["2.0"]
           /\ TryGetStringField(f, W["method"]) = W["tools/call"]
           /\ TryGetRawField(f, W["id"]) = Decimal(1)
           /\ ToolCall(f) = [command |-> r, pattern |-> <<>>,
                             max_lines |-> IF n \in (-IntMax - 1)..IntMax THEN n ELSE DefaultMaxLines]
<1> DEFINE command == Quoted(s)
           lines == Integer(n)
           inner == Object(<<Field("command", command), Field("max_lines", lines)>>)
           name == Quoted(W["windbg.eval"])
           params == Object(<<Field("name", name), Field("arguments", inner)>>)
           version == Quoted(W["2.0"])
           id == Decimal(1)
           method == Quoted(W["tools/call"])
           f == ParseObjectFields(CallOf(s, n))
           g == ParseObjectFields(params)
           h == ParseObjectFields(inner)
<1>1. /\ command \in Values /\ lines \in Values /\ name \in Values /\ version \in Values
      /\ id \in Values /\ method \in Values
  <2>1. command \in Values
    BY SpelledRead
  <2>2. lines \in Values
    BY IntegerValue
  <2>3. name \in Values /\ version \in Values /\ method \in Values
    BY CallWords, WordIsValue
  <2>4. Integer(1) = Decimal(1)
    BY DEF Integer
  <2>5. id \in Values
    BY <2>4, IntegerValue
  <2> QED BY <2>1, <2>2, <2>3, <2>5
<1>2. Spelled(s, r) /\ command = Quoted(s) /\ name = Quoted(W["windbg.eval"])
      /\ version = Quoted(W["2.0"]) /\ method = Quoted(W["tools/call"]) /\ id = Decimal(1)
      /\ lines = Integer(n)
  OBVIOUS
<1>3. CallOf(s, n) = Object(<<Field("jsonrpc", version), Field("id", id), Field("method", method),
                              Field("params", params)>>)
  BY DEF CallOf, Version
<1> HIDE DEF command, lines, name, version, id, method
<1>4. HasTwo(inner, "command", command, "max_lines", lines)
  BY <1>1, CallWords, ObjectOfTwo
<1>5. inner \in Values
  BY <1>4 DEF HasTwo
<1> HIDE DEF inner
<1>6. HasTwo(params, "name", name, "arguments", inner)
  BY <1>1, <1>5, CallWords, ObjectOfTwo
<1>7. params \in Values
  BY <1>6 DEF HasTwo
<1> HIDE DEF params
<1>8. HasFour(CallOf(s, n), "jsonrpc", version, "id", id, "method", method, "params", params)
  <2>1. HasFour(Object(<<Field("jsonrpc", version), Field("id", id), Field("method", method),
                         Field("params", params)>>),
                "jsonrpc", version, "id", id, "method", method, "params", params)
    BY <1>1, <1>7, CallWords, ObjectOfFour
  <2> QED BY <1>3, <2>1
<1>9. /\ f # NoObject /\ Has(f, W["jsonrpc"]) /\ Has(f, W["id"]) /\ Has(f, W["method"]) /\ Has(f, W["params"])
      /\ f[W["jsonrpc"]] = version /\ f[W["id"]] = id /\ f[W["method"]] = method
      /\ f[W["params"]] = params
  BY <1>8 DEF HasFour, Has
<1>10. /\ g # NoObject /\ Has(g, W["name"]) /\ Has(g, W["arguments"])
       /\ g[W["name"]] = name /\ g[W["arguments"]] = inner
  BY <1>6 DEF HasTwo, Has
<1>11. /\ h # NoObject /\ Has(h, W["command"]) /\ Has(h, W["max_lines"]) /\ ~Has(h, W["pattern"])
       /\ h[W["command"]] = command /\ h[W["max_lines"]] = lines
  <2>1. /\ h # NoObject /\ DOMAIN h = {W["command"], W["max_lines"]}
        /\ h[W["command"]] = command /\ h[W["max_lines"]] = lines
    BY <1>4 DEF HasTwo
  <2>2. W["pattern"] # W["command"] /\ W["pattern"] # W["max_lines"]
    BY CallWords, WordsDiffer
  <2> HIDE DEF h
  <2> QED BY <2>1, <2>2 DEF Has
<1> HIDE DEF f, g, h
<1>12. TryGetStringField(f, W["jsonrpc"]) = W["2.0"] /\ TryGetStringField(f, W["method"]) = W["tools/call"]
  BY <1>2, <1>9, CallWords, WordSpelled, StringFieldRead
<1>13. TryGetRawField(f, W["id"]) = Decimal(1)
  BY <1>1, <1>2, <1>9, TrimValue DEF TryGetRawField
<1>14. TryGetObjectField(f, W["params"]) = g /\ TryGetObjectField(g, W["arguments"]) = h
  BY <1>9, <1>10 DEF TryGetObjectField, g, h
<1>15. TryGetStringField(g, W["name"]) = W["windbg.eval"]
  BY <1>2, <1>10, CallWords, WordSpelled, StringFieldRead
<1>16. TryGetStringField(h, W["command"]) = r
  BY <1>2, <1>11, StringFieldRead
<1>17. TryGetStringField(h, W["pattern"]) = Absent
  BY <1>11 DEF TryGetStringField, NoString
<1>18. TryGetIntField(h, W["max_lines"]) = IF n \in (-IntMax - 1)..IntMax THEN n ELSE Absent
  BY <1>2, <1>11, IntFieldRead
<1>19. r # Absent /\ n # Absent
  BY SpelledRead, AbsentAssumption
<1>20. CallWith(h) = [command |-> r, pattern |-> <<>>,
                      max_lines |-> IF n \in (-IntMax - 1)..IntMax THEN n ELSE DefaultMaxLines]
  BY <1>11, <1>16, <1>17, <1>18, <1>19 DEF CallWith, IfAbsent
<1>21. ToolCall(f) = CallWith(h)
  BY <1>10, <1>14, <1>15 DEF ToolCall, CallFrom
<1> QED
  BY <1>9, <1>12, <1>13, <1>20, <1>21 DEF f

\* Whatever text is escaped spells itself.
LEMMA EscapeSpelled ==
  ASSUME NEW s \in Seq(Nat)
  PROVE  Spelled(Escape(s), s)
<1> DEFINE us == [i \in 1..Len(s) |-> EscapeSymbol(s[i])]
<1>1. us \in Seq(Units) /\ Texts(us) = Singles(s)
  BY EscapeUnits
<1>2. Escape(s) = FlattenSeq(us)
  BY DEF Escape
<1> HIDE DEF us
<1>3. FlattenSeq(Texts(us)) = s
  BY <1>1, FlattenSingles
<1> QED
  BY <1>1, <1>2, <1>3 DEF Spelled

\* Within the brackets of an array of one value is that value.
LEMMA InsideOfOne ==
  ASSUME NEW v \in Values
  PROVE  Inside(Array(<<v>>)) = v
<1>1. v \in Seq(Nat) /\ Len(v) \in Nat
  BY LenProperties DEF Values
<1>2. Joined(<<v>>) = v
  <2> DEFINE pieces == [i \in 1..Len(<<v>>) |-> IF i = 1 THEN <<v>>[i] ELSE <<Comma>> \o <<v>>[i]]
  <2>1. pieces = <<v>>
    OBVIOUS
  <2>2. FlattenSeq(<<v>>) = v
    BY <1>1, FlattenOne
  <2>3. Joined(<<v>>) = FlattenSeq(pieces)
    BY DEF Joined
  <2> QED BY <2>1, <2>2, <2>3
<1>3. Array(<<v>>) = (<<LBracket>> \o v) \o <<RBracket>>
  BY <1>2 DEF Array
<1> DEFINE a == (<<LBracket>> \o v) \o <<RBracket>>
           inside == SubSeq(a, 2, Len(a) - 1)
<1>4. a \in Seq(Nat) /\ Len(a) = Len(v) + 2 /\ \A i \in 1..Len(v) : a[i + 1] = v[i]
  BY <1>1 DEF LBracket, RBracket
<1> HIDE DEF a
<1>5. inside \in Seq(Nat) /\ Len(inside) = Len(v) /\ \A i \in 1..Len(v) : inside[i] = a[i + 1]
  BY <1>1, <1>4
<1> HIDE DEF inside
<1>6. inside = v
  <2>1. \A i \in 1..Len(v) : inside[i] = v[i]
    BY <1>4, <1>5
  <2> QED BY <1>1, <1>5, <2>1, SeqEqual
<1> QED
  BY <1>3, <1>6 DEF Inside, inside, a

\* What a command printed is the content of its result.
LEMMA ContentRead ==
  ASSUME NEW e, e.text \in Seq(Nat), e.text # <<>>, e.success \in BOOLEAN
  PROVE  ContentIn(ParseObjectFields(ToolResult(e))) = e.text
<1> DEFINE text == Quoted(Escape(e.text))
           type == Quoted(W["text"])
           item == Object(<<Field("type", type), Field("text", text)>>)
           failed == W[IF e.success THEN "false" ELSE "true"]
           f == ParseObjectFields(ToolResult(e))
           g == ParseObjectFields(item)
<1>1. /\ "content" \in DOMAIN W /\ "type" \in DOMAIN W /\ "text" \in DOMAIN W
      /\ "isError" \in DOMAIN W /\ "true" \in DOMAIN W /\ "false" \in DOMAIN W
  BY AnswerWords
<1>2. text \in Values /\ type \in Values /\ failed \in Values
  BY <1>1, EscapedIsValue, WordIsValue
<1>3. Payload(e) = e.text
  BY DEF Payload
<1>4. ToolResult(e) = Object(<<Field("content", Array(<<item>>)), Field("isError", failed)>>)
  BY <1>3 DEF ToolResult
<1>5. text = Quoted(Escape(e.text))
  OBVIOUS
<1> HIDE DEF text, type, failed
<1>6. HasTwo(item, "type", type, "text", text)
  BY <1>1, <1>2, ObjectOfTwo
<1>7. item \in Values
  BY <1>6 DEF HasTwo
<1> HIDE DEF item
<1>8. Array(<<item>>) \in Values /\ Inside(Array(<<item>>)) = item
  BY <1>7, ArrayOfOne, InsideOfOne
<1>9. HasTwo(ToolResult(e), "content", Array(<<item>>), "isError", failed)
  <2>1. HasTwo(Object(<<Field("content", Array(<<item>>)), Field("isError", failed)>>),
               "content", Array(<<item>>), "isError", failed)
    BY <1>1, <1>2, <1>8, ObjectOfTwo
  <2> QED BY <1>4, <2>1
<1>10. f[W["content"]] = Array(<<item>>)
  BY <1>9 DEF HasTwo
<1>11. Has(g, W["text"]) /\ g[W["text"]] = text
  BY <1>6 DEF HasTwo, Has
<1> HIDE DEF f, g
<1>12. TryGetStringField(g, W["text"]) = e.text
  BY <1>5, <1>11, EscapeSpelled, StringFieldRead
<1>13. ContentIn(f) = TryGetStringField(g, W["text"])
  BY <1>8, <1>10 DEF ContentIn, g
<1> QED
  BY <1>12, <1>13 DEF f

\* What a command printed is what the client reads in the answer.
LEMMA OutputRead ==
  ASSUME NEW e, e.text \in Seq(Nat), e.text # <<>>, e.success \in BOOLEAN
  PROVE  ContentText(HandleJsonRpcPost(CallOf(W["other"], 1), e).body) = e.text
<1> DEFINE t == CallOf(W["other"], 1)
           f == ParseObjectFields(t)
           method == TryGetStringField(f, W["method"])
           id == Decimal(1)
           result == ToolResult(e)
           success == BuildJsonRpcSuccess(id, result)
           a == ParseObjectFields(success)
<1>1. Spelled(W["other"], W["other"]) /\ W["other"] # <<>> /\ W["other"] \in Seq(Nat)
  BY CallWords, WordSpelled, WordsDiffer
<1>2. /\ f # NoObject /\ TryGetStringField(f, W["jsonrpc"]) = W["2.0"]
      /\ method = W["tools/call"] /\ TryGetRawField(f, W["id"]) = id
      /\ ToolCall(f) = [command |-> W["other"], pattern |-> <<>>,
                        max_lines |-> IF 1 \in (-IntMax - 1)..IntMax THEN 1 ELSE DefaultMaxLines]
  BY <1>1, CallRead
<1>3. ToolCall(f) # Absent
  <2> DEFINE n == IF 1 \in (-IntMax - 1)..IntMax THEN 1 ELSE DefaultMaxLines
             call == [command |-> W["other"], max_lines |-> n, pattern |-> <<>>]
  <2>1. n \in Int
    BY DEF DefaultMaxLines
  <2> HIDE DEF n
  <2>2. call \in [command : Seq(Nat), max_lines : Int, pattern : Seq(Nat)]
    BY <1>1, <2>1
  <2>3. ToolCall(f) = call
    BY <1>2 DEF n
  <2> QED BY <2>2, <2>3, MessageAssumption
<1>4. method # Absent /\ id # Absent /\ id \in Values
  <2>1. W["tools/call"] \in Seq(Nat)
    BY CallWords, WordsDiffer
  <2>2. Integer(1) = id
    BY DEF Integer
  <2>3. id \in Values
    BY <2>2, IntegerValue
  <2> QED BY <1>2, <2>1, <2>3, AbsentAssumption DEF Values
<1>5. method \notin FixedMethods
  <2>1. /\ "initialize" \in DOMAIN W /\ "notifications/initialized" \in DOMAIN W
        /\ "initialized" \in DOMAIN W /\ "tools/list" \in DOMAIN W
    BY Zenon, KnownWords
  <2>2. /\ W["tools/call"] # W["initialize"] /\ W["tools/call"] # W["notifications/initialized"]
        /\ W["tools/call"] # W["initialized"] /\ W["tools/call"] # W["tools/list"]
    BY <2>1, CallWords, WordsDiffer
  <2> QED BY <1>2, <2>2 DEF FixedMethods
<1>6. HandleJsonRpcPost(t, e) = Answer(f, e)
  BY DEF HandleJsonRpcPost
<1> HIDE DEF f, t, method, id
<1>7. Outcome(method, f, e) = [ok |-> TRUE, result |-> result]
  BY <1>2, <1>3, <1>5 DEF Outcome
<1>8. Answer(f, e) = Report(id, Outcome(method, f, e))
  BY <1>2, <1>4 DEF Answer, AnswerMethod, method
<1>9. Report(id, Outcome(method, f, e)) = Reply(200, success)
  BY <1>4, <1>7 DEF Report
<1>10. HandleJsonRpcPost(t, e).body = success
  BY <1>6, <1>8, <1>9 DEF Reply
<1>11. result \in Values
  BY ToolResultFields
<1> HIDE DEF result
<1>12. Has(a, W["result"]) /\ a[W["result"]] = result
  BY <1>4, <1>11, SuccessFields
<1> HIDE DEF a
<1>13. TryGetObjectField(a, W["result"]) = ParseObjectFields(result)
  BY <1>12 DEF TryGetObjectField
<1>14. ContentIn(ParseObjectFields(result)) = e.text
  BY ContentRead DEF result
<1> QED
  BY <1>10, <1>13, <1>14 DEF ContentText, a, t

-----------------------------------------------------------------------------
(* Texts unchanged *)

\* What is written, and what may be written next, are whole characters.
BodyWhole == IsUtf8(body) /\ \A chunk \in chunks : IsUtf8(chunk)

\* A client never writes part of a character, so that whatever it has written
\* can be taken apart into characters.
LEMMA BodyIsWhole == Spec => [](BodyTyped /\ BodyWhole)
<1>1. Init => BodyWhole
  BY StartsAssumption DEF Init, BodyWhole
<1>2. BodyTyped /\ BodyWhole /\ [Next]_vars => BodyWhole'
  <2> SUFFICES ASSUME BodyTyped, BodyWhole, [Next]_vars PROVE BodyWhole'
    OBVIOUS
  <2>1. CASE UNCHANGED vars
    <3>1. body' = body /\ chunks' = chunks
      BY <2>1 DEF vars
    <3> QED BY <3>1 DEF BodyWhole, IsUtf8
  <2>2. ASSUME NEW chunk \in chunks, Write(chunk) PROVE BodyWhole'
    <3>1. body' = body \o chunk /\ chunks' = chunks
      BY <2>2 DEF Write
    <3>2. body \in Seq(Nat) /\ IsUtf8(body) /\ chunk \in Seq(Nat) /\ IsUtf8(chunk)
      BY DEF BodyTyped, BodyWhole
    <3>3. IsUtf8(body \o chunk)
      BY <3>2, Utf8Concat
    <3>4. \A c \in chunks : IsUtf8(c)
      BY DEF BodyWhole
    <3> QED BY <3>1, <3>3, <3>4 DEF BodyWhole, IsUtf8
  <2> QED BY <2>1, <2>2 DEF Next
<1> QED
  BY <1>1, <1>2, BodyIsTyped, PTL DEF Spec

\* A command that is serialised either way is read as it was meant.
LEMMA CallMeant ==
  ASSUME body \in Seq(Nat), body # <<>>, IsUtf8(body), NEW asciiOnly \in BOOLEAN, NEW lines \in Int
  PROVE  AsMeant(ToolCall(ParseObjectFields(CallOf(Escaped(body, asciiOnly), lines))), lines)
<1> DEFINE max == IF lines \in (-IntMax - 1)..IntMax THEN lines ELSE DefaultMaxLines
           s == Escaped(body, asciiOnly)
           call == ToolCall(ParseObjectFields(CallOf(s, lines)))
<1>1. Spelled(s, body)
  BY EscapedSpelled
<1> HIDE DEF s
<1>2. call = [command |-> body, pattern |-> <<>>, max_lines |-> max]
  BY <1>1, CallRead
<1>3. max \in Int
  BY DEF DefaultMaxLines
<1> HIDE DEF call
<1>4. call # Absent
  <2> HIDE DEF max
  <2>1. [command |-> body, max_lines |-> max, pattern |-> <<>>]
          \in [command : Seq(Nat), max_lines : Int, pattern : Seq(Nat)]
    BY <1>3
  <2> QED BY <1>2, <2>1, MessageAssumption
<1> QED
  BY <1>2, <1>4 DEF AsMeant, call, s

\* The command the debugger is given is the one the client meant, whichever way
\* it serialised it, with its limit of lines; and what the command printed is
\* what the client reads in the answer, whatever it is.
THEOREM TextIsUnchanged == Spec => []TextUnchanged
<1>1. BodyTyped /\ BodyWhole => TextUnchanged
  <2> SUFFICES ASSUME BodyTyped, BodyWhole, Len(body) \in 1..MaxCommand PROVE TextUnchanged
    BY DEF TextUnchanged
  <2>1. body \in Seq(Nat) /\ body # <<>> /\ IsUtf8(body)
    BY DEF BodyTyped, BodyWhole
  <2>2. ASSUME NEW asciiOnly \in BOOLEAN,
               NEW lines \in IF asciiOnly THEN {-IntMax - 1, IntMax + 1} ELSE {-IntMax - 2, IntMax}
        PROVE  AsMeant(ToolCall(ParseObjectFields(CallOf(Escaped(body, asciiOnly), lines))), lines)
    <3>1. lines \in Int
      BY IntAssumption
    <3> QED BY <2>1, <3>1, CallMeant
  <2>3. ASSUME NEW success \in BOOLEAN
        PROVE  ContentText(HandleJsonRpcPost(CallOf(W["other"], 1),
                                             [success |-> success, text |-> body]).body) = body
    <3> DEFINE e == [success |-> success, text |-> body]
    <3>1. e.text = body /\ e.success = success
      OBVIOUS
    <3> HIDE DEF e
    <3>2. ContentText(HandleJsonRpcPost(CallOf(W["other"], 1), e).body) = e.text
      BY <2>1, <3>1, OutputRead
    <3> QED BY <3>1, <3>2 DEF e
  <2> QED BY <2>2, <2>3 DEF TextUnchanged
<1> QED
  BY <1>1, BodyIsWhole, PTL
==============================================================================
