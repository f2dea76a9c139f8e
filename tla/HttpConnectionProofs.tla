------------------------- MODULE HttpConnectionProofs -------------------------
(***************************************************************************)
(* One connection, for any request cut into any pieces, any limits, any    *)
(* response and any sends: what ReceiveRequest makes of the request, and   *)
(* what the client makes of the answer.                                    *)
(***************************************************************************)
EXTENDS HttpConnection, SequenceLemmas

-----------------------------------------------------------------------------
(* FindHeaderEnd *)

Separator == <<CR, LF, CR, LF>>

EndsAt(raw, i) ==
  /\ i \in 0..(Len(raw) - 4)
  /\ SubSeq(raw, i + 1, i + 4) = Separator

\* It finds the first \r\n\r\n there is, or none if there is none.
FirstEnd(raw, end) ==
  \/ end = npos /\ \A i \in Int : ~EndsAt(raw, i)
  \/ EndsAt(raw, end) /\ \A i \in Int : EndsAt(raw, i) => end <= i

LEMMA FindsFirstEnd ==
  ASSUME NEW S, NEW raw \in Seq(S)
  PROVE  FirstEnd(raw, FindHeaderEnd(raw))
<1> DEFINE ends == {i \in 0..(Len(raw) - 4) : SubSeq(raw, i + 1, i + 4) = <<CR, LF, CR, LF>>}
           Least(i) == i \in ends /\ \A j \in ends : i <= j
<1>1. Len(raw) \in Nat
  BY LenProperties
<1>2. \A i : i \in ends <=> EndsAt(raw, i)
  BY DEF EndsAt, Separator
<1>3. ends \in SUBSET Nat
  BY <1>1
<1>4. FindHeaderEnd(raw) = IF ends = {} THEN npos ELSE CHOOSE i \in ends : \A j \in ends : i <= j
  BY DEF FindHeaderEnd
<1> HIDE DEF ends
<1>5. CASE ends = {}
  BY <1>2, <1>4, <1>5 DEF FirstEnd
<1>6. CASE ends # {}
  <2>1. \E i \in ends : \A j \in ends : i <= j
    BY <1>3, <1>6, LeastExists
  <2>2. Least(FindHeaderEnd(raw))
    BY <1>4, <1>6, <2>1
  <2> QED BY <1>2, <2>2 DEF FirstEnd
<1> QED
  BY <1>5, <1>6

\* A part of the text has the ends that lie within it.
LEMMA EndsOfPrefix ==
  ASSUME NEW S, NEW raw \in Seq(S), NEW n \in 0..Len(raw), NEW i \in Int
  PROVE  EndsAt(SubSeq(raw, 1, n), i) <=> i <= n - 4 /\ EndsAt(raw, i)
<1> DEFINE part == SubSeq(raw, 1, n)
<1>1. Len(raw) \in Nat /\ n \in Nat /\ n <= Len(raw)
  BY LenProperties
<1>2. \A j \in 1..Len(raw) : raw[j] \in S
  BY ElementOfSeq
<1>3. part \in Seq(S) /\ Len(part) = n
  <2>1. \A j \in 1..n : raw[j] \in S
    BY <1>1, <1>2
  <2> QED BY <1>1, <2>1, SubSeqProperties
<1> HIDE DEF part
<1>4. ASSUME i \in 0..(n - 4)
      PROVE  SubSeq(part, i + 1, i + 4) = SubSeq(raw, i + 1, i + 4)
  <2>1. /\ 1 \in 1..Len(raw) /\ n \in 1..Len(raw)
        /\ i + 1 \in 1..(n - 1 + 1) /\ i + 4 \in 1..(n - 1 + 1)
    BY <1>1, <1>4
  <2>2. SubSeq(SubSeq(raw, 1, n), i + 1, i + 4) = SubSeq(raw, 1 + (i + 1) - 1, 1 + (i + 4) - 1)
    BY <2>1, <1>3, SubSeqOfSubSeq DEF part
  <2>3. 1 + (i + 1) - 1 = i + 1 /\ 1 + (i + 4) - 1 = i + 4
    OBVIOUS
  <2> QED BY <2>2, <2>3 DEF part
<1>5. EndsAt(part, i) <=> i \in 0..(n - 4) /\ SubSeq(part, i + 1, i + 4) = Separator
  BY <1>3 DEF EndsAt
<1>6. EndsAt(raw, i) <=> i \in 0..(Len(raw) - 4) /\ SubSeq(raw, i + 1, i + 4) = Separator
  BY DEF EndsAt
<1>7. i \in 0..(n - 4) <=> i <= n - 4 /\ i \in 0..(Len(raw) - 4)
  BY <1>1
<1> QED
  BY <1>4, <1>5, <1>6, <1>7 DEF part

\* Once the end of the header has been found, more bytes do not move it.
LEMMA EndStays ==
  ASSUME NEW S, NEW raw \in Seq(S), NEW n \in 0..Len(raw), NEW m \in 0..n,
         FindHeaderEnd(SubSeq(raw, 1, m)) # npos
  PROVE  FindHeaderEnd(SubSeq(raw, 1, n)) = FindHeaderEnd(SubSeq(raw, 1, m))
<1> DEFINE e == FindHeaderEnd(SubSeq(raw, 1, m))
           f == FindHeaderEnd(SubSeq(raw, 1, n))
<1>1. Len(raw) \in Nat /\ m \in 0..Len(raw) /\ n \in Nat /\ m \in Nat /\ m <= n
  BY LenProperties
<1>2. SubSeq(raw, 1, m) \in Seq(S) /\ SubSeq(raw, 1, n) \in Seq(S)
  <2>1. \A j \in 1..Len(raw) : raw[j] \in S
    BY ElementOfSeq
  <2>2. \A j \in 1..m : raw[j] \in S
    BY <1>1, <2>1
  <2>3. \A j \in 1..n : raw[j] \in S
    BY <1>1, <2>1
  <2> QED BY <1>1, <2>2, <2>3, SubSeqProperties
<1>3. FirstEnd(SubSeq(raw, 1, m), e) /\ FirstEnd(SubSeq(raw, 1, n), f)
  BY <1>2, FindsFirstEnd
<1>4. \A i \in Int : EndsAt(SubSeq(raw, 1, m), i) <=> i <= m - 4 /\ EndsAt(raw, i)
  BY <1>1, EndsOfPrefix
<1>5. \A i \in Int : EndsAt(SubSeq(raw, 1, n), i) <=> i <= n - 4 /\ EndsAt(raw, i)
  BY <1>1, EndsOfPrefix
<1>6. e # npos
  OBVIOUS
<1> HIDE DEF e, f
<1>7. e \in Int /\ EndsAt(SubSeq(raw, 1, m), e)
  BY <1>3, <1>6 DEF FirstEnd, EndsAt
<1>8. EndsAt(SubSeq(raw, 1, n), e)
  BY <1>1, <1>4, <1>5, <1>7
<1>9. f \in Int /\ EndsAt(SubSeq(raw, 1, n), f) /\ f <= e
  <2>1. EndsAt(SubSeq(raw, 1, n), f) /\ \A i \in Int : EndsAt(SubSeq(raw, 1, n), i) => f <= i
    BY <1>3, <1>7, <1>8 DEF FirstEnd
  <2>2. f \in Int
    BY <2>1 DEF EndsAt
  <2> QED BY <1>7, <1>8, <2>1, <2>2
<1>10. EndsAt(SubSeq(raw, 1, m), f)
  BY <1>1, <1>4, <1>5, <1>7, <1>9
<1>11. e <= f
  BY <1>3, <1>6, <1>9, <1>10 DEF FirstEnd
<1> QED
  BY <1>7, <1>9, <1>11 DEF e, f

-----------------------------------------------------------------------------
(* ParseContentLength *)

Values == {Bad} \cup 0..MaxBodyBytes
Digits == 0..10

LEMMA DigitTaken ==
  ASSUME NEW acc \in Values, NEW ch \in Digits
  PROVE  /\ TakeDigit(acc, ch) \in Values
         /\ TakeDigit(acc, ch) # Bad =>
              acc # Bad /\ ch <= 9 /\ TakeDigit(acc, ch) = acc * 10 + ch
<1>1. MaxBodyBytes \in Nat
  BY ReceiveAssumption
<1>2. CASE acc = Bad
  BY <1>2 DEF TakeDigit, Values
<1>3. CASE acc # Bad
  <2>1. acc \in 0..MaxBodyBytes
    BY <1>3 DEF Values
  <2>2. acc * 10 + ch \in Nat
    BY <1>1, <2>1 DEF Digits
  <2>3. Bad \notin Nat
    BY DEF Bad
  <2>4. CASE ch > 9 \/ acc > MaxBodyBytes \div 10 \/ acc * 10 + ch > MaxBodyBytes
    BY <2>4 DEF TakeDigit, Values
  <2>5. CASE ~(ch > 9 \/ acc > MaxBodyBytes \div 10 \/ acc * 10 + ch > MaxBodyBytes)
    <3>1. TakeDigit(acc, ch) = acc * 10 + ch
      BY <1>3, <2>5 DEF TakeDigit
    <3>2. ch <= 9 /\ acc * 10 + ch <= MaxBodyBytes
      BY <1>1, <2>2, <2>5 DEF Digits
    <3> QED BY <1>1, <1>3, <2>2, <3>1, <3>2 DEF Values
  <2> QED BY <2>4, <2>5
<1> QED
  BY <1>2, <1>3

\* The value of the accumulator, and of the number so far, after each digit.
Accumulates(acc, value) ==
  /\ acc \in [0..Len(value) -> Values] /\ acc[0] = 0
  /\ \A i \in 1..Len(value) : acc[i] = TakeDigit(acc[i - 1], value[i])
Counts(v, digits) ==
  /\ v \in [0..Len(digits) -> Int] /\ v[0] = 0
  /\ \A i \in 1..Len(digits) : v[i] = v[i - 1] * 10 + digits[i]

LEMMA ParsesByDigit ==
  ASSUME NEW value \in Seq(Digits)
  PROVE  \E acc : /\ Accumulates(acc, value)
                  /\ ParseContentLength(value) = IF value = <<>> THEN Bad ELSE acc[Len(value)]
<1> DEFINE n == Len(value)
           step == [i \in 1..n |-> [a \in Values |-> TakeDigit(a, value[i])]]
           Def(h) == h = [i \in 0..n |-> IF i = 0 THEN 0 ELSE TakeDigit(h[i - 1], value[i])]
           acc == CHOOSE h : Def(h)
<1>1. n \in Nat /\ \A i \in 1..n : value[i] \in Digits
  BY LenProperties, ElementOfSeq
<1>2. 0 \in Values
  BY ReceiveAssumption DEF Values
<1>3. step \in Steps(n, Values)
  <2>1. ASSUME NEW i \in 1..n, NEW a \in Values PROVE TakeDigit(a, value[i]) \in Values
    BY <1>1, DigitTaken
  <2> QED BY <2>1 DEF Steps
<1>4. PICK g : Iterates(g, n, Values, 0, step)
  <2> HIDE DEF n, step
  <2> QED BY <1>1, <1>2, <1>3, RecursionExists
<1>5. g \in [0..n -> Values] /\ g[0] = 0
  BY <1>4 DEF Iterates
<1>6. \A i \in 1..n : g[i] = TakeDigit(g[i - 1], value[i])
  <2> SUFFICES ASSUME NEW i \in 1..n PROVE g[i] = TakeDigit(g[i - 1], value[i])
    OBVIOUS
  <2>1. g[i] = step[i][g[i - 1]]
    BY <1>4 DEF Iterates
  <2>2. i - 1 \in 0..n
    BY <1>1
  <2>3. g[i - 1] \in Values
    BY <1>5, <2>2
  <2> QED BY <2>1, <2>3
<1>7. Def(g)
  BY <1>1, <1>5, <1>6
<1>8. Def(acc)
  <2> HIDE DEF Def
  <2> QED BY <1>7
<1>9. acc = g
  <2> HIDE DEF acc
  <2> DEFINE T == {i \in 0..n : acc[i] = g[i]}
  <2>1. 0 \in T
    BY <1>1, <1>5, <1>8
  <2>2. ASSUME NEW i \in 0..(n - 1), i \in T PROVE i + 1 \in T
    <3>1. i + 1 \in 0..n /\ i + 1 # 0 /\ (i + 1) - 1 = i /\ i + 1 \in 1..n
      BY <1>1
    <3>2. acc[i + 1] = TakeDigit(acc[i], value[i + 1])
      BY <1>8, <3>1
    <3>3. g[i + 1] = TakeDigit(g[i], value[i + 1])
      BY <1>6, <3>1
    <3> QED BY <2>2, <3>1, <3>2, <3>3
  <2>3. \A i \in 0..n : i \in T
    <3> HIDE DEF T, n
    <3> QED BY <1>1, <2>1, <2>2, BoundedInduction
  <2>4. \A i \in 0..n : acc[i] = g[i]
    BY <2>3
  <2> QED BY <1>5, <1>8, <2>4
<1>10. ParseContentLength(value) = IF value = <<>> THEN Bad ELSE acc[Len(value)]
  BY DEF ParseContentLength
<1>11. Accumulates(acc, value)
  <2> HIDE DEF acc
  <2> QED BY <1>5, <1>6, <1>9 DEF Accumulates
<1> HIDE DEF acc
<1> QED
  BY <1>10, <1>11

LEMMA CountsByDigit ==
  ASSUME NEW digits \in Seq(Digits)
  PROVE  \E v : Counts(v, digits) /\ ValueOf(digits) = v[Len(digits)]
<1> DEFINE n == Len(digits)
           step == [i \in 1..n |-> [a \in Int |-> a * 10 + digits[i]]]
           Def(h) == h = [i \in 0..n |-> IF i = 0 THEN 0 ELSE h[i - 1] * 10 + digits[i]]
           v == CHOOSE h : Def(h)
<1>1. n \in Nat /\ \A i \in 1..n : digits[i] \in Int
  BY LenProperties, ElementOfSeq DEF Digits
<1>2. 0 \in Int /\ step \in Steps(n, Int)
  BY <1>1 DEF Steps
<1>3. PICK g : Iterates(g, n, Int, 0, step)
  <2> HIDE DEF n, step
  <2> QED BY <1>1, <1>2, RecursionExists
<1>4. g \in [0..n -> Int] /\ g[0] = 0
  BY <1>3 DEF Iterates
<1>5. \A i \in 1..n : g[i] = g[i - 1] * 10 + digits[i]
  <2> SUFFICES ASSUME NEW i \in 1..n PROVE g[i] = g[i - 1] * 10 + digits[i]
    OBVIOUS
  <2>1. g[i] = step[i][g[i - 1]]
    BY <1>3 DEF Iterates
  <2>2. i - 1 \in 0..n
    BY <1>1
  <2>3. g[i - 1] \in Int
    BY <1>4, <2>2
  <2> QED BY <2>1, <2>3
<1>6. Def(g)
  BY <1>1, <1>4, <1>5
<1>7. Def(v)
  <2> HIDE DEF Def
  <2> QED BY <1>6
<1>8. v = g
  <2> HIDE DEF v
  <2> DEFINE T == {i \in 0..n : v[i] = g[i]}
  <2>1. 0 \in T
    BY <1>1, <1>4, <1>7
  <2>2. ASSUME NEW i \in 0..(n - 1), i \in T PROVE i + 1 \in T
    <3>1. i + 1 \in 0..n /\ i + 1 # 0 /\ (i + 1) - 1 = i /\ i + 1 \in 1..n
      BY <1>1
    <3>2. v[i + 1] = v[i] * 10 + digits[i + 1]
      BY <1>7, <3>1
    <3>3. g[i + 1] = g[i] * 10 + digits[i + 1]
      BY <1>5, <3>1
    <3> QED BY <2>2, <3>1, <3>2, <3>3
  <2>3. \A i \in 0..n : i \in T
    <3> HIDE DEF T, n
    <3> QED BY <1>1, <2>1, <2>2, BoundedInduction
  <2>4. \A i \in 0..n : v[i] = g[i]
    BY <2>3
  <2> QED BY <1>4, <1>7, <2>4
<1>9. ValueOf(digits) = v[Len(digits)]
  BY DEF ValueOf
<1>10. Counts(v, digits)
  <2> HIDE DEF v
  <2> QED BY <1>4, <1>5, <1>8 DEF Counts
<1> HIDE DEF v
<1> QED
  BY <1>9, <1>10

\* ParseContentLength rejects a value, or it is a decimal number within the
\* limit and the result its value: what TakeDigit checks digit by digit is
\* enough, for a value of any length.
LEMMA ParsedIsValue ==
  ASSUME NEW value \in Seq(Digits)
  PROVE  /\ ParseContentLength(value) \in Values
         /\ ParseContentLength(value) # Bad =>
              /\ value # <<>> /\ \A i \in 1..Len(value) : value[i] <= 9
              /\ ParseContentLength(value) = ValueOf(value)
<1> DEFINE n == Len(value)
<1>1. n \in Nat /\ \A i \in 1..n : value[i] \in Digits
  BY LenProperties, ElementOfSeq
<1>2. PICK acc : /\ Accumulates(acc, value)
                 /\ ParseContentLength(value) = IF value = <<>> THEN Bad ELSE acc[n]
  BY ParsesByDigit
<1>3. PICK v : Counts(v, value) /\ ValueOf(value) = v[n]
  BY CountsByDigit
<1> DEFINE Good(i) == acc[i] # Bad => acc[i] = v[i] /\ \A j \in 1..i : value[j] <= 9
           T == {i \in 0..n : Good(i)}
<1>4. 0 \in T
  BY <1>1, <1>2, <1>3 DEF Accumulates, Counts
<1>5. ASSUME NEW i \in 0..(n - 1), i \in T PROVE i + 1 \in T
  <2>1. i + 1 \in 1..n /\ (i + 1) - 1 = i /\ i \in 0..n
    BY <1>1
  <2>2. acc[i] \in Values /\ acc[i + 1] = TakeDigit(acc[i], value[i + 1])
    BY <1>2, <2>1 DEF Accumulates
  <2>3. v[i + 1] = v[i] * 10 + value[i + 1]
    BY <1>3, <2>1 DEF Counts
  <2>4. value[i + 1] \in Digits
    BY <1>1, <2>1
  <2>5. ASSUME acc[i + 1] # Bad
        PROVE  acc[i] # Bad /\ value[i + 1] <= 9 /\ acc[i + 1] = acc[i] * 10 + value[i + 1]
    BY <2>2, <2>4, <2>5, DigitTaken
  <2>6. ASSUME acc[i + 1] # Bad PROVE Good(i + 1)
    <3>1. acc[i] = v[i] /\ \A j \in 1..i : value[j] <= 9
      BY <1>5, <2>5, <2>6
    <3>2. \A j \in 1..(i + 1) : j \in 1..i \/ j = i + 1
      BY <2>1
    <3>3. acc[i + 1] = v[i + 1]
      BY <2>3, <2>5, <2>6, <3>1
    <3> QED BY <2>5, <2>6, <3>1, <3>2, <3>3
  <2>7. Good(i + 1)
    BY <2>6
  <2> HIDE DEF Good
  <2> QED BY <2>1, <2>7
<1>6. \A i \in 0..n : i \in T
  <2> HIDE DEF T, n
  <2> QED BY <1>1, <1>4, <1>5, BoundedInduction
<1>7. Good(n)
  <2> HIDE DEF Good
  <2> QED BY <1>1, <1>6
<1>8. acc[n] \in Values
  BY <1>1, <1>2 DEF Accumulates
<1>9. Bad \in Values
  BY DEF Values
<1> QED
  BY <1>2, <1>3, <1>7, <1>8, <1>9

-----------------------------------------------------------------------------
(* DeclaredLength *)

\* It is 0 if no line declares a length.  Otherwise it is Bad, or every length
\* declared is good, and it is the last.
LEMMA DeclaredIsLast ==
  ASSUME NEW lines, Len(lines) \in Nat
  PROVE  LET lengths == LengthLines(lines)
             length == DeclaredLength(lines)
         IN /\ length \in Values
            /\ length # Bad =>
                 /\ \A i \in lengths : GoodLength(lines[i])
                 /\ length = IF lengths = {} THEN 0 ELSE ValueOf(lines[Max(lengths)].value)
<1> DEFINE lengths == LengthLines(lines)
           length == DeclaredLength(lines)
           Parsed(i) == ParseContentLength(lines[i].value)
           Greatest(i) == i \in lengths /\ \A j \in lengths : i >= j
           last == Max(lengths)
<1>1. \A i \in lengths : i \in 0..Len(lines) /\ lines[i] \in Headers
  BY DEF LengthLines
<1>2. ASSUME NEW i \in lengths
      PROVE  /\ Parsed(i) \in Values
             /\ Parsed(i) # Bad => GoodLength(lines[i]) /\ Parsed(i) = ValueOf(lines[i].value)
  <2>1. lines[i].value \in Seq(Digits)
    BY <1>1, ReceiveAssumption DEF Digits
  <2>2. /\ Parsed(i) \in Values
        /\ Parsed(i) # Bad =>
             /\ lines[i].value # <<>> /\ \A j \in 1..Len(lines[i].value) : lines[i].value[j] <= 9
             /\ Parsed(i) = ValueOf(lines[i].value)
    BY <2>1, ParsedIsValue
  <2>3. Parsed(i) # Bad => Parsed(i) <= MaxBodyBytes
    BY <2>2, ReceiveAssumption DEF Values
  <2> HIDE DEF Parsed
  <2> QED BY <2>2, <2>3 DEF GoodLength
<1>3. lengths # {} => Greatest(last)
  <2> SUFFICES ASSUME lengths # {} PROVE Greatest(last)
    OBVIOUS
  <2>1. lengths \in SUBSET (0..Len(lines))
    BY <1>1
  <2> HIDE DEF lengths
  <2>2. PICK i \in lengths : \A j \in lengths : j <= i
    BY <2>1, GreatestExists
  <2>3. \A j \in lengths : i >= j
    BY <1>1, <2>1, <2>2
  <2> QED BY <2>3 DEF Max
<1>4. length = IF lengths = {} THEN 0
               ELSE IF \E i \in lengths : Parsed(i) = Bad THEN Bad ELSE Parsed(last)
  BY DEF DeclaredLength
<1>5. 0 \in Values /\ Bad \in Values /\ 0 # Bad
  BY ReceiveAssumption DEF Values, Bad
<1> HIDE DEF lengths, length, Parsed, last
<1>6. CASE lengths = {}
  BY <1>4, <1>5, <1>6 DEF lengths, length
<1>7. CASE lengths # {} /\ \E i \in lengths : Parsed(i) = Bad
  BY <1>4, <1>5, <1>7 DEF lengths, length
<1>8. CASE lengths # {} /\ ~\E i \in lengths : Parsed(i) = Bad
  <2>1. length = Parsed(last) /\ last \in lengths
    BY <1>3, <1>4, <1>8
  <2>2. length \in Values /\ length = ValueOf(lines[last].value)
    BY <1>2, <1>8, <2>1
  <2>3. \A i \in lengths : GoodLength(lines[i])
    BY <1>2, <1>8
  <2> QED BY <1>8, <2>2, <2>3 DEF lengths, length, last
<1> QED
  BY <1>6, <1>7, <1>8

-----------------------------------------------------------------------------
(* ReceiveRequest *)

\* While it reads, the end of the header is where it is in what has been
\* received, the length is the one declared, and the request is incomplete.
\* What it returned, unless the connection failed or the limit was exceeded,
\* is what it would return for what has been received if that came at once.
ReadingInv ==
  result = Reading =>
    /\ ~TooLarge(received)
    /\ headerEnd = FindHeaderEnd(SubSeq(input, 1, received))
    /\ contentLength = IF headerEnd = npos THEN 0
                       ELSE DeclaredLength(HeaderLines(input, headerEnd))
    /\ ~Complete(received, headerEnd, contentLength)
ReturnedInv ==
  result # Reading /\ result # Invalid("closed") =>
    IF TooLarge(received) THEN result = Invalid("too large") ELSE result = AtOnce(received)
ReceiveInv ==
  /\ TypeOK
  /\ ReadingInv
  /\ ReturnedInv

\* What has been received is a sequence, and so are its header's lines.
LEMMA Parts ==
  ASSUME input \in Inputs, NEW n \in 0..Len(input)
  PROVE  /\ Len(input) \in Nat /\ input \in Seq(Symbols)
         /\ SubSeq(input, 1, n) \in Seq(Symbols) /\ Len(SubSeq(input, 1, n)) = n
<1>1. input \in Seq(Symbols)
  BY ReceiveAssumption
<1>2. Len(input) \in Nat
  BY <1>1, LenProperties
<1>3. \A j \in 1..n : input[j] \in Symbols
  BY <1>1, <1>2, ElementOfSeq
<1> QED
  BY <1>1, <1>2, <1>3, SubSeqProperties

\* The end found lies within what was searched.
LEMMA EndInRange ==
  ASSUME input \in Inputs, NEW n \in 0..Len(input)
  PROVE  FindHeaderEnd(SubSeq(input, 1, n)) \in {npos} \cup 0..n
<1> DEFINE part == SubSeq(input, 1, n)
           e == FindHeaderEnd(part)
<1>1. part \in Seq(Symbols) /\ Len(part) = n
  BY Parts
<1>2. FirstEnd(part, e)
  BY <1>1, FindsFirstEnd
<1> HIDE DEF part, e
<1>3. e = npos \/ EndsAt(part, e)
  BY <1>2 DEF FirstEnd
<1>4. EndsAt(part, e) => e \in 0..n
  BY <1>1 DEF EndsAt
<1> QED
  BY <1>3, <1>4 DEF part, e

\* The lines of the header are a sequence.
LEMMA HeaderLinesCounted ==
  ASSUME input \in Inputs, NEW end \in 0..Len(input)
  PROVE  Len(HeaderLines(input, end)) \in Nat
<1> DEFINE kept == [i \in 1..end |-> IF input[i] \in {CR, LF} THEN <<>> ELSE <<input[i]>>]
<1>1. Len(input) \in Nat /\ input \in Seq(Symbols)
  <2>1. 0 \in 0..Len(input)
    BY ReceiveAssumption, LenProperties
  <2> QED BY <2>1, Parts
<1>2. \A i \in 1..end : input[i] \in Symbols
  BY <1>1, ElementOfSeq
<1>3. \A i \in 1..end : kept[i] \in Seq(Symbols)
  BY <1>2
<1>4. kept \in Seq(Seq(Symbols))
  BY <1>1, <1>3
<1>5. FlattenSeq(kept) \in Seq(Symbols)
  BY <1>4, FlattenType
<1> QED
  BY <1>5, LenProperties DEF HeaderLines

\* The results ReceiveRequest can return differ from each other.
LEMMA Statuses ==
  /\ Reading.status = "reading"
  /\ \A why : Invalid(why).status = "invalid" /\ Invalid(why).why = why
  /\ \A why : Reading # Invalid(why)
  /\ Invalid("closed") # Invalid("too large") /\ Invalid("closed") # Invalid("content length")
<1>1. Reading.status = "reading"
  BY DEF Reading
<1>2. \A why : Invalid(why).status = "invalid" /\ Invalid(why).why = why
  BY DEF Invalid
<1>3. "reading" # "invalid" /\ "closed" # "too large" /\ "closed" # "content length"
  OBVIOUS
<1> QED
  BY <1>1, <1>2, <1>3

\* A request is parsed into an error or a request.
LEMMA ParsedStatus ==
  ASSUME NEW raw, NEW end, NEW length
  PROVE  ParseHttpRequest(raw, end, length).status \in {"invalid", "request"}
BY DEF ParseHttpRequest, Invalid

\* What a receive leaves behind, for as long as there was nothing to return.
LEMMA RecvKeeps ==
  ASSUME ReceiveInv, NEW k \in 1..BufferSize, Recv(k)
  PROVE  ReceiveInv'
<1> DEFINE n == received + k
           end == EndAfter(n)
           length == IF headerEnd # npos \/ end = npos THEN contentLength
                     ELSE DeclaredLength(HeaderLines(input, end))
<1>1. /\ result = Reading /\ n <= Len(input) /\ received' = n /\ input' = input
  BY DEF Recv
<1>2. /\ input \in Inputs /\ received \in 0..Len(input) /\ contentLength \in 0..MaxBodyBytes
      /\ headerEnd \in {npos} \cup 0..received
  BY DEF ReceiveInv, TypeOK
<1>3. Len(input) \in Nat /\ input \in Seq(Symbols)
  BY <1>2, Parts
<1>4. n \in 0..Len(input) /\ received \in 0..n /\ BufferSize \in Nat
  BY <1>1, <1>2, <1>3, ReceiveAssumption
<1>5. end = FindHeaderEnd(SubSeq(input, 1, n))
  <2>1. headerEnd = FindHeaderEnd(SubSeq(input, 1, received))
    BY <1>1 DEF ReceiveInv, ReadingInv
  <2>2. CASE headerEnd = npos
    BY <2>2 DEF EndAfter
  <2>3. CASE headerEnd # npos
    <3>1. FindHeaderEnd(SubSeq(input, 1, n)) = FindHeaderEnd(SubSeq(input, 1, received))
      BY <1>3, <1>4, <2>1, <2>3, EndStays
    <3> QED BY <2>1, <2>3, <3>1 DEF EndAfter
  <2> QED BY <2>2, <2>3
<1>6. end \in {npos} \cup 0..n
  BY <1>2, <1>4, <1>5, EndInRange
<1>7. length = IF end = npos THEN 0 ELSE DeclaredLength(HeaderLines(input, end))
  <2>1. contentLength = IF headerEnd = npos THEN 0
                        ELSE DeclaredLength(HeaderLines(input, headerEnd))
    BY <1>1 DEF ReceiveInv, ReadingInv
  <2>2. headerEnd # npos => end = headerEnd
    BY DEF EndAfter
  <2> QED BY <2>1, <2>2
<1>8. length \in Values
  <2>1. 0 \in Values
    BY ReceiveAssumption DEF Values
  <2>2. CASE end = npos
    BY <1>7, <2>1, <2>2
  <2>3. CASE end # npos
    <3>1. end \in 0..Len(input)
      BY <1>4, <1>6, <2>3, <1>3
    <3>2. Len(HeaderLines(input, end)) \in Nat
      BY <1>2, <3>1, HeaderLinesCounted
    <3>3. DeclaredLength(HeaderLines(input, end)) \in Values
      BY <3>2, DeclaredIsLast
    <3> QED BY <1>7, <2>3, <3>3
  <2> QED BY <2>2, <2>3
<1>9. AtOnce(n) = IF end = npos THEN Reading
                  ELSE IF length = Bad THEN Invalid("content length")
                  ELSE IF n < end + 4 + length THEN Reading
                  ELSE ParseHttpRequest(SubSeq(input, 1, n), end, length)
  BY <1>5, <1>7 DEF AtOnce
<1>10. AtOnce(received)' = AtOnce(n) /\ (TooLarge(received)' <=> TooLarge(n))
  <2>1. AtOnce(received)' = AtOnce(n)
    BY <1>1 DEF AtOnce
  <2>2. TooLarge(received)' <=> TooLarge(n)
    BY <1>1 DEF TooLarge
  <2> QED BY <2>1, <2>2
<1>11. headerEnd' \in {npos} \cup 0..n /\ contentLength' \in 0..MaxBodyBytes
  <2>1. headerEnd' \in {headerEnd, end}
    BY DEF Recv
  <2>2. contentLength' = contentLength \/ (contentLength' = length /\ length # Bad)
    BY DEF Recv
  <2>3. length # Bad => length \in 0..MaxBodyBytes
    BY <1>8 DEF Values
  <2> HIDE DEF length, end, n
  <2>4. headerEnd \in {npos} \cup 0..n
    BY <1>2, <1>4
  <2> QED BY <1>2, <1>6, <2>1, <2>2, <2>3, <2>4
<1>12. CASE TooLarge(n)
  <2>1. result' = Invalid("too large")
    BY <1>12 DEF Recv
  <2>2. TypeOK'
    BY <1>1, <1>2, <1>4, <1>11, <2>1, Statuses DEF TypeOK
  <2>3. ReadingInv' /\ ReturnedInv'
    BY <1>10, <1>12, <2>1, Statuses DEF ReadingInv, ReturnedInv
  <2> QED BY <2>2, <2>3 DEF ReceiveInv
<1>13. CASE ~TooLarge(n) /\ length = Bad
  <2>1. result' = Invalid("content length")
    BY <1>13 DEF Recv
  <2>2. end # npos
    BY <1>7, <1>13 DEF Bad
  <2>3. result' = AtOnce(received)'
    BY <1>9, <1>10, <1>13, <2>1, <2>2
  <2>4. TypeOK'
    BY <1>1, <1>2, <1>4, <1>11, <2>1, Statuses DEF TypeOK
  <2>5. ReadingInv' /\ ReturnedInv'
    BY <1>10, <1>13, <2>1, <2>3, Statuses DEF ReadingInv, ReturnedInv
  <2> QED BY <2>4, <2>5 DEF ReceiveInv
<1>14. CASE ~TooLarge(n) /\ length # Bad /\ Complete(n, end, length)
  <2>1. result' = ParseHttpRequest(SubSeq(input, 1, n), end, length)
    BY <1>14 DEF Recv
  <2>2. end # npos /\ ~(n < end + 4 + length)
    BY <1>4, <1>6, <1>8, <1>14 DEF Complete, Values
  <2>3. result' = AtOnce(received)'
    BY <1>9, <1>10, <1>14, <2>1, <2>2
  <2>4. result'.status \in {"invalid", "request"}
    BY <2>1, ParsedStatus
  <2>5. TypeOK'
    BY <1>1, <1>2, <1>4, <1>11, <2>4 DEF TypeOK
  <2>6. ReadingInv' /\ ReturnedInv'
    BY <1>10, <1>14, <2>3, <2>4, Statuses DEF ReadingInv, ReturnedInv
  <2> QED BY <2>5, <2>6 DEF ReceiveInv
<1>15. CASE ~TooLarge(n) /\ length # Bad /\ ~Complete(n, end, length)
  <2>1. result' = Reading /\ headerEnd' = end /\ contentLength' = length
    BY <1>15 DEF Recv
  <2>2. TypeOK'
    BY <1>1, <1>2, <1>4, <1>11, <2>1, Statuses DEF TypeOK
  <2>3. headerEnd' = FindHeaderEnd(SubSeq(input', 1, received'))
    BY <1>1, <1>5, <2>1
  <2>4. contentLength' = IF headerEnd' = npos THEN 0
                         ELSE DeclaredLength(HeaderLines(input', headerEnd'))
    BY <1>1, <1>7, <2>1
  <2>5. ~Complete(received', headerEnd', contentLength')
    BY <1>1, <1>15, <2>1
  <2>6. ReadingInv'
    BY <1>10, <1>15, <2>3, <2>4, <2>5 DEF ReadingInv
  <2>7. ReturnedInv'
    BY <2>1 DEF ReturnedInv
  <2> QED BY <2>2, <2>6, <2>7 DEF ReceiveInv
<1> QED
  BY <1>12, <1>13, <1>14, <1>15

\* Nothing is received any more once the connection has failed.
LEMMA ClosedKeeps ==
  ASSUME ReceiveInv, Closed
  PROVE  ReceiveInv'
<1>1. result' = Invalid("closed") /\ UNCHANGED <<input, received, headerEnd, contentLength>>
  BY DEF Closed
<1>2. TypeOK'
  BY <1>1, Statuses DEF ReceiveInv, TypeOK
<1>3. ReadingInv' /\ ReturnedInv'
  BY <1>1, Statuses DEF ReadingInv, ReturnedInv
<1> QED
  BY <1>2, <1>3 DEF ReceiveInv

LEMMA ReceiveStutter ==
  ASSUME ReceiveInv, UNCHANGED vars
  PROVE  ReceiveInv'
<1>1. /\ input' = input /\ received' = received /\ headerEnd' = headerEnd
      /\ contentLength' = contentLength /\ result' = result
  BY DEF vars
<1>2. TypeOK'
  BY <1>1 DEF ReceiveInv, TypeOK
<1>3. ReadingInv'
  BY <1>1 DEF ReceiveInv, ReadingInv, TooLarge
<1>4. ReturnedInv'
  BY <1>1 DEF ReceiveInv, ReturnedInv, TooLarge, AtOnce
<1> QED
  BY <1>2, <1>3, <1>4 DEF ReceiveInv

LEMMA ReceiveInitial == Init => ReceiveInv
<1> SUFFICES ASSUME Init PROVE ReceiveInv
  OBVIOUS
<1>1. input \in Inputs /\ received = 0 /\ headerEnd = npos /\ contentLength = 0 /\ result = Reading
  BY DEF Init
<1>2. Len(input) \in Nat
  BY <1>1, ReceiveAssumption, LenProperties
<1>3. TypeOK
  <2>1. result.status = "reading"
    BY <1>1, Statuses
  <2>2. received \in 0..Len(input) /\ contentLength \in 0..MaxBodyBytes
    BY <1>1, <1>2, ReceiveAssumption
  <2> QED BY <1>1, <2>1, <2>2 DEF TypeOK
<1>4. FindHeaderEnd(SubSeq(input, 1, 0)) = npos
  <2> DEFINE part == SubSeq(input, 1, 0)
             e == FindHeaderEnd(part)
  <2>1. part \in Seq(Symbols) /\ Len(part) = 0
    BY <1>1, <1>2, Parts
  <2>2. FirstEnd(part, e)
    BY <2>1, FindsFirstEnd
  <2> HIDE DEF part, e
  <2>3. ~EndsAt(part, e)
    BY <2>1 DEF EndsAt
  <2>4. e = npos
    BY <2>2, <2>3 DEF FirstEnd
  <2> QED BY <2>4 DEF part, e
<1>5. ~TooLarge(0) /\ ~Complete(0, npos, 0)
  BY ReceiveAssumption DEF TooLarge, Complete
<1>6. ReadingInv
  BY <1>1, <1>4, <1>5 DEF ReadingInv
<1>7. ReturnedInv
  BY <1>1 DEF ReturnedInv
<1> QED
  BY <1>3, <1>6, <1>7 DEF ReceiveInv

LEMMA ReceiveStep == ReceiveInv /\ [Next]_vars => ReceiveInv'
BY RecvKeeps, ClosedKeeps, ReceiveStutter DEF Next

LEMMA ReceiveInvariant == Spec => []ReceiveInv
BY ReceiveInitial, ReceiveStep, PTL DEF Spec

-----------------------------------------------------------------------------
(* What ReceiveRequest returns *)

\* The bookkeeping of ReceiveRequest stays in range: the length within the
\* limit, the header's end within what has been received.
THEOREM ReceiveTypeCorrect == Spec => []TypeOK
<1>1. ReceiveInv => TypeOK
  BY DEF ReceiveInv
<1> QED
  BY <1>1, ReceiveInvariant, PTL

\* Wherever the network cuts the request, what was received is judged as if it
\* had come at once.
THEOREM CutsMakeNoDifference == Spec => []ChunksInvisible
<1>1. ReceiveInv => ChunksInvisible
  <2> SUFFICES ASSUME ReceiveInv, ~TooLarge(received), result # Invalid("closed")
               PROVE  result = AtOnce(received)
    BY DEF ChunksInvisible
  <2>1. CASE result # Reading
    BY <2>1 DEF ReceiveInv, ReturnedInv
  <2>2. CASE result = Reading
    <3> DEFINE found == FindHeaderEnd(SubSeq(input, 1, received))
               length == DeclaredLength(HeaderLines(input, found))
    <3>1. /\ headerEnd = found /\ ~Complete(received, headerEnd, contentLength)
          /\ contentLength = IF found = npos THEN 0 ELSE length
      BY <2>2 DEF ReceiveInv, ReadingInv
    <3>2. /\ contentLength \in 0..MaxBodyBytes /\ headerEnd \in {npos} \cup 0..received
          /\ received \in 0..Len(input) /\ input \in Inputs
      BY DEF ReceiveInv, TypeOK
    <3>3. AtOnce(received) = IF found = npos THEN Reading
                             ELSE IF length = Bad THEN Invalid("content length")
                             ELSE IF received < found + 4 + length THEN Reading
                             ELSE ParseHttpRequest(SubSeq(input, 1, received), found, length)
      BY DEF AtOnce
    <3>4. CASE found = npos
      BY <2>2, <3>3, <3>4
    <3>5. CASE found # npos
      <4>1. contentLength = length /\ length # Bad
        BY <3>1, <3>2, <3>5, ReceiveAssumption DEF Bad
      <4>2. received < found + 4 + length
        <5>1. Len(input) \in Nat
          BY <3>2, Parts
        <5> HIDE DEF found, length
        <5>2. found \in 0..received /\ ~(received >= found + 4 + contentLength)
          BY <3>1, <3>2, <3>5 DEF Complete
        <5> QED BY <3>2, <4>1, <5>1, <5>2, ReceiveAssumption
      <4> QED BY <2>2, <3>3, <3>5, <4>1, <4>2
    <3> QED BY <3>4, <3>5
  <2> QED BY <2>1, <2>2
<1> QED
  BY <1>1, ReceiveInvariant, PTL

\* ReceiveRequest never asks for another byte of a request that is complete.
THEOREM CompleteIsAnswered == Spec => []AnsweredWhenComplete
<1>1. ReceiveInv => AnsweredWhenComplete
  <2> SUFFICES ASSUME ReceiveInv, result = Reading,
                      FindHeaderEnd(SubSeq(input, 1, received)) # npos
               PROVE  received < FindHeaderEnd(SubSeq(input, 1, received)) + 4 + contentLength
    BY DEF AnsweredWhenComplete
  <2>1. /\ headerEnd = FindHeaderEnd(SubSeq(input, 1, received))
        /\ ~Complete(received, headerEnd, contentLength)
    BY DEF ReceiveInv, ReadingInv
  <2>2. /\ contentLength \in 0..MaxBodyBytes /\ headerEnd \in {npos} \cup 0..received
        /\ received \in 0..Len(input) /\ input \in Inputs
    BY DEF ReceiveInv, TypeOK
  <2>3. Len(input) \in Nat
    BY <2>2, Parts
  <2>4. headerEnd \in 0..received /\ ~(received >= headerEnd + 4 + contentLength)
    BY <2>1, <2>2 DEF Complete
  <2>5. received < headerEnd + 4 + contentLength
    BY <2>2, <2>3, <2>4, ReceiveAssumption
  <2> QED BY <2>1, <2>5
<1> QED
  BY <1>1, ReceiveInvariant, PTL

LEMMA MinOfTwo ==
  ASSUME NEW a \in Int, NEW b \in Int, a <= b
  PROVE  Min({a, b}) = a /\ Min({b, a}) = a
<1>1. \A x \in {a, b} : (\A y \in {a, b} : x <= y) => x = a
  OBVIOUS
<1>2. a \in {a, b} /\ \A y \in {a, b} : a <= y
  OBVIOUS
<1>3. Min({a, b}) = a
  BY <1>1, <1>2 DEF Min
<1>4. {a, b} = {b, a}
  OBVIOUS
<1> QED
  BY <1>3, <1>4

\* A part that lies within a first part of a text is that part of the text.
LEMMA PartOfPrefix ==
  ASSUME NEW S, NEW raw \in Seq(S), NEW n \in 0..Len(raw),
         NEW i \in Nat \ {0}, NEW j \in 0..n
  PROVE  SubSeq(SubSeq(raw, 1, n), i, j) = SubSeq(raw, i, j)
<1>1. Len(raw) \in Nat /\ n \in Nat /\ j \in Nat
  BY LenProperties
<1>2. CASE j < i
  BY <1>1, <1>2, SubSeqEmpty
<1>3. CASE i <= j
  <2> DEFINE part == SubSeq(raw, 1, n)
  <2>1. \A k \in 1..n : raw[k] \in S
    BY <1>1, ElementOfSeq
  <2>2. part \in Seq(S)
    BY <1>1, <2>1, SubSeqProperties
  <2>3. /\ 1 \in 1..Len(raw) /\ n \in 1..Len(raw)
        /\ i \in 1..(n - 1 + 1) /\ j \in 1..(n - 1 + 1)
    BY <1>1, <1>3
  <2>4. SubSeq(SubSeq(raw, 1, n), i, j) = SubSeq(raw, 1 + i - 1, 1 + j - 1)
    BY <2>2, <2>3, SubSeqOfSubSeq
  <2>5. 1 + i - 1 = i /\ 1 + j - 1 = j
    BY <1>1
  <2> QED BY <2>4, <2>5
<1> QED
  BY <1>1, <1>2, <1>3

\* A request is accepted with the body its Content-Length announces, byte for
\* byte, and only if every length announced is a number within the limit: for
\* lengths of any number of digits and requests cut in any way.
THEOREM BodyIsAnnounced == Spec => []BodyAsAnnounced
<1>1. ReceiveInv => BodyAsAnnounced
  <2> SUFFICES ASSUME ReceiveInv, result.status = "request" PROVE BodyAsAnnounced
    BY DEF BodyAsAnnounced
  <2> DEFINE raw == SubSeq(input, 1, received)
             found == FindHeaderEnd(raw)
             lines == HeaderLines(input, found)
             length == DeclaredLength(lines)
             lengths == LengthLines(lines)
  <2>1. received \in 0..Len(input) /\ input \in Inputs
    BY DEF ReceiveInv, TypeOK
  <2>2. /\ Len(input) \in Nat /\ input \in Seq(Symbols)
        /\ raw \in Seq(Symbols) /\ Len(raw) = received
    BY <2>1, Parts
  <2>3. \A why : result # Invalid(why)
    BY Statuses
  <2>4. result # Reading
    BY Statuses
  <2>5. result = AtOnce(received)
    BY <2>3, <2>4 DEF ReceiveInv, ReturnedInv
  <2>6. AtOnce(received) = IF found = npos THEN Reading
                           ELSE IF length = Bad THEN Invalid("content length")
                           ELSE IF received < found + 4 + length THEN Reading
                           ELSE ParseHttpRequest(raw, found, length)
    BY DEF AtOnce
  <2>7. /\ found # npos /\ length # Bad /\ ~(received < found + 4 + length)
        /\ result = ParseHttpRequest(raw, found, length)
    <3> HIDE DEF found, length, raw
    <3> QED BY <2>3, <2>4, <2>5, <2>6
  <2>8. found \in 0..received
    <3>1. found \in {npos} \cup 0..received
      BY <2>1, EndInRange
    <3> QED BY <2>7, <3>1
  <2>9. FindHeaderEnd(input) = found
    <3>1. SubSeq(input, 1, Len(input)) = input
      BY <2>2, SubSeqFull
    <3>2. Len(input) \in 0..Len(input) /\ received \in 0..Len(input)
      BY <2>1, <2>2
    <3>3. FindHeaderEnd(SubSeq(input, 1, Len(input))) = FindHeaderEnd(SubSeq(input, 1, received))
      BY <2>2, <2>7, <3>2, EndStays
    <3> QED BY <3>1, <3>3
  <2>10. /\ length \in Values
         /\ \A i \in lengths : GoodLength(lines[i])
         /\ length = IF lengths = {} THEN 0 ELSE ValueOf(lines[Max(lengths)].value)
    <3>1. found \in 0..Len(input)
      BY <2>1, <2>2, <2>8
    <3>2. Len(lines) \in Nat
      BY <2>1, <3>1, HeaderLinesCounted
    <3> HIDE DEF lines
    <3> QED BY <2>7, <3>2, DeclaredIsLast
  <2>11. length \in Nat
    BY <2>7, <2>10, ReceiveAssumption DEF Values
  <2>12. result.body = SubSeq(raw, found + 5, Min({found + 4 + length, Len(raw)}))
    BY <2>7, Statuses DEF ParseHttpRequest
  <2>13. result.body = SubSeq(input, found + 5, found + 4 + length)
    <3> HIDE DEF found, length, lines, lengths
    <3>1. /\ found + 4 + length \in 0..received /\ found + 5 \in Nat \ {0}
          /\ received \in Int /\ found + 4 + length \in Int /\ found + 4 + length <= received
      BY <2>1, <2>2, <2>7, <2>8, <2>11
    <3>2. Min({found + 4 + length, Len(raw)}) = found + 4 + length
      BY <2>2, <3>1, MinOfTwo
    <3>3. SubSeq(raw, found + 5, found + 4 + length) = SubSeq(input, found + 5, found + 4 + length)
      BY <2>1, <2>2, <3>1, PartOfPrefix
    <3> QED BY <2>12, <3>2, <3>3
  <2>14. Len(result.body) = length
    <3> HIDE DEF found, length, lines, lengths
    <3>1. found + 5 \in Int /\ found + 4 + length \in Int
      BY <2>1, <2>8, <2>11
    <3>2. \A i \in (found + 5)..(found + 4 + length) : i \in 1..Len(input)
      BY <2>1, <2>2, <2>7, <2>8, <2>11
    <3>3. \A i \in (found + 5)..(found + 4 + length) : input[i] \in Symbols
      BY <2>2, <3>2, ElementOfSeq
    <3>4. Len(SubSeq(input, found + 5, found + 4 + length)) =
            IF found + 5 <= found + 4 + length THEN (found + 4 + length) - (found + 5) + 1 ELSE 0
      BY <3>1, <3>3, SubSeqProperties
    <3> QED BY <2>1, <2>8, <2>11, <2>13, <3>4
  <2> HIDE DEF found, length, lengths
  <2> QED BY <2>9, <2>10, <2>13, <2>14 DEF BodyAsAnnounced, lengths, lines
<1> QED
  BY <1>1, ReceiveInvariant, PTL

-----------------------------------------------------------------------------
(* BuildHttpResponseText *)

\* The text of lines: each followed by \r\n.
Lined(lines) == FlattenSeq([i \in 1..Len(lines) |-> <<lines[i], CR, LF>>])
LinesAt(text, lines) ==
  \A j \in 1..Len(lines) :
    text[3 * j - 2] = lines[j] /\ text[3 * j - 1] = CR /\ text[3 * j] = LF

LEMMA TextOfLines ==
  ASSUME NEW S, CR \in S, LF \in S, NEW lines \in Seq(S)
  PROVE  /\ Lined(lines) \in Seq(S)
         /\ Len(Lined(lines)) = 3 * Len(lines)
         /\ LinesAt(Lined(lines), lines)
<1> DEFINE Triples(ls) == [i \in 1..Len(ls) |-> <<ls[i], CR, LF>>]
           Good(ls) == /\ Lined(ls) \in Seq(S) /\ Len(Lined(ls)) = 3 * Len(ls)
                       /\ LinesAt(Lined(ls), ls)
           T == {ls \in Seq(S) : Good(ls)}
<1>1. ASSUME NEW ls \in Seq(S) PROVE Triples(ls) \in Seq(Seq(S))
  <2>1. Len(ls) \in Nat /\ \A i \in 1..Len(ls) : ls[i] \in S
    BY LenProperties, ElementOfSeq
  <2>2. \A i \in 1..Len(ls) : <<ls[i], CR, LF>> \in Seq(S)
    BY <2>1
  <2> QED BY <2>1, <2>2
<1>2. <<>> \in T
  <2>1. Len(<<>>) = 0 /\ <<>> \in Seq(S)
    BY EmptySeq
  <2>2. Triples(<<>>) = <<>>
    BY <2>1
  <2>3. Lined(<<>>) = <<>>
    BY <2>2, FlattenEmpty DEF Lined
  <2>4. LinesAt(<<>>, <<>>)
    BY <2>1 DEF LinesAt
  <2>5. Len(<<>>) = 3 * Len(<<>>)
    BY <2>1
  <2>6. Good(<<>>)
    BY <2>1, <2>3, <2>4, <2>5, Zenon
  <2> HIDE DEF Good
  <2> QED BY <2>1, <2>6
<1>3. ASSUME NEW ls \in Seq(S), NEW e \in S, ls \in T PROVE Append(ls, e) \in T
  <2> DEFINE n == Len(ls)
             ms == Append(ls, e)
             last == <<e, CR, LF>>
             text == Lined(ls)
  <2>1. n \in Nat /\ ms \in Seq(S) /\ Len(ms) = n + 1 /\ ms[n + 1] = e
        /\ \A i \in 1..n : ms[i] = ls[i]
    BY LenProperties, AppendProperties
  <2>2. last \in Seq(S) /\ Len(last) = 3 /\ last[1] = e /\ last[2] = CR /\ last[3] = LF
    OBVIOUS
  <2>3. text \in Seq(S) /\ Len(text) = 3 * n /\ LinesAt(text, ls)
    BY <1>3
  <2>4. Triples(ms) = Append(Triples(ls), last)
    <3> DEFINE new == Append(Triples(ls), last)
               A == Seq(S)
    <3>1. Triples(ls) \in Seq(A) /\ Triples(ms) \in Seq(A) /\ last \in A
      BY <1>1, <2>1, <2>2
    <3>2. Len(Triples(ls)) = n /\ Len(Triples(ms)) = n + 1
      BY <2>1
    <3> HIDE DEF A, ms, last
    <3>3. /\ new \in Seq(A) /\ Len(new) = n + 1 /\ new[n + 1] = last
          /\ \A i \in 1..n : new[i] = Triples(ls)[i]
      BY <3>1, <3>2, AppendProperties
    <3>4. ASSUME NEW i \in 1..(n + 1) PROVE Triples(ms)[i] = new[i]
      <4>1. CASE i = n + 1
        <5>1. Triples(ms)[i] = <<ms[n + 1], CR, LF>>
          BY <2>1, <4>1
        <5> HIDE DEF new
        <5> QED BY <2>1, <3>3, <4>1, <5>1 DEF last
      <4>2. CASE i # n + 1
        <5>1. i \in 1..n
          BY <2>1, <4>2
        <5>2. Triples(ms)[i] = <<ms[i], CR, LF>> /\ Triples(ls)[i] = <<ls[i], CR, LF>>
          BY <2>1, <5>1
        <5> HIDE DEF new, Triples
        <5> QED BY <2>1, <3>3, <5>1, <5>2
      <4> QED BY <4>1, <4>2
    <3> HIDE DEF new, Triples
    <3>5. \A i \in 1..Len(Triples(ms)) : Triples(ms)[i] = new[i]
      BY <3>2, <3>4
    <3>6. Triples(ms) = new
      BY <3>1, <3>2, <3>3, <3>5, SeqEqual
    <3> QED BY <3>6 DEF new
  <2>5. Lined(ms) = text \o last
    <3>1. Triples(ls) \in Seq(Seq(S))
      BY <1>1
    <3> HIDE DEF last, ms
    <3>2. FlattenSeq(Append(Triples(ls), last)) = FlattenSeq(Triples(ls)) \o last
      BY <2>2, <3>1, FlattenAppend
    <3>3. Lined(ms) = FlattenSeq(Triples(ms)) /\ text = FlattenSeq(Triples(ls))
      BY DEF Lined
    <3> QED BY <2>4, <3>2, <3>3
  <2> DEFINE new == text \o last
  <2> HIDE DEF text, last, ms
  <2>6. /\ new \in Seq(S) /\ Len(new) = 3 * n + 3
        /\ \A i \in 1..(3 * n + 3) : new[i] = IF i <= 3 * n THEN text[i] ELSE last[i - 3 * n]
    <3>1. /\ new \in Seq(S) /\ Len(new) = Len(text) + Len(last)
          /\ \A i \in 1..(Len(text) + Len(last)) :
               new[i] = IF i <= Len(text) THEN text[i] ELSE last[i - Len(text)]
      BY <2>2, <2>3, ConcatProperties
    <3> HIDE DEF new
    <3> QED BY <2>2, <2>3, <3>1
  <2> HIDE DEF new
  <2>7. ASSUME NEW j \in 1..(n + 1)
        PROVE  new[3 * j - 2] = ms[j] /\ new[3 * j - 1] = CR /\ new[3 * j] = LF
    <3>1. CASE j = n + 1
      <4>1. /\ 3 * j - 2 \in 1..(3 * n + 3) /\ ~(3 * j - 2 <= 3 * n) /\ (3 * j - 2) - 3 * n = 1
            /\ 3 * j - 1 \in 1..(3 * n + 3) /\ ~(3 * j - 1 <= 3 * n) /\ (3 * j - 1) - 3 * n = 2
            /\ 3 * j \in 1..(3 * n + 3) /\ ~(3 * j <= 3 * n) /\ 3 * j - 3 * n = 3
        BY <2>1, <3>1
      <4> QED BY <2>1, <2>2, <2>6, <3>1, <4>1
    <3>2. CASE j # n + 1
      <4>1. j \in 1..n
        BY <2>1, <3>2
      <4>2. /\ 3 * j - 2 \in 1..(3 * n + 3) /\ 3 * j - 2 <= 3 * n
            /\ 3 * j - 1 \in 1..(3 * n + 3) /\ 3 * j - 1 <= 3 * n
            /\ 3 * j \in 1..(3 * n + 3) /\ 3 * j <= 3 * n
        BY <2>1, <4>1
      <4>3. text[3 * j - 2] = ls[j] /\ text[3 * j - 1] = CR /\ text[3 * j] = LF
        BY <2>3, <4>1 DEF LinesAt
      <4> QED BY <2>1, <2>6, <4>1, <4>2, <4>3
    <3> QED BY <3>1, <3>2
  <2>8. LinesAt(new, ms)
    BY <2>1, <2>7 DEF LinesAt
  <2>9. Lined(ms) \in Seq(S) /\ Len(Lined(ms)) = 3 * Len(ms)
    BY <2>1, <2>5, <2>6 DEF new
  <2>10. LinesAt(Lined(ms), ms)
    BY <2>5, <2>8 DEF new
  <2> QED BY <2>1, <2>9, <2>10 DEF ms
<1>4. \A ls \in Seq(S) : ls \in T
  <2> HIDE DEF T
  <2> QED BY <1>2, <1>3, SeqInduction
<1> QED
  BY <1>4

\* A line of the header is in no way a \r or a \n.
IsLine(c) == c \notin {CR, LF}

\* The lines of a text of lines, up to where the last of them ends.
LEMMA LinesOfText ==
  ASSUME NEW S, NEW lines \in Seq(S), \A j \in 1..Len(lines) : IsLine(lines[j]),
         NEW text, LinesAt(text, lines), NEW k \in 1..Len(lines),
         \A i \in 1..(3 * k - 2) : text[i] \in S
  PROVE  HeaderLines(text, 3 * k - 2) = SubSeq(lines, 1, k)
<1> DEFINE Kept(m) == [i \in 1..m |-> IF text[i] \in {CR, LF} THEN <<>> ELSE <<text[i]>>]
           At(j) == HeaderLines(text, 3 * j - 2) = SubSeq(lines, 1, j)
           T == {n \in 0..(k - 1) : At(n + 1)}
<1>1. Len(lines) \in Nat /\ k \in Nat \ {0} /\ k <= Len(lines)
  BY LenProperties
<1>2. \A j \in 1..Len(lines) : lines[j] \in S
  BY ElementOfSeq
<1>3. ASSUME NEW m \in 0..(3 * k - 2) PROVE Kept(m) \in Seq(Seq(S)) /\ Len(Kept(m)) = m
  <2>1. \A i \in 1..m : text[i] \in S
    BY <1>1
  <2>2. \A i \in 1..m : (IF text[i] \in {CR, LF} THEN <<>> ELSE <<text[i]>>) \in Seq(S)
    BY <2>1
  <2> QED BY <1>1, <2>2
<1>4. \A m : HeaderLines(text, m) = FlattenSeq(Kept(m))
  BY DEF HeaderLines
<1>5. ASSUME NEW m \in 0..(3 * k - 3)
      PROVE  /\ HeaderLines(text, m) \in Seq(S)
             /\ HeaderLines(text, m + 1) = HeaderLines(text, m) \o Kept(m + 1)[m + 1]
  <2> DEFINE one == Kept(m + 1)[m + 1]
             A == Seq(S)
  <2>1. m \in 0..(3 * k - 2) /\ m + 1 \in 0..(3 * k - 2) /\ m \in Nat /\ m + 1 \in 1..(m + 1)
    BY <1>1
  <2>2. Kept(m) \in Seq(A) /\ Len(Kept(m)) = m /\ Kept(m + 1) \in Seq(A) /\ Len(Kept(m + 1)) = m + 1
    BY <1>3, <2>1
  <2>3. \A i \in 1..m : Kept(m + 1)[i] = Kept(m)[i]
    BY <2>1
  <2> HIDE DEF Kept, A
  <2>4. one \in A
    BY <2>1, <2>2, ElementOfSeq
  <2>5. Kept(m + 1) = Append(Kept(m), one)
    <3> DEFINE new == Append(Kept(m), one)
    <3> HIDE DEF one
    <3>1. /\ new \in Seq(A) /\ Len(new) = m + 1 /\ new[m + 1] = one
          /\ \A i \in 1..m : new[i] = Kept(m)[i]
      BY <2>2, <2>4, AppendProperties
    <3> HIDE DEF new
    <3>2. ASSUME NEW i \in 1..(m + 1) PROVE Kept(m + 1)[i] = new[i]
      <4>1. CASE i = m + 1
        BY <3>1, <4>1 DEF one
      <4>2. CASE i # m + 1
        <5>1. i \in 1..m
          BY <2>1, <4>2
        <5> QED BY <2>3, <3>1, <5>1
      <4> QED BY <4>1, <4>2
    <3>3. \A i \in 1..Len(Kept(m + 1)) : Kept(m + 1)[i] = new[i]
      BY <2>2, <3>2
    <3>4. Kept(m + 1) = new
      BY <2>2, <3>1, <3>3, SeqEqual
    <3> QED BY <3>4 DEF new
  <2> HIDE DEF one
  <2>6. FlattenSeq(Append(Kept(m), one)) = FlattenSeq(Kept(m)) \o one
    BY <2>2, <2>4, FlattenAppend DEF A
  <2>7. FlattenSeq(Kept(m)) \in Seq(S)
    BY <2>2, FlattenType DEF A
  <2> QED BY <1>4, <2>5, <2>6, <2>7 DEF one
<1>6. 0 \in T
  <2>1. 0 \in 0..(3 * k - 3) /\ 1 \in 1..Len(lines)
    BY <1>1
  <2>2. text[1] = lines[1] /\ lines[1] \in S /\ lines[1] \notin {CR, LF}
    <3>1. text[3 * 1 - 2] = lines[1] /\ IsLine(lines[1])
      BY <2>1 DEF LinesAt
    <3> QED BY <1>2, <2>1, <3>1 DEF IsLine
  <2>3. Kept(1)[1] = <<lines[1]>>
    BY <2>2
  <2>4. HeaderLines(text, 0) = <<>>
    <3>1. Kept(0) = <<>>
      OBVIOUS
    <3> QED BY <1>4, <3>1, FlattenEmpty
  <2>5. HeaderLines(text, 0 + 1) = HeaderLines(text, 0) \o Kept(0 + 1)[0 + 1]
    BY <1>5, <2>1
  <2>6. HeaderLines(text, 1) = <<>> \o <<lines[1]>>
    <3>1. 0 + 1 = 1
      OBVIOUS
    <3> HIDE DEF Kept
    <3> QED BY <2>3, <2>4, <2>5, <3>1, Zenon
  <2>7. <<lines[1]>> \in Seq(S)
    BY <2>2
  <2>8. HeaderLines(text, 1) = <<lines[1]>>
    BY <2>6, <2>7, ConcatEmptySeq
  <2>9. SubSeq(lines, 1, 1) = <<lines[1]>>
    <3> DEFINE one == SubSeq(lines, 1, 1)
    <3>1. \A i \in 1..1 : lines[i] \in S
      BY <2>2
    <3>2. one \in Seq(S) /\ Len(one) = 1 /\ one[1] = lines[1]
      BY <3>1, SubSeqProperties
    <3> HIDE DEF one
    <3>3. one = <<lines[1]>>
      BY <2>2, <3>2
    <3> QED BY <3>3 DEF one
  <2>10. 3 * (0 + 1) - 2 = 1 /\ 0 + 1 = 1 /\ 0 \in 0..(k - 1)
    BY <1>1
  <2> HIDE DEF Kept
  <2> QED BY <2>8, <2>9, <2>10
<1>7. ASSUME NEW n \in 0..(k - 2), n \in T PROVE n + 1 \in T
  <2> DEFINE so == SubSeq(lines, 1, n + 1)
             next == lines[n + 2]
  <2>1. /\ n + 1 \in 1..Len(lines) /\ n + 2 \in 1..Len(lines) /\ n \in Nat
        /\ 3 * n + 1 \in 0..(3 * k - 3) /\ 3 * n + 2 \in 0..(3 * k - 3) /\ 3 * n + 3 \in 0..(3 * k - 3)
    BY <1>1
  <2>2. /\ text[3 * (n + 1) - 1] = CR /\ text[3 * (n + 1)] = LF
        /\ text[3 * (n + 2) - 2] = lines[n + 2] /\ IsLine(lines[n + 2])
    BY <2>1 DEF LinesAt
  <2>3. text[3 * n + 2] = CR /\ text[3 * n + 3] = LF /\ text[3 * n + 4] = next /\ next \notin {CR, LF}
    <3>1. 3 * (n + 1) - 1 = 3 * n + 2 /\ 3 * (n + 1) = 3 * n + 3 /\ 3 * (n + 2) - 2 = 3 * n + 4
      BY <2>1
    <3> QED BY <2>2, <3>1 DEF IsLine
  <2>4. Kept(3 * n + 2)[3 * n + 2] = <<>>
    <3>1. 3 * n + 2 \in 1..(3 * n + 2)
      BY <2>1
    <3> QED BY <2>3, <3>1
  <2>5. Kept(3 * n + 3)[3 * n + 3] = <<>>
    <3>1. 3 * n + 3 \in 1..(3 * n + 3)
      BY <2>1
    <3> QED BY <2>3, <3>1
  <2>6. Kept(3 * n + 4)[3 * n + 4] = <<next>>
    <3>1. 3 * n + 4 \in 1..(3 * n + 4)
      BY <2>1
    <3> QED BY <2>3, <3>1
  <2> HIDE DEF Kept
  <2>7. HeaderLines(text, 3 * n + 1) = so
    <3>1. 3 * (n + 1) - 2 = 3 * n + 1
      BY <2>1
    <3> QED BY <1>7, <3>1
  <2>8. so \in Seq(S) /\ next \in S
    <3>1. \A i \in 1..(n + 1) : lines[i] \in S
      BY <1>2, <2>1, <1>1
    <3> QED BY <1>2, <2>1, <3>1, SubSeqProperties
  <2>9. HeaderLines(text, 3 * n + 2) = so
    <3>1. HeaderLines(text, (3 * n + 1) + 1) =
            HeaderLines(text, 3 * n + 1) \o Kept((3 * n + 1) + 1)[(3 * n + 1) + 1]
      BY <1>5, <2>1
    <3>2. (3 * n + 1) + 1 = 3 * n + 2
      BY <2>1
    <3> QED BY <2>4, <2>7, <2>8, <3>1, <3>2, ConcatEmptySeq
  <2>10. HeaderLines(text, 3 * n + 3) = so
    <3>1. HeaderLines(text, (3 * n + 2) + 1) =
            HeaderLines(text, 3 * n + 2) \o Kept((3 * n + 2) + 1)[(3 * n + 2) + 1]
      BY <1>5, <2>1
    <3>2. (3 * n + 2) + 1 = 3 * n + 3
      BY <2>1
    <3> QED BY <2>5, <2>9, <2>8, <3>1, <3>2, ConcatEmptySeq
  <2>11. HeaderLines(text, 3 * n + 4) = so \o <<next>>
    <3>1. HeaderLines(text, (3 * n + 3) + 1) =
            HeaderLines(text, 3 * n + 3) \o Kept((3 * n + 3) + 1)[(3 * n + 3) + 1]
      BY <1>5, <2>1
    <3>2. (3 * n + 3) + 1 = 3 * n + 4
      BY <2>1
    <3> QED BY <2>6, <2>10, <3>1, <3>2
  <2>12. so \o <<next>> = SubSeq(lines, 1, n + 2)
    <3>1. 1 \in 1..Len(lines) /\ n + 2 \in 1..Len(lines) /\ (n + 2) - 1 = n + 1
      BY <2>1
    <3>2. SubSeq(lines, 1, n + 2) = SubSeq(lines, 1, (n + 2) - 1) \o <<lines[n + 2]>>
      BY <3>1, SubSeqRecursiveSecond
    <3> QED BY <3>1, <3>2
  <2>13. At((n + 1) + 1)
    <3>1. 3 * ((n + 1) + 1) - 2 = 3 * n + 4 /\ (n + 1) + 1 = n + 2
      BY <2>1
    <3> QED BY <2>11, <2>12, <3>1
  <2>14. n + 1 \in 0..(k - 1)
    BY <1>1
  <2> HIDE DEF At
  <2> QED BY <2>13, <2>14
<1>8. \A n \in 0..(k - 1) : n \in T
  <2>1. k - 1 \in Nat /\ (k - 1) - 1 = k - 2
    BY <1>1
  <2> HIDE DEF T
  <2> QED BY <1>6, <1>7, <2>1, BoundedInduction
<1>9. k - 1 \in 0..(k - 1) /\ (k - 1) + 1 = k
  BY <1>1
<1>10. At((k - 1) + 1)
  <2> HIDE DEF At
  <2> QED BY <1>8, <1>9
<1> QED
  BY <1>9, <1>10

\* The answer is its header's lines, an empty line, and its body.
AnswerShape(S, r, text) ==
  LET k == Len(ResponseHeader(r)) IN
  /\ k \in {3, 4} /\ ResponseHeader(r) \in Seq(S)
  /\ \A j \in 1..k : IsLine(ResponseHeader(r)[j])
  /\ text \in Seq(S) /\ r.body \in Seq(S)
  /\ Len(text) = 3 * k + 2 + Len(r.body)
  /\ LinesAt(text, ResponseHeader(r))
  /\ text[3 * k + 1] = CR /\ text[3 * k + 2] = LF
  /\ \A b \in 1..Len(r.body) : text[3 * k + 2 + b] = r.body[b]

LEMMA AnswerTyped ==
  ASSUME NEW r \in Answers
  PROVE  /\ r \in [status : Nat, has_body : BOOLEAN, body : Seq(Symbols)]
         /\ ~r.has_body => r.body = <<>>
<1>1. BadRequest \in [status : Nat, has_body : BOOLEAN, body : Seq(Symbols)] /\ BadRequest.has_body
  <2>1. <<Byte>> \in Seq(Symbols)
    BY DEF Symbols
  <2> QED BY <2>1 DEF BadRequest
<1> QED
  BY <1>1, ConnectionAssumption DEF Answers

\* The one line of the header that declares a length declares the body's.
LEMMA LengthDeclared ==
  ASSUME NEW r \in Answers
  PROVE  /\ Len(ResponseHeader(r)) \in {3, 4}
         /\ ResponseHeader(r)[1].value = r.status
         /\ LET lines == ResponseHeader(r)
                i == CHOOSE i \in 1..Len(lines) : lines[i].name = "content-length"
            IN lines[i].value = Len(r.body)
<1> DEFINE lines == ResponseHeader(r)
           Is(i) == i \in 1..Len(lines) /\ lines[i].name = "content-length"
           at == CHOOSE i \in 1..Len(lines) : lines[i].name = "content-length"
<1>1. r.has_body \in BOOLEAN /\ (~r.has_body => r.body = <<>>)
  BY AnswerTyped
<1>2. /\ LengthLine(r).name = "content-length" /\ StatusLine(r).name = "status"
      /\ OtherLine("connection").name = "connection"
      /\ OtherLine("content-type").name = "content-type"
      /\ StatusLine(r).value = r.status
  BY DEF LengthLine, StatusLine, OtherLine
<1>3. LengthLine(r).value = Len(r.body)
  <2>1. Len(<<>>) = 0
    BY EmptySeq
  <2>2. LengthLine(r).value = IF r.has_body THEN Len(r.body) ELSE 0
    BY DEF LengthLine
  <2> QED BY <1>1, <2>1, <2>2
<1>4. CASE r.has_body
  <2>1. lines = <<StatusLine(r), OtherLine("connection"), OtherLine("content-type"), LengthLine(r)>>
    BY <1>4 DEF ResponseHeader
  <2> HIDE DEF lines
  <2>2. /\ Len(lines) = 4 /\ lines[1] = StatusLine(r) /\ lines[2] = OtherLine("connection")
        /\ lines[3] = OtherLine("content-type") /\ lines[4] = LengthLine(r)
    BY <2>1
  <2>3. \A i \in 1..Len(lines) : lines[i].name = "content-length" => i = 4
    <3>1. \A i \in 1..Len(lines) : i \in {1, 2, 3, 4}
      BY <2>2
    <3> QED BY <1>2, <2>2, <3>1
  <2>4. 4 \in 1..Len(lines) /\ lines[4].name = "content-length"
    BY <1>2, <2>2
  <2>5. at = 4
    BY <2>3, <2>4
  <2> HIDE DEF at
  <2> QED BY <1>2, <1>3, <2>2, <2>5 DEF lines, at
<1>5. CASE ~r.has_body
  <2>1. lines = <<StatusLine(r), OtherLine("connection"), LengthLine(r)>>
    BY <1>5 DEF ResponseHeader
  <2> HIDE DEF lines
  <2>2. /\ Len(lines) = 3 /\ lines[1] = StatusLine(r) /\ lines[2] = OtherLine("connection")
        /\ lines[3] = LengthLine(r)
    BY <2>1
  <2>3. \A i \in 1..Len(lines) : lines[i].name = "content-length" => i = 3
    <3>1. \A i \in 1..Len(lines) : i \in {1, 2, 3}
      BY <2>2
    <3> QED BY <1>2, <2>2, <3>1
  <2>4. 3 \in 1..Len(lines) /\ lines[3].name = "content-length"
    BY <1>2, <2>2
  <2>5. at = 3
    BY <2>3, <2>4
  <2> HIDE DEF at
  <2> QED BY <1>2, <1>3, <2>2, <2>5 DEF lines, at
<1> QED
  BY <1>1, <1>4, <1>5

LEMMA TextOfAnswer ==
  ASSUME NEW r \in Answers
  PROVE  \E S : AnswerShape(S, r, BuildHttpResponseText(r))
<1> DEFINE lines == ResponseHeader(r)
           k == Len(lines)
           body == r.body
           S == Symbols \cup {lines[i] : i \in 1..k}
           blank == <<CR, LF>>
           text == Lined(lines)
           whole == (text \o blank) \o body
<1>1. k \in {3, 4}
  BY LengthDeclared
<1>2. lines \in Seq(S)
  <2> DEFINE Lines4 == <<StatusLine(r), OtherLine("connection"), OtherLine("content-type"), LengthLine(r)>>
             Lines3 == <<StatusLine(r), OtherLine("connection"), LengthLine(r)>>
  <2>1. \A i \in 1..k : lines[i] \in S
    OBVIOUS
  <2>2. lines \in Seq({lines[i] : i \in 1..k})
    <3> HIDE DEF S
    <3>1. CASE r.has_body
      <4>1. lines = Lines4
        BY <3>1 DEF ResponseHeader
      <4> HIDE DEF lines
      <4>2. Len(lines) = 4 /\ lines \in Seq({lines[1], lines[2], lines[3], lines[4]})
        BY <4>1
      <4>3. {lines[1], lines[2], lines[3], lines[4]} = {lines[i] : i \in 1..k}
        <5>1. \A i : i \in 1..k <=> i \in {1, 2, 3, 4}
          BY <4>2
        <5> HIDE DEF k
        <5> QED BY <5>1, Zenon
      <4> QED BY <4>2, <4>3, Zenon
    <3>2. CASE ~r.has_body
      <4>1. lines = Lines3
        BY <3>2 DEF ResponseHeader
      <4> HIDE DEF lines
      <4>2. Len(lines) = 3 /\ lines \in Seq({lines[1], lines[2], lines[3]})
        BY <4>1
      <4>3. {lines[1], lines[2], lines[3]} = {lines[i] : i \in 1..k}
        <5>1. \A i : i \in 1..k <=> i \in {1, 2, 3}
          BY <4>2
        <5> HIDE DEF k
        <5> QED BY <5>1, Zenon
      <4> QED BY <4>2, <4>3, Zenon
    <3> QED BY <3>1, <3>2
  <2>3. {lines[i] : i \in 1..k} \subseteq S
    OBVIOUS
  <2> HIDE DEF S, lines, k
  <2> QED BY <2>2, <2>3, SeqMonotonic
<1>3. CR \in S /\ LF \in S /\ body \in Seq(S)
  <2>1. body \in Seq(Symbols)
    BY AnswerTyped
  <2>2. Symbols \subseteq S
    OBVIOUS
  <2>3. CR \in Symbols /\ LF \in Symbols
    BY DEF Symbols
  <2> HIDE DEF S, body
  <2> QED BY <2>1, <2>2, <2>3, SeqMonotonic
<1>4. \A j \in 1..k : IsLine(lines[j])
  BY ConnectionAssumption DEF IsLine
<1> HIDE DEF S, lines
<1>5. text \in Seq(S) /\ Len(text) = 3 * k /\ LinesAt(text, lines)
  BY <1>2, <1>3, TextOfLines
<1>6. BuildHttpResponseText(r) = whole
  <2>1. BuildHttpResponseText(r) = text \o blank \o (IF r.has_body THEN r.body ELSE <<>>)
    BY DEF BuildHttpResponseText, Lined, lines
  <2>2. (IF r.has_body THEN r.body ELSE <<>>) = body
    BY AnswerTyped
  <2> HIDE DEF text, blank
  <2> QED BY <2>1, <2>2
<1>7. blank \in Seq(S) /\ Len(blank) = 2 /\ blank[1] = CR /\ blank[2] = LF
  BY <1>3
<1> DEFINE head == text \o blank
<1> HIDE DEF text, blank, body
<1>8. /\ head \in Seq(S) /\ Len(head) = 3 * k + 2
      /\ \A i \in 1..(3 * k + 2) : head[i] = IF i <= 3 * k THEN text[i] ELSE blank[i - 3 * k]
  <2>1. /\ head \in Seq(S) /\ Len(head) = Len(text) + Len(blank)
        /\ \A i \in 1..(Len(text) + Len(blank)) :
             head[i] = IF i <= Len(text) THEN text[i] ELSE blank[i - Len(text)]
    BY <1>5, <1>7, ConcatProperties
  <2> HIDE DEF head
  <2> QED BY <1>5, <1>7, <2>1
<1> HIDE DEF head
<1>9. /\ whole \in Seq(S) /\ Len(whole) = 3 * k + 2 + Len(body)
      /\ \A i \in 1..(3 * k + 2 + Len(body)) :
           whole[i] = IF i <= 3 * k + 2 THEN head[i] ELSE body[i - (3 * k + 2)]
  <2>1. /\ whole \in Seq(S) /\ Len(whole) = Len(head) + Len(body)
        /\ \A i \in 1..(Len(head) + Len(body)) :
             whole[i] = IF i <= Len(head) THEN head[i] ELSE body[i - Len(head)]
    <3>1. whole = head \o body /\ head \in Seq(S) /\ body \in Seq(S)
      BY <1>3, <1>8 DEF head
    <3> HIDE DEF whole
    <3> QED BY <3>1, ConcatProperties
  <2> HIDE DEF whole
  <2> QED BY <1>8, <2>1
<1> HIDE DEF whole
<1>10. k \in Nat /\ Len(body) \in Nat
  BY <1>1, <1>3, LenProperties
<1>11. \A i \in 1..(3 * k) : whole[i] = text[i]
  <2>1. ASSUME NEW i \in 1..(3 * k) PROVE whole[i] = text[i]
    <3>1. /\ i \in 1..(3 * k + 2 + Len(body)) /\ i <= 3 * k + 2
          /\ i \in 1..(3 * k + 2) /\ i <= 3 * k
      BY <1>10
    <3> QED BY <1>8, <1>9, <3>1
  <2> QED BY <2>1
<1>12. LinesAt(whole, lines)
  <2>1. ASSUME NEW j \in 1..k
        PROVE  whole[3 * j - 2] = lines[j] /\ whole[3 * j - 1] = CR /\ whole[3 * j] = LF
    <3>1. 3 * j - 2 \in 1..(3 * k) /\ 3 * j - 1 \in 1..(3 * k) /\ 3 * j \in 1..(3 * k)
      BY <1>10
    <3>2. text[3 * j - 2] = lines[j] /\ text[3 * j - 1] = CR /\ text[3 * j] = LF
      BY <1>5 DEF LinesAt
    <3> QED BY <1>11, <3>1, <3>2
  <2> QED BY <2>1 DEF LinesAt
<1>13. whole[3 * k + 1] = CR /\ whole[3 * k + 2] = LF
  <2>1. /\ 3 * k + 1 \in 1..(3 * k + 2 + Len(body)) /\ 3 * k + 1 <= 3 * k + 2
        /\ 3 * k + 1 \in 1..(3 * k + 2) /\ ~(3 * k + 1 <= 3 * k) /\ (3 * k + 1) - 3 * k = 1
    BY <1>10
  <2>2. /\ 3 * k + 2 \in 1..(3 * k + 2 + Len(body)) /\ 3 * k + 2 <= 3 * k + 2
        /\ 3 * k + 2 \in 1..(3 * k + 2) /\ ~(3 * k + 2 <= 3 * k) /\ (3 * k + 2) - 3 * k = 2
    BY <1>10
  <2> QED BY <1>7, <1>8, <1>9, <2>1, <2>2
<1>14. ASSUME NEW b \in 1..Len(body) PROVE whole[3 * k + 2 + b] = body[b]
  <2>1. /\ 3 * k + 2 + b \in 1..(3 * k + 2 + Len(body)) /\ ~(3 * k + 2 + b <= 3 * k + 2)
        /\ (3 * k + 2 + b) - (3 * k + 2) = b
    BY <1>10
  <2> QED BY <1>9, <2>1
<1>15. AnswerShape(S, r, whole)
  BY <1>1, <1>2, <1>3, <1>4, <1>9, <1>12, <1>13, <1>14 DEF AnswerShape, lines, body
<1> QED
  BY <1>6, <1>15

LEMMA SeparatorAt ==
  ASSUME NEW S, NEW raw \in Seq(S), NEW i \in 0..(Len(raw) - 4)
  PROVE  EndsAt(raw, i) <=> /\ raw[i + 1] = CR /\ raw[i + 2] = LF
                            /\ raw[i + 3] = CR /\ raw[i + 4] = LF
<1> DEFINE four == SubSeq(raw, i + 1, i + 4)
<1>1. Len(raw) \in Nat /\ i \in Nat
  BY LenProperties
<1>2. \A j \in (i + 1)..(i + 4) : raw[j] \in S
  BY <1>1, ElementOfSeq
<1>3. /\ four \in Seq(S) /\ Len(four) = 4
      /\ \A j \in 1..4 : four[j] = raw[(i + 1) + j - 1]
  <2>1. i + 1 <= i + 4 /\ (i + 4) - (i + 1) + 1 = 4
    BY <1>1
  <2>2. /\ four \in Seq(S)
        /\ Len(four) = IF i + 1 <= i + 4 THEN (i + 4) - (i + 1) + 1 ELSE 0
        /\ \A j \in 1..((i + 4) - (i + 1) + 1) : four[j] = raw[(i + 1) + j - 1]
    BY <1>1, <1>2, SubSeqProperties
  <2> HIDE DEF four
  <2> QED BY <2>1, <2>2
<1> HIDE DEF four
<1>4. /\ four[1] = raw[i + 1] /\ four[2] = raw[i + 2]
      /\ four[3] = raw[i + 3] /\ four[4] = raw[i + 4]
  <2>1. /\ (i + 1) + 1 - 1 = i + 1 /\ (i + 1) + 2 - 1 = i + 2
        /\ (i + 1) + 3 - 1 = i + 3 /\ (i + 1) + 4 - 1 = i + 4
    BY <1>1
  <2>2. 1 \in 1..4 /\ 2 \in 1..4 /\ 3 \in 1..4 /\ 4 \in 1..4
    OBVIOUS
  <2> QED BY <1>3, <2>1, <2>2
<1>5. EndsAt(raw, i) <=> four = <<CR, LF, CR, LF>>
  BY DEF EndsAt, Separator, four
<1>6. four = <<CR, LF, CR, LF>> <=> four[1] = CR /\ four[2] = LF /\ four[3] = CR /\ four[4] = LF
  BY <1>3
<1> QED
  BY <1>4, <1>5, <1>6

\* The header of an answer ends after its last line, and no earlier.
LEMMA EndOfAnswer ==
  ASSUME NEW S, NEW r, NEW text, AnswerShape(S, r, text)
  PROVE  LET end == 3 * Len(ResponseHeader(r)) - 2
         IN EndsAt(text, end) /\ \A i \in Int : EndsAt(text, i) => end <= i
<1> DEFINE k == Len(ResponseHeader(r))
           m == Len(r.body)
           end == 3 * k - 2
<1>1. /\ k \in {3, 4} /\ Len(text) = 3 * k + 2 + m /\ m \in Nat
      /\ text \in Seq(S)
  BY LenProperties DEF AnswerShape
<1> HIDE DEF k, m
<1>2. EndsAt(text, end)
  <2>1. end \in 0..(Len(text) - 4)
    BY <1>1
  <2>2. /\ end + 1 = 3 * k - 1 /\ end + 2 = 3 * k /\ end + 3 = 3 * k + 1 /\ end + 4 = 3 * k + 2
        /\ k \in 1..k
    BY <1>1
  <2>3. text[3 * k - 1] = CR /\ text[3 * k] = LF /\ text[3 * k + 1] = CR /\ text[3 * k + 2] = LF
    BY <2>2 DEF AnswerShape, LinesAt, k
  <2> QED BY <1>1, <2>1, <2>2, <2>3, SeparatorAt
<1>3. ASSUME NEW i \in Int, EndsAt(text, i) PROVE end <= i
  <2> SUFFICES ASSUME i < end PROVE FALSE
    BY <1>1
  <2>1. i \in 0..(Len(text) - 4)
    BY <1>3 DEF EndsAt
  <2>2. text[i + 1] \in {CR, LF} /\ text[i + 2] \in {CR, LF} /\ text[i + 3] \in {CR, LF}
    BY <1>1, <1>3, <2>1, SeparatorAt
  <2>3. PICK q \in Nat : i = 3 * q \/ i = 3 * q + 1 \/ i = 3 * q + 2
    <3>1. i \div 3 \in Nat /\ i = 3 * (i \div 3) + (i % 3) /\ i % 3 \in 0..2
      BY <2>1
    <3>2. i % 3 = 0 \/ i % 3 = 1 \/ i % 3 = 2
      BY <3>1
    <3> QED BY <3>1, <3>2
  <2>4. PICK j \in 1..k : i + 1 = 3 * j - 2 \/ i + 2 = 3 * j - 2 \/ i + 3 = 3 * j - 2
    <3>1. q + 1 \in 1..k
      BY <1>1, <2>1, <2>3
    <3>2. i = 3 * q => i + 1 = 3 * (q + 1) - 2
      BY <2>1
    <3>3. CASE i = 3 * q
      BY <3>1, <3>2, <3>3
    <3>4. CASE i = 3 * q + 1
      <4>1. q + 2 \in 1..k /\ i + 3 = 3 * (q + 2) - 2
        BY <1>1, <2>1, <3>4
      <4> QED BY <4>1
    <3>5. CASE i = 3 * q + 2
      <4>1. q + 2 \in 1..k /\ i + 2 = 3 * (q + 2) - 2
        BY <1>1, <2>1, <3>5
      <4> QED BY <4>1
    <3> QED BY <2>3, <3>3, <3>4, <3>5
  <2>5. text[3 * j - 2] = ResponseHeader(r)[j] /\ ResponseHeader(r)[j] \notin {CR, LF}
    BY <2>4 DEF AnswerShape, LinesAt, k, IsLine
  <2> QED BY <2>2, <2>4, <2>5
<1> QED
  BY <1>2, <1>3 DEF k

-----------------------------------------------------------------------------
(* What the client reads *)

\* Of any first part of an answer's text, the client makes nothing or the
\* whole answer, and of the whole text the whole answer.
LEMMA ReadsPartialOrWhole ==
  ASSUME NEW r \in Answers, NEW n \in 0..Len(BuildHttpResponseText(r))
  PROVE  LET text == BuildHttpResponseText(r)
             whole == <<r.status, r.body>>
         IN /\ Understood(SubSeq(text, 1, n)) \in {Partial, whole}
            /\ n = Len(text) => Understood(SubSeq(text, 1, n)) = whole
<1> DEFINE text == BuildHttpResponseText(r)
           lines == ResponseHeader(r)
           k == Len(lines)
           m == Len(r.body)
           end == 3 * k - 2
           bytes == SubSeq(text, 1, n)
           whole == <<r.status, r.body>>
<1>1. PICK S : AnswerShape(S, r, text)
  BY TextOfAnswer
<1>2. /\ k \in {3, 4} /\ lines \in Seq(S) /\ text \in Seq(S) /\ r.body \in Seq(S)
      /\ Len(text) = 3 * k + 2 + m /\ m \in Nat
      /\ n \in 0..Len(text)
  BY <1>1, LenProperties DEF AnswerShape
<1>3. EndsAt(text, end) /\ \A i \in Int : EndsAt(text, i) => end <= i
  BY <1>1, EndOfAnswer
<1> HIDE DEF text, lines, k, m
<1>4. \A i \in Int : EndsAt(bytes, i) <=> i <= n - 4 /\ EndsAt(text, i)
  BY <1>2, EndsOfPrefix
<1>5. /\ bytes \in Seq(S) /\ Len(bytes) = n
      /\ \A i \in 1..n : bytes[i] = text[i]
  <2>1. \A i \in 1..n : text[i] \in S
    BY <1>2, ElementOfSeq
  <2>2. /\ bytes \in Seq(S) /\ Len(bytes) = (IF 1 <= n THEN n - 1 + 1 ELSE 0)
        /\ \A i \in 1..(n - 1 + 1) : bytes[i] = text[1 + i - 1]
    BY <1>2, <2>1, SubSeqProperties
  <2>3. \A i \in 1..n : i \in 1..(n - 1 + 1) /\ 1 + i - 1 = i
    BY <1>2
  <2> HIDE DEF bytes, text
  <2> QED BY <1>2, <2>2, <2>3
<1>6. FirstEnd(bytes, FindHeaderEnd(bytes))
  BY <1>5, FindsFirstEnd
<1> DEFINE found == FindHeaderEnd(bytes)
           read == HeaderLines(bytes, found)
           length == read[CHOOSE i \in 1..Len(read) : read[i].name = "content-length"].value
<1>7. Understood(bytes) =
        IF found = npos \/ Len(bytes) < found + 4 + length THEN Partial
        ELSE <<bytes[1].value, SubSeq(bytes, found + 5, found + 4 + length)>>
  BY DEF Understood
<1> HIDE DEF found
<1>8. CASE n < end + 4
  <2>1. \A i \in Int : ~EndsAt(bytes, i)
    BY <1>2, <1>3, <1>4, <1>8
  <2>2. found = npos
    <3>1. found \in Int \/ ~EndsAt(bytes, found)
      BY DEF EndsAt
    <3> QED BY <1>6, <2>1, <3>1 DEF FirstEnd, found
  <2>3. n # Len(text)
    BY <1>2, <1>8
  <2>4. Understood(bytes) = Partial
    <3> HIDE DEF bytes, length
    <3> QED BY <1>7, <2>2, Zenon
  <2> HIDE DEF bytes, text
  <2> QED BY <2>3, <2>4 DEF bytes, text
<1>9. CASE n >= end + 4
  <2>1. found = end
    <3>1. end \in Int /\ end <= n - 4
      BY <1>2, <1>9
    <3>2. EndsAt(bytes, end)
      BY <1>3, <1>4, <3>1
    <3>3. EndsAt(bytes, found) /\ \A i \in Int : EndsAt(bytes, i) => found <= i
      BY <1>6, <3>1, <3>2 DEF FirstEnd, found
    <3>4. found \in Int
      BY <3>3 DEF EndsAt
    <3>5. EndsAt(text, found)
      BY <1>4, <3>3, <3>4
    <3>6. found <= end /\ end <= found
      BY <1>3, <3>1, <3>2, <3>3, <3>4, <3>5
    <3> QED BY <3>1, <3>4, <3>6
  <2>2. read = lines
    <3>1. LinesAt(bytes, lines)
      <4>1. ASSUME NEW j \in 1..k
            PROVE  bytes[3 * j - 2] = lines[j] /\ bytes[3 * j - 1] = CR /\ bytes[3 * j] = LF
        <5>1. 3 * j - 2 \in 1..n /\ 3 * j - 1 \in 1..n /\ 3 * j \in 1..n
          BY <1>2, <1>9
        <5>2. text[3 * j - 2] = lines[j] /\ text[3 * j - 1] = CR /\ text[3 * j] = LF
          BY <1>1 DEF AnswerShape, LinesAt, text, lines, k
        <5> HIDE DEF bytes, text
        <5> QED BY <1>5, <5>1, <5>2
      <4> QED BY <4>1 DEF LinesAt, k
    <3>2. \A j \in 1..Len(lines) : IsLine(lines[j])
      BY <1>1 DEF AnswerShape, text, lines, k, m
    <3>3. \A i \in 1..(3 * k - 2) : bytes[i] \in S
      BY <1>2, <1>5, <1>9, ElementOfSeq
    <3>4. k \in 1..Len(lines)
      <4>1. k = Len(lines)
        BY DEF k
      <4> HIDE DEF lines
      <4> QED BY <1>2, <4>1
    <3> HIDE DEF bytes, lines
    <3>5. HeaderLines(bytes, end) = SubSeq(lines, 1, k)
      <4>1. lines \in Seq(S)
        BY <1>2
      <4> HIDE DEF end
      <4>2. HeaderLines(bytes, 3 * k - 2) = SubSeq(lines, 1, k)
        BY <3>1, <3>2, <3>3, <3>4, <4>1, LinesOfText
      <4> QED BY <4>2 DEF end
    <3>6. SubSeq(lines, 1, k) = lines
      BY <1>2, SubSeqFull DEF k
    <3> QED BY <2>1, <3>5, <3>6
  <2>3. length = m
    <3>1. LET i == CHOOSE i \in 1..Len(lines) : lines[i].name = "content-length"
          IN lines[i].value = m
      BY LengthDeclared DEF lines, m
    <3> HIDE DEF read, lines
    <3> QED BY <2>2, <3>1, Zenon
  <2>4. bytes[1].value = r.status
    <3>1. 1 \in 1..n /\ 1 \in 1..k /\ 3 * 1 - 2 = 1
      BY <1>2, <1>9
    <3>2. text[3 * 1 - 2] = lines[1]
      BY <1>1, <3>1 DEF AnswerShape, LinesAt, text, lines, k
    <3>3. lines[1].value = r.status
      BY LengthDeclared DEF lines
    <3> HIDE DEF bytes, text, lines
    <3> QED BY <1>5, <3>1, <3>2, <3>3
  <2>5. Understood(bytes) =
          IF n < end + 4 + m THEN Partial
          ELSE <<r.status, SubSeq(bytes, end + 5, end + 4 + m)>>
    <3>1. end # npos
      BY <1>2 DEF npos
    <3> HIDE DEF bytes, length, text, end
    <3> QED BY <1>5, <1>7, <2>1, <2>3, <2>4, <3>1
  <2>6. CASE n < end + 4 + m
    <3>1. n # Len(text)
      BY <1>2, <2>6
    <3> HIDE DEF bytes, text
    <3> QED BY <2>5, <2>6, <3>1 DEF bytes, text
  <2>7. CASE ~(n < end + 4 + m)
    <3> DEFINE sent == SubSeq(bytes, end + 5, end + 4 + m)
    <3>1. n = end + 4 + m /\ n = Len(text)
      BY <1>2, <2>7
    <3>2. \A i \in (end + 5)..(end + 4 + m) : bytes[i] \in S
      <4>1. \A i \in (end + 5)..(end + 4 + m) : i \in 1..n
        BY <1>2, <3>1
      <4> HIDE DEF bytes, text
      <4> QED BY <1>5, <4>1, ElementOfSeq
    <3>3. /\ sent \in Seq(S) /\ Len(sent) = m
          /\ \A b \in 1..m : sent[b] = bytes[(end + 5) + b - 1]
      <4>1. /\ end + 5 \in Int /\ end + 4 + m \in Int
            /\ (end + 4 + m) - (end + 5) + 1 = m
            /\ (end + 5 <= end + 4 + m <=> m # 0)
        BY <1>2
      <4> HIDE DEF bytes, end
      <4>2. /\ sent \in Seq(S)
            /\ Len(sent) = IF end + 5 <= end + 4 + m
                           THEN (end + 4 + m) - (end + 5) + 1 ELSE 0
            /\ \A b \in 1..((end + 4 + m) - (end + 5) + 1) :
                 sent[b] = bytes[(end + 5) + b - 1]
        BY <3>2, <4>1, SubSeqProperties
      <4> HIDE DEF sent
      <4> QED BY <4>1, <4>2
    <3>4. ASSUME NEW b \in 1..m PROVE sent[b] = r.body[b]
      <4>1. (end + 5) + b - 1 = 3 * k + 2 + b /\ 3 * k + 2 + b \in 1..n
        BY <1>2, <3>1
      <4>2. text[3 * k + 2 + b] = r.body[b]
        BY <1>1 DEF AnswerShape, text, lines, k, m
      <4> HIDE DEF bytes, text, sent, end
      <4> QED BY <1>5, <3>3, <4>1, <4>2
    <3>5. sent = r.body
      <4> HIDE DEF sent
      <4> QED BY <1>2, <3>3, <3>4, SeqEqual DEF m
    <3>6. Understood(bytes) = whole
      <4> HIDE DEF bytes
      <4> QED BY <2>5, <2>7, <3>5, Zenon
    <3> HIDE DEF bytes, text
    <3> QED BY <3>6 DEF bytes, text
  <2> QED BY <2>6, <2>7
<1> QED
  <2>1. n < end + 4 \/ n >= end + 4
    BY <1>2
  <2> HIDE DEF bytes, k, end
  <2> QED BY <1>8, <1>9, <2>1 DEF text, bytes

-----------------------------------------------------------------------------
(* The connection *)

\* What has been sent is a first part of the answer's text, and all of it when
\* the connection was closed after sending; nothing is sent before the answer.
SentSoFar(text) ==
  /\ Len(wire) \in 0..Len(text)
  /\ wire = SubSeq(text, 1, Len(wire))
  /\ connection = "sent" => Len(wire) = Len(text)

WireInv ==
  /\ response = None => wire = <<>> /\ connection = "open"
  /\ response # None => response \in Answers /\ SentSoFar(BuildHttpResponseText(response))

LEMMA TextTyped ==
  ASSUME NEW r \in Answers
  PROVE  /\ \E S : BuildHttpResponseText(r) \in Seq(S)
         /\ Len(BuildHttpResponseText(r)) \in Nat
<1>1. PICK S : AnswerShape(S, r, BuildHttpResponseText(r))
  BY TextOfAnswer
<1>2. BuildHttpResponseText(r) \in Seq(S)
  BY <1>1 DEF AnswerShape
<1> QED
  BY <1>2, LenProperties

LEMMA SendKeeps ==
  ASSUME WireInv, NEW k \in SendSizes, Send(k)
  PROVE  WireInv'
<1> DEFINE text == BuildHttpResponseText(response)
           w == Len(wire)
           d == Min({k, Len(text) - w})
<1>1. /\ response # None /\ connection = "open" /\ w < Len(text)
      /\ wire' = wire \o SubSeq(text, w + 1, w + d)
      /\ response' = response /\ connection' = connection
  BY DEF Send, Sending, Piece
<1>2. response \in Answers /\ SentSoFar(text)
  BY <1>1 DEF WireInv
<1>3. w \in 0..Len(text) /\ wire = SubSeq(text, 1, w)
  BY <1>2 DEF SentSoFar
<1>4. PICK S : text \in Seq(S)
  BY <1>2, TextTyped
<1>5. Len(text) \in Nat /\ k \in Nat
  BY <1>4, LenProperties, ConnectionAssumption
<1> HIDE DEF text, w
<1>6. d \in 0..(Len(text) - w)
  <2>1. CASE k <= Len(text) - w
    BY <1>3, <1>5, <2>1, MinOfTwo
  <2>2. CASE Len(text) - w <= k
    BY <1>3, <1>5, <2>2, MinOfTwo
  <2> QED BY <1>3, <1>5, <2>1, <2>2
<1> HIDE DEF d
<1>7. wire' = SubSeq(text, 1, w + d)
  <2>1. /\ 1 \in 1..(Len(text) + 1) /\ w \in (1 - 1)..Len(text) /\ w + d \in w..Len(text)
    BY <1>3, <1>5, <1>6
  <2>2. SubSeq(text, 1, w) \o SubSeq(text, w + 1, w + d) = SubSeq(text, 1, w + d)
    BY <1>4, <2>1, ConcatAdjacentSubSeq
  <2> QED BY <1>1, <1>3, <2>2
<1>8. Len(wire') = w + d
  <2>1. \A i \in 1..(w + d) : text[i] \in S
    BY <1>3, <1>4, <1>5, <1>6, ElementOfSeq
  <2>2. Len(SubSeq(text, 1, w + d)) = IF 1 <= w + d THEN (w + d) - 1 + 1 ELSE 0
    BY <1>3, <1>5, <1>6, <2>1, SubSeqProperties
  <2> QED BY <1>3, <1>5, <1>6, <1>7, <2>2
<1>9. SentSoFar(text)'
  <2>1. text' = text
    BY <1>1 DEF text
  <2>2. w + d \in 0..Len(text) /\ connection' = "open"
    BY <1>1, <1>3, <1>5, <1>6
  <2> QED BY <1>7, <1>8, <2>1, <2>2 DEF SentSoFar
<1> QED
  BY <1>1, <1>2, <1>9 DEF WireInv, text

LEMMA HandleKeeps ==
  ASSUME WireInv, Handle
  PROVE  WireInv'
<1>1. response = None /\ response' \in Answers /\ wire' = <<>> /\ connection' = "open"
  BY DEF Handle, Answers, WireInv
<1>2. SentSoFar(BuildHttpResponseText(response))'
  <2> DEFINE text == BuildHttpResponseText(response')
  <2>1. Len(text) \in Nat
    BY <1>1, TextTyped
  <2> HIDE DEF text
  <2>2. SubSeq(text, 1, 0) = <<>> /\ Len(<<>>) = 0
    BY SubSeqEmpty, EmptySeq
  <2>3. 0 \in 0..Len(text)
    BY <2>1
  <2> QED BY <1>1, <2>2, <2>3 DEF SentSoFar, text
<1> QED
  BY <1>1, <1>2 DEF WireInv

LEMMA WireStep == WireInv /\ [ConnectionNext]_connectionVars => WireInv'
<1> SUFFICES ASSUME WireInv, [ConnectionNext]_connectionVars PROVE WireInv'
  OBVIOUS
<1>1. CASE UNCHANGED <<response, wire, connection>>
  BY <1>1 DEF WireInv, SentSoFar
<1>2. CASE Receive
  BY <1>1, <1>2 DEF Receive
<1>3. CASE Handle
  BY <1>3, HandleKeeps
<1>4. CASE SendFails
  BY <1>4 DEF SendFails, Sending, WireInv, SentSoFar
<1>5. CASE Close
  BY <1>5 DEF Close, Sending, WireInv, SentSoFar
<1>6. ASSUME NEW k \in SendSizes, Send(k) PROVE WireInv'
  BY <1>6, SendKeeps
<1>7. CASE UNCHANGED connectionVars
  BY <1>1, <1>7 DEF connectionVars
<1> QED
  BY <1>2, <1>3, <1>4, <1>5, <1>6, <1>7 DEF ConnectionNext

\* The rest of the worker leaves what ReceiveRequest keeps alone: what is
\* proved of a receive holds on the connection.
THEOREM ConnectionReceives == ConnectionSpec => Spec
<1>1. ConnectionInit => Init
  BY DEF ConnectionInit
<1>2. [ConnectionNext]_connectionVars => [Next]_vars
  BY DEF ConnectionNext, connectionVars, Receive, Handle, Send, SendFails, Close, vars
<1> QED
  BY <1>1, <1>2, PTL DEF ConnectionSpec, Spec

\* Wherever an answer is cut off by a failing send or a reset, and however it
\* was divided into sends, the client makes nothing or the whole answer of it,
\* never a part or another answer; and the whole if it was sent to the end.
THEOREM ReadWholeOrNotAtAll == ConnectionSpec => []AnswerWholeOrPartial
<1>1. ConnectionInit => WireInv
  BY DEF ConnectionInit, WireInv
<1>2. ConnectionSpec => []WireInv
  BY <1>1, WireStep, PTL DEF ConnectionSpec
<1>3. WireInv => AnswerWholeOrPartial
  <2> SUFFICES ASSUME WireInv PROVE AnswerWholeOrPartial
    OBVIOUS
  <2>1. CASE response = None
    <3>1. wire = <<>> /\ connection = "open" /\ Len(<<>>) = 0
      BY <2>1, EmptySeq DEF WireInv
    <3>2. ASSUME NEW n \in 0..0 PROVE Understood(SubSeq(wire, 1, n)) = Partial
      <4> DEFINE bytes == SubSeq(wire, 1, n)
                 end == FindHeaderEnd(bytes)
      <4>1. bytes = <<>> /\ bytes \in Seq({}) /\ Len(bytes) = 0
        BY SubSeqEmpty
      <4>2. FirstEnd(bytes, end)
        BY <4>1, FindsFirstEnd
      <4> HIDE DEF bytes, end
      <4>3. ~EndsAt(bytes, end)
        BY <4>1 DEF EndsAt
      <4>4. end = npos
        BY <4>2, <4>3 DEF FirstEnd
      <4> QED BY <4>4 DEF Understood, end, bytes
    <3> QED BY <3>1, <3>2 DEF AnswerWholeOrPartial
  <2>2. CASE response # None
    <3> DEFINE text == BuildHttpResponseText(response)
    <3>1. response \in Answers /\ SentSoFar(text)
      BY <2>2 DEF WireInv
    <3>2. PICK S : text \in Seq(S)
      BY <3>1, TextTyped
    <3>3. Len(wire) \in 0..Len(text) /\ Len(text) \in Nat
      BY <3>1, <3>2, LenProperties DEF SentSoFar
    <3>4. ASSUME NEW n \in 0..Len(wire)
          PROVE  SubSeq(wire, 1, n) = SubSeq(text, 1, n) /\ n \in 0..Len(text)
      <4>1. wire = SubSeq(text, 1, Len(wire))
        BY <3>1 DEF SentSoFar
      <4>2. 1 \in Nat \ {0} /\ n \in 0..Len(text)
        BY <3>3
      <4> HIDE DEF text
      <4>3. SubSeq(SubSeq(text, 1, Len(wire)), 1, n) = SubSeq(text, 1, n)
        BY <3>2, <3>3, <4>2, PartOfPrefix
      <4> QED BY <4>1, <4>2, <4>3
    <3>5. ASSUME NEW n \in 0..Len(wire)
          PROVE  /\ Understood(SubSeq(wire, 1, n)) \in {Partial, <<response.status, response.body>>}
                 /\ n = Len(text) =>
                      Understood(SubSeq(wire, 1, n)) = <<response.status, response.body>>
      BY <3>1, <3>4, ReadsPartialOrWhole
    <3>6. Len(wire) \in 0..Len(wire) /\ (connection = "sent" => Len(wire) = Len(text))
      BY <3>1, <3>3 DEF SentSoFar
    <3> HIDE DEF text
    <3> QED BY <3>5, <3>6 DEF AnswerWholeOrPartial
  <2> QED BY <2>1, <2>2
<1> QED
  BY <1>2, <1>3, PTL
=============================================================================
