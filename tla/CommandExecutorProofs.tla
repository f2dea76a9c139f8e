------------------------ MODULE CommandExecutorProofs ------------------------
(***************************************************************************)
(* The life of the callbacks object and what it captures, for any text,    *)
(* pattern and limit, and any division of the text into chunks.            *)
(***************************************************************************)
EXTENDS CommandExecutor, SequenceLemmas, FiniteSetTheorems

\* The references at each point of Execute: its own from Create to
\* TakeAndRelease, and the client's while it has the callbacks installed,
\* which Restore may fail to end.
RefsInv ==
  \/ pc \in {"create", "done"} /\ installed = FALSE /\ refs = 0
  \/ pc \in {"install", "release"} /\ installed = FALSE /\ refs = 1
  \/ pc \in {"execute", "restore", "release"} /\ installed = TRUE /\ refs = 2
  \/ pc = "return" /\ installed = FALSE /\ refs = 0
  \/ pc = "return" /\ installed = TRUE /\ refs = 1

\* No step loses a reference or gives one up twice.
LEMMA RefsStep == RefsInv /\ [Next]_vars => RefsInv'
<1> SUFFICES ASSUME RefsInv, [Next]_vars PROVE RefsInv'
  OBVIOUS
<1> USE DEF RefsInv, Moves
<1>1. CASE CreateFails \/ Create
  BY <1>1 DEF CreateFails, Create
<1>2. CASE Install
  BY <1>2 DEF Install
<1>3. CASE InstallFails
  BY <1>3 DEF InstallFails
<1>4. ASSUME NEW chunk \in Chunks, Output(chunk) PROVE RefsInv'
  BY <1>4 DEF Output
<1>5. CASE Executed
  BY <1>5 DEF Executed
<1>6. CASE Restore
  <2>1. pc = "restore" /\ pc' = "release" /\ installed = TRUE /\ refs = 2
    BY <1>6 DEF Restore
  <2>2. CASE installed' = FALSE /\ refs' = refs - 1
    BY <2>1, <2>2
  <2>3. CASE UNCHANGED <<installed, refs>>
    BY <2>1, <2>3
  <2>4. QED
    BY <1>6, <2>2, <2>3 DEF Restore
<1>7. CASE TakeAndRelease
  BY <1>7 DEF TakeAndRelease
<1>8. CASE Return
  <2>1. pc' = "done" /\ installed' = FALSE
    BY <1>8 DEF Return
  <2>2. installed = TRUE => refs' = refs - 1
    BY <1>8 DEF Return
  <2>3. installed = FALSE => refs' = refs
    BY <1>8 DEF Return
  <2>4. pc = "return"
    BY <1>8 DEF Return
  <2>5. QED
    BY <2>1, <2>2, <2>3, <2>4
<1>9. CASE UNCHANGED vars
  BY <1>9 DEF vars
<1>10. QED
  BY <1>1, <1>2, <1>3, <1>4, <1>5, <1>6, <1>7, <1>8, <1>9 DEF Next

\* Whatever call of Execute fails, the callbacks object lives as long as the
\* engine may call it, and is deleted when Execute has returned.
THEOREM CaptureLives == Spec => []CaptureAlive
<1>1. Init => RefsInv
  BY DEF Init, RefsInv
<1>2. RefsInv => CaptureAlive
  BY DEF RefsInv, CaptureAlive
<1>3. QED
  BY <1>1, <1>2, RefsStep, PTL DEF Spec

-----------------------------------------------------------------------------
(* Pieces *)

\* A line, or what there is of one: not empty, a newline at its end at most.
LineSet == {p \in Seq(Chars) : p # <<>> /\ \A i \in 1..(Len(p) - 1) : p[i] # NL}

\* A character makes a line, or an unfinished one longer.
LEMMA LineOfChar ==
  ASSUME NEW c \in Chars
  PROVE  <<c>> \in LineSet /\ (EndsLine(<<c>>) <=> c = NL)
<1>1. <<c>> \in Seq(Chars) /\ <<c>> # <<>> /\ Len(<<c>>) = 1 /\ <<c>>[1] = c
  OBVIOUS
<1> QED
  BY <1>1 DEF LineSet, EndsLine, Last

LEMMA LineWithChar ==
  ASSUME NEW p \in LineSet, ~EndsLine(p), NEW c \in Chars
  PROVE  Append(p, c) \in LineSet /\ (EndsLine(Append(p, c)) <=> c = NL)
<1> DEFINE q == Append(p, c)
<1>1. p \in Seq(Chars) /\ p # <<>> /\ (\A i \in 1..(Len(p) - 1) : p[i] # NL)
  BY DEF LineSet
<1>2. p[Len(p)] # NL
  BY <1>1 DEF EndsLine, Last
<1>3. q \in Seq(Chars) /\ q # <<>> /\ Len(q) = Len(p) + 1 /\ Len(p) \in Nat /\ Last(q) = c
  BY <1>1, AppendParts
<1>4. \A i \in 1..Len(p) : q[i] = p[i]
  BY <1>1, AppendProperties
<1> HIDE DEF q
<1>5. ASSUME NEW i \in 1..(Len(q) - 1) PROVE q[i] # NL
  <2>1. i \in 1..Len(p) /\ (i = Len(p) \/ i \in 1..(Len(p) - 1))
    BY <1>3
  <2> QED BY <1>1, <1>2, <1>4, <2>1
<1> QED
  BY <1>3, <1>5 DEF q, LineSet, EndsLine

LEMMA CharAdded ==
  ASSUME NEW ps \in Seq(LineSet), NEW c \in Chars
  PROVE  AddChar(ps, c) \in Seq(LineSet)
<1>1. CASE ps = <<>> \/ EndsLine(Last(ps))
  <2>1. Append(ps, <<c>>) \in Seq(LineSet)
    BY LineOfChar, AppendParts
  <2> QED BY <1>1, <2>1 DEF AddChar
<1>2. CASE ~(ps = <<>> \/ EndsLine(Last(ps)))
  <2>1. Front(ps) \in Seq(LineSet) /\ Last(ps) \in LineSet
    BY <1>2, FrontAndLast
  <2>2. Append(Last(ps), c) \in LineSet
    BY <1>2, <2>1, LineWithChar
  <2>3. Append(Front(ps), Append(Last(ps), c)) \in Seq(LineSet)
    BY <2>1, <2>2, AppendParts
  <2> QED BY <1>2, <2>3 DEF AddChar
<1> QED
  BY <1>1, <1>2

\* The lines so far, after each character.
Adds(ps, text) ==
  /\ ps \in [0..Len(text) -> Seq(LineSet)] /\ ps[0] = <<>>
  /\ \A i \in 1..Len(text) : ps[i] = AddChar(ps[i - 1], text[i])

LEMMA AddsExists ==
  ASSUME NEW text \in Seq(Chars)
  PROVE  \E ps : Adds(ps, text)
<1> DEFINE n == Len(text)
           A == Seq(LineSet)
           step == [i \in 1..n |-> [a \in A |-> AddChar(a, text[i])]]
<1>1. n \in Nat /\ \A i \in 1..n : text[i] \in Chars
  BY LenProperties, ElementOfSeq
<1>2. <<>> \in A
  BY EmptySeq
<1>3. step \in Steps(n, A)
  <2>1. ASSUME NEW i \in 1..n, NEW a \in A PROVE AddChar(a, text[i]) \in A
    BY <1>1, CharAdded
  <2> HIDE DEF A
  <2> QED BY <2>1 DEF Steps
<1>4. PICK g : Iterates(g, n, A, <<>>, step)
  <2> HIDE DEF n, step, A
  <2> QED BY <1>1, <1>2, <1>3, RecursionExists
<1> HIDE DEF A
<1>5. g \in [0..n -> A] /\ g[0] = <<>>
  BY <1>4 DEF Iterates
<1>6. ASSUME NEW i \in 1..n PROVE g[i] = AddChar(g[i - 1], text[i])
  <2>1. g[i] = step[i][g[i - 1]]
    BY <1>4 DEF Iterates
  <2>2. i - 1 \in 0..n
    BY <1>1
  <2>3. g[i - 1] \in A
    BY <1>5, <2>2
  <2> QED BY <2>1, <2>3
<1> QED
  BY <1>5, <1>6 DEF Adds, A

LEMMA AddsIsPieces ==
  ASSUME NEW text \in Seq(Chars), NEW g, Adds(g, text)
  PROVE  Pieces(text) = g[Len(text)]
<1> DEFINE n == Len(text)
           Def(h) == h = [i \in 0..n |-> IF i = 0 THEN <<>> ELSE AddChar(h[i - 1], text[i])]
           ps == CHOOSE h : Def(h)
<1>1. n \in Nat
  BY LenProperties
<1>2. /\ g = [i \in 0..n |-> g[i]] /\ g[0] = <<>>
      /\ \A i \in 1..n : g[i] = AddChar(g[i - 1], text[i])
  BY DEF Adds
<1>3. Def(g)
  <2>1. \A i \in 0..n : i = 0 \/ i \in 1..n
    BY <1>1
  <2> QED BY <1>2, <2>1
<1>4. Def(ps)
  <2> HIDE DEF Def
  <2> QED BY <1>3
<1> HIDE DEF ps
<1> DEFINE T == {i \in 0..n : ps[i] = g[i]}
<1>5. 0 \in T
  BY <1>1, <1>2, <1>4
<1>6. ASSUME NEW i \in 0..(n - 1), i \in T PROVE i + 1 \in T
  <2>1. i + 1 \in 0..n /\ i + 1 # 0 /\ (i + 1) - 1 = i /\ i + 1 \in 1..n
    BY <1>1
  <2>2. ps[i + 1] = AddChar(ps[i], text[i + 1])
    BY <1>4, <2>1
  <2>3. g[i + 1] = AddChar(g[i], text[i + 1])
    BY <1>2, <2>1
  <2> QED BY <1>6, <2>1, <2>2, <2>3
<1>7. \A i \in 0..n : i \in T
  <2> HIDE DEF T, n
  <2> QED BY <1>1, <1>5, <1>6, BoundedInduction
<1>8. ps[n] = g[n]
  BY <1>1, <1>7
<1>9. Pieces(text) = ps[n]
  BY DEF Pieces, ps
<1> QED
  BY <1>8, <1>9

\* What the loop of Output finds in a text, one character more at a time.
LEMMA PiecesByChar ==
  ASSUME NEW text \in Seq(Chars), NEW c \in Chars
  PROVE  /\ Pieces(text) \in Seq(LineSet)
         /\ Pieces(Append(text, c)) = AddChar(Pieces(text), c)
<1> DEFINE n == Len(text)
           longer == Append(text, c)
<1>1. /\ n \in Nat /\ longer \in Seq(Chars) /\ Len(longer) = n + 1
      /\ (\A i \in 1..n : longer[i] = text[i]) /\ longer[n + 1] = c
  BY AppendProperties, LenProperties
<1>2. PICK g : Adds(g, longer)
  BY <1>1, AddsExists
<1> HIDE DEF longer
<1>3. /\ g \in [0..(n + 1) -> Seq(LineSet)] /\ g[0] = <<>>
      /\ \A i \in 1..(n + 1) : g[i] = AddChar(g[i - 1], longer[i])
  BY <1>1, <1>2 DEF Adds
<1>4. Pieces(longer) = g[n + 1]
  BY <1>1, <1>2, AddsIsPieces
<1> DEFINE f == [i \in 0..n |-> g[i]]
<1>5. Adds(f, text)
  <2>1. \A i \in 0..n : i \in 0..(n + 1)
    BY <1>1
  <2>2. f \in [0..n -> Seq(LineSet)] /\ f[0] = <<>>
    BY <1>1, <1>3, <2>1
  <2>3. ASSUME NEW i \in 1..n PROVE f[i] = AddChar(f[i - 1], text[i])
    <3>1. i \in 0..n /\ i - 1 \in 0..n /\ i \in 1..(n + 1)
      BY <1>1
    <3>2. f[i] = g[i] /\ f[i - 1] = g[i - 1]
      BY <3>1
    <3> HIDE DEF f
    <3> QED BY <1>1, <1>3, <3>1, <3>2
  <2> HIDE DEF f
  <2> QED BY <2>2, <2>3 DEF Adds
<1>6. Pieces(text) = g[n]
  <2>1. n \in 0..n
    BY <1>1
  <2>2. f[n] = g[n]
    BY <2>1
  <2> HIDE DEF f
  <2> QED BY <1>5, <2>2, AddsIsPieces
<1>7. g[n] \in Seq(LineSet) /\ g[n + 1] = AddChar(g[n], c)
  <2>1. n \in 0..(n + 1) /\ n + 1 \in 1..(n + 1) /\ (n + 1) - 1 = n
    BY <1>1
  <2> QED BY <1>1, <1>3, <2>1
<1> QED
  BY <1>4, <1>6, <1>7 DEF longer

LEMMA NoPieces == Pieces(<<>>) = <<>>
<1>1. <<>> \in Seq(Chars) /\ Len(<<>>) = 0
  BY EmptySeq
<1>2. PICK g : Adds(g, <<>>)
  BY <1>1, AddsExists
<1> QED
  BY <1>1, <1>2, AddsIsPieces DEF Adds

\* The lines of a text: together they are the text, all but the last end with
\* a newline, and the last does if the text does.
LinesOf(ps, text) ==
  /\ ps \in Seq(LineSet)
  /\ FlattenSeq(ps) = text
  /\ \A i \in 1..(Len(ps) - 1) : EndsLine(ps[i])
  /\ EndsLine(text) <=> ps # <<>> /\ EndsLine(Last(ps))

LEMMA LineSetInSeq == LineSet \subseteq Seq(Chars) /\ Seq(LineSet) \subseteq Seq(Seq(Chars))
<1>1. LineSet \subseteq Seq(Chars)
  BY DEF LineSet
<1> DEFINE L == LineSet
           A == Seq(Chars)
<1>2. L \subseteq A
  BY <1>1
<1> HIDE DEF L, A
<1>3. Seq(L) \subseteq Seq(A)
  BY <1>2, SeqMonotonic
<1> QED
  BY <1>1, <1>3 DEF L, A

LEMMA CharAddedToLines ==
  ASSUME NEW text \in Seq(Chars), NEW c \in Chars, NEW ps, LinesOf(ps, text)
  PROVE  LinesOf(AddChar(ps, c), Append(text, c))
<1> DEFINE qs == AddChar(ps, c)
           longer == Append(text, c)
<1>1. /\ ps \in Seq(LineSet) /\ FlattenSeq(ps) = text /\ ps \in Seq(Seq(Chars))
      /\ \A i \in 1..(Len(ps) - 1) : EndsLine(ps[i])
  BY LineSetInSeq DEF LinesOf
<1>2. longer \in Seq(Chars) /\ longer # <<>> /\ Last(longer) = c
  BY AppendParts
<1>3. EndsLine(longer) <=> c = NL
  BY <1>2 DEF EndsLine
<1>4. longer = text \o <<c>> /\ <<c>> \in Seq(Chars)
  BY AppendIsConcat
<1> HIDE DEF longer
<1>5. CASE ps = <<>> \/ EndsLine(Last(ps))
  <2>1. qs = Append(ps, <<c>>)
    BY <1>5 DEF AddChar
  <2>2. /\ qs \in Seq(LineSet) /\ qs # <<>> /\ Last(qs) = <<c>>
        /\ Len(qs) = Len(ps) + 1 /\ Len(ps) \in Nat
    BY <1>1, <2>1, LineOfChar, AppendParts
  <2>3. \A i \in 1..Len(ps) : qs[i] = ps[i]
    BY <1>1, <2>1, LineOfChar, AppendProperties
  <2>4. FlattenSeq(qs) = longer
    BY <1>1, <1>4, <2>1, FlattenAppend
  <2> HIDE DEF qs
  <2>5. ASSUME NEW i \in 1..(Len(qs) - 1) PROVE EndsLine(qs[i])
    <3>1. i \in 1..Len(ps) /\ (i \in 1..(Len(ps) - 1) \/ i = Len(ps))
      BY <2>2
    <3>2. CASE i \in 1..(Len(ps) - 1)
      BY <1>1, <2>3, <3>1, <3>2
    <3>3. CASE i = Len(ps)
      <4>1. ps # <<>>
        BY <2>2, <3>1, EmptySeq
      <4>2. EndsLine(ps[Len(ps)])
        BY <1>5, <4>1 DEF Last
      <4> QED BY <2>3, <3>1, <3>3, <4>2
    <3> QED BY <3>1, <3>2, <3>3
  <2>6. EndsLine(Last(qs)) <=> c = NL
    BY <2>2, LineOfChar
  <2> QED BY <1>3, <2>2, <2>4, <2>5, <2>6 DEF LinesOf, qs, longer
<1>6. CASE ~(ps = <<>> \/ EndsLine(Last(ps)))
  <2> DEFINE front == Front(ps)
             last == Last(ps)
             more == Append(last, c)
  <2>1. qs = Append(front, more)
    BY <1>6 DEF AddChar
  <2>2. /\ front \in Seq(LineSet) /\ last \in LineSet /\ ps = Append(front, last)
        /\ Len(front) = Len(ps) - 1 /\ Len(ps) \in Nat \ {0}
        /\ \A i \in 1..(Len(ps) - 1) : front[i] = ps[i]
    BY <1>1, <1>6, FrontAndLast
  <2>3. more \in LineSet /\ (EndsLine(more) <=> c = NL)
    BY <1>6, <2>2, LineWithChar
  <2>4. last \in Seq(Chars) /\ more \in Seq(Chars) /\ front \in Seq(Seq(Chars))
    BY <2>2, <2>3, LineSetInSeq
  <2>5. more = last \o <<c>>
    BY <2>4, AppendIsConcat
  <2> HIDE DEF front, last, more
  <2>6. /\ qs \in Seq(LineSet) /\ qs # <<>> /\ Last(qs) = more /\ Len(qs) = Len(front) + 1
    BY <2>1, <2>2, <2>3, AppendParts
  <2>7. \A i \in 1..Len(front) : qs[i] = front[i]
    BY <2>1, <2>2, <2>3, AppendProperties
  <2>8. FlattenSeq(qs) = longer
    <3>1. FlattenSeq(qs) = FlattenSeq(front) \o more
      BY <2>1, <2>4, FlattenAppend
    <3>2. text = FlattenSeq(front) \o last
      BY <1>1, <2>2, <2>4, FlattenAppend
    <3>3. FlattenSeq(front) \in Seq(Chars)
      BY <2>4, FlattenType
    <3>4. (FlattenSeq(front) \o last) \o <<c>> = FlattenSeq(front) \o (last \o <<c>>)
      <4> DEFINE start == FlattenSeq(front)
                 one == <<c>>
      <4>1. start \in Seq(Chars) /\ one \in Seq(Chars) /\ last \in Seq(Chars)
        BY <1>4, <2>4, <3>3
      <4> HIDE DEF start, one
      <4>2. (start \o last) \o one = start \o (last \o one)
        BY <4>1, ConcatAssociative, SMTT(30)
      <4> QED BY <4>2 DEF start, one
    <3> QED BY <1>4, <2>5, <3>1, <3>2, <3>4
  <2> HIDE DEF qs
  <2>9. ASSUME NEW i \in 1..(Len(qs) - 1) PROVE EndsLine(qs[i])
    <3>1. i \in 1..Len(front) /\ i \in 1..(Len(ps) - 1)
      BY <2>2, <2>6
    <3> QED BY <1>1, <2>2, <2>7, <3>1
  <2> QED BY <1>3, <2>3, <2>6, <2>8, <2>9 DEF LinesOf, qs, longer
<1> QED
  BY <1>5, <1>6

LEMMA PiecesAreLines ==
  ASSUME NEW text \in Seq(Chars)
  PROVE  LinesOf(Pieces(text), text)
<1> DEFINE T == {t \in Seq(Chars) : LinesOf(Pieces(t), t)}
<1>1. <<>> \in T
  <2>1. <<>> \in Seq(Chars) /\ <<>> \in Seq(LineSet) /\ Len(<<>>) = 0
    BY EmptySeq
  <2>2. \A i \in 1..(Len(<<>>) - 1) : EndsLine(<<>>[i])
    BY <2>1
  <2>3. LinesOf(<<>>, <<>>)
    BY <2>1, <2>2, FlattenEmpty DEF LinesOf, EndsLine
  <2> QED BY <2>1, <2>3, NoPieces
<1>2. ASSUME NEW t \in Seq(Chars), NEW c \in Chars, t \in T PROVE Append(t, c) \in T
  <2>1. LinesOf(AddChar(Pieces(t), c), Append(t, c))
    BY <1>2, CharAddedToLines
  <2>2. Append(t, c) \in Seq(Chars)
    BY AppendParts
  <2> QED BY <2>1, <2>2, PiecesByChar
<1>3. \A t \in Seq(Chars) : t \in T
  <2> HIDE DEF T
  <2> QED BY <1>1, <1>2, SeqInduction
<1> QED
  BY <1>3

\* A piece after the lines of a text makes a line, or the last one longer.
Join(ps, p) ==
  IF ps = <<>> \/ EndsLine(Last(ps)) THEN Append(ps, p) ELSE Append(Front(ps), Last(ps) \o p)

LEMMA PiecesByPiece ==
  ASSUME NEW text \in Seq(Chars), NEW piece \in LineSet
  PROVE  Pieces(text \o piece) = Join(Pieces(text), piece)
<1> DEFINE ps == Pieces(text)
           T == {p \in Seq(Chars) : p \in LineSet => Pieces(text \o p) = Join(ps, p)}
<1>1. ps \in Seq(LineSet)
  BY PiecesAreLines DEF LinesOf
<1>2. <<>> \in T
  BY EmptySeq DEF LineSet
<1>3. ASSUME NEW q \in Seq(Chars), NEW c \in Chars, q \in T PROVE Append(q, c) \in T
  <2> DEFINE p == Append(q, c)
  <2>1. /\ p \in Seq(Chars) /\ Len(p) = Len(q) + 1 /\ Len(q) \in Nat
        /\ (\A i \in 1..Len(q) : p[i] = q[i]) /\ p = q \o <<c>>
    BY AppendProperties, LenProperties, AppendIsConcat
  <2>2. text \o q \in Seq(Chars) /\ text \o p = Append(text \o q, c)
    BY ConcatProperties, ConcatAppend
  <2>3. Pieces(text \o p) = AddChar(Pieces(text \o q), c)
    BY <2>2, PiecesByChar
  <2> HIDE DEF ps
  <2>4. ASSUME p \in LineSet PROVE Pieces(text \o p) = Join(ps, p)
    <3>1. CASE q = <<>>
      <4>1. p = <<c>>
        BY <3>1, <2>1, ConcatEmptySeq
      <4>2. text \o q = text
        BY <3>1, ConcatEmptySeq
      <4>3. Pieces(text \o p) = AddChar(ps, c)
        BY <2>3, <4>2 DEF ps
      <4>4. CASE ps = <<>> \/ EndsLine(Last(ps))
        BY <4>1, <4>3, <4>4 DEF AddChar, Join
      <4>5. CASE ~(ps = <<>> \/ EndsLine(Last(ps)))
        <5>1. Last(ps) \in Seq(Chars)
          BY <1>1, <4>5, FrontAndLast DEF LineSet
        <5>2. Append(Last(ps), c) = Last(ps) \o <<c>>
          BY <5>1, AppendIsConcat
        <5> QED BY <4>1, <4>3, <4>5, <5>2 DEF AddChar, Join
      <4> QED BY <4>4, <4>5
    <3>2. CASE q # <<>>
      <4>1. Len(q) \in 1..(Len(p) - 1) /\ Len(q) \in 1..Len(q)
        BY <2>1, <3>2, EmptySeq
      <4>2. \A i \in 1..Len(q) : q[i] # NL
        <5>1. \A i \in 1..(Len(p) - 1) : p[i] # NL
          BY <2>4 DEF LineSet
        <5>2. \A i \in 1..Len(q) : i \in 1..(Len(p) - 1)
          BY <2>1
        <5> HIDE DEF p
        <5> QED BY <2>1, <5>1, <5>2
      <4>3. q \in LineSet /\ ~EndsLine(q)
        <5>1. \A i \in 1..(Len(q) - 1) : i \in 1..Len(q)
          BY <2>1
        <5> QED BY <3>2, <4>1, <4>2, <5>1 DEF LineSet, EndsLine, Last
      <4>4. Pieces(text \o q) = Join(ps, q)
        BY <1>3, <4>3
      <4>5. CASE ps = <<>> \/ EndsLine(Last(ps))
        <5> DEFINE qs == Append(ps, q)
        <5>1. qs # <<>> /\ Front(qs) = ps /\ Last(qs) = q
          BY <1>1, <4>3, AppendParts
        <5>2. Join(ps, q) = qs
          BY <4>5 DEF Join
        <5> HIDE DEF qs
        <5>3. AddChar(qs, c) = Append(ps, p)
          BY <4>3, <5>1 DEF AddChar
        <5>4. Join(ps, p) = Append(ps, p)
          BY <4>5 DEF Join
        <5> QED BY <2>3, <4>4, <5>2, <5>3, <5>4
      <4>6. CASE ~(ps = <<>> \/ EndsLine(Last(ps)))
        <5> DEFINE front == Front(ps)
                   last == Last(ps)
                   qs == Append(front, last \o q)
        <5>1. front \in Seq(LineSet) /\ last \in LineSet
          BY <1>1, <4>6, FrontAndLast
        <5>2. front \in Seq(Seq(Chars)) /\ last \in Seq(Chars)
          BY <5>1, LineSetInSeq
        <5> HIDE DEF front, last
        <5>3. /\ last \o q \in Seq(Chars) /\ Len(last \o q) = Len(last) + Len(q)
              /\ Len(last) \in Nat
              /\ \A i \in 1..(Len(last) + Len(q)) :
                   (last \o q)[i] = IF i <= Len(last) THEN last[i] ELSE q[i - Len(last)]
          BY <5>2, ConcatProperties, LenProperties
        <5>4. qs # <<>> /\ Front(qs) = front /\ Last(qs) = last \o q
          BY <5>2, <5>3, AppendParts
        <5>5. Join(ps, q) = qs
          BY <4>6 DEF Join, front, last
        <5>6. ~EndsLine(last \o q)
          <6> DEFINE both == last \o q
          <6>1. /\ Len(last) + Len(q) \in 1..(Len(last) + Len(q))
                /\ ~(Len(last) + Len(q) <= Len(last))
                /\ (Len(last) + Len(q)) - Len(last) = Len(q)
            BY <2>1, <4>1, <5>3
          <6>2. both[Len(last) + Len(q)] = q[Len(q)]
            BY <5>3, <6>1
          <6>3. q[Len(q)] # NL
            BY <4>1, <4>2
          <6> HIDE DEF both
          <6>4. both[Len(both)] # NL
            BY <5>3, <6>2, <6>3 DEF both
          <6> QED BY <6>4 DEF EndsLine, Last, both
        <5> HIDE DEF qs
        <5>7. AddChar(qs, c) = Append(front, Append(last \o q, c))
          BY <5>4, <5>6 DEF AddChar
        <5>8. Append(last \o q, c) = last \o p
          <6>1. \A l \in Seq(Chars) : l \o Append(q, c) = Append(l \o q, c)
            BY ConcatAppend
          <6> QED BY <5>2, <6>1
        <5>9. Join(ps, p) = Append(front, last \o p)
          BY <4>6 DEF Join, front, last
        <5> QED BY <2>3, <4>4, <5>5, <5>7, <5>8, <5>9
      <4> QED BY <4>5, <4>6
    <3> QED BY <3>1, <3>2
  <2> QED BY <2>1, <2>4
<1>4. \A p \in Seq(Chars) : p \in T
  <2> HIDE DEF T
  <2> QED BY <1>2, <1>3, SeqInduction
<1> QED
  BY <1>4, LineSetInSeq

-----------------------------------------------------------------------------
(* TakePiece and TakeChunk *)

Options == [pattern : Patterns, maxLines : Limits]
Outputs == Seq(Chars \cup {Marker})
Limit(opts) == IF opts.maxLines < 0 THEN 0 ELSE opts.maxLines

\* One turn of the loop leaves the capture alone, takes the piece or truncates.
Ignored(cap, opts, piece) == cap.truncated \/ ~Occurs(opts.pattern, piece)
Taken(cap, next, piece) ==
  /\ next \in Captures
  /\ next.output = cap.output \o piece
  /\ next.lines = cap.lines + (IF EndsLine(piece) THEN 1 ELSE 0)
  /\ next.truncated = cap.truncated
Truncated(cap, next) ==
  /\ next \in Captures
  /\ next.output = Append(cap.output, Marker)
  /\ next.lines = cap.lines
  /\ next.truncated = TRUE

LEMMA PieceOutputs ==
  ASSUME NEW piece \in LineSet, NEW output \in Outputs
  PROVE  /\ piece \in Outputs /\ output \o piece \in Outputs
         /\ Append(output, Marker) \in Outputs
<1>1. piece \in Outputs
  BY SeqMonotonic DEF LineSet, Outputs
<1>2. output \o piece \in Outputs
  BY <1>1, ConcatProperties DEF Outputs
<1>3. Append(output, Marker) \in Outputs
  BY AppendProperties DEF Outputs
<1> QED
  BY <1>1, <1>2, <1>3

LEMMA OneTurn ==
  ASSUME NEW cap \in Captures, NEW opts \in Options, NEW piece \in LineSet
  PROVE  LET next == TakePiece(cap, opts, piece) IN
         /\ Ignored(cap, opts, piece) => next = cap
         /\ ~Ignored(cap, opts, piece) /\ cap.lines < opts.maxLines => Taken(cap, next, piece)
         /\ ~Ignored(cap, opts, piece) /\ ~(cap.lines < opts.maxLines) => Truncated(cap, next)
<1> DEFINE next == TakePiece(cap, opts, piece)
           longer == cap.output \o piece
           marked == Append(cap.output, Marker)
           more == cap.lines + (IF EndsLine(piece) THEN 1 ELSE 0)
<1>1. /\ cap = [output |-> cap.output, lines |-> cap.lines, truncated |-> cap.truncated]
      /\ cap.output \in Outputs /\ cap.lines \in Nat /\ cap.truncated \in BOOLEAN
  BY DEF Captures, Outputs
<1>2. longer \in Outputs /\ marked \in Outputs
  BY <1>1, PieceOutputs
<1>3. more \in Nat
  BY <1>1
<1>4. next = IF Ignored(cap, opts, piece) THEN cap
             ELSE IF cap.lines < opts.maxLines
             THEN [cap EXCEPT !.output = longer, !.lines = more]
             ELSE [cap EXCEPT !.output = marked, !.truncated = TRUE]
  BY DEF TakePiece, Ignored
<1>5. ASSUME ~Ignored(cap, opts, piece), cap.lines < opts.maxLines PROVE Taken(cap, next, piece)
  <2> HIDE DEF longer, more
  <2>1. next = [output |-> longer, lines |-> more, truncated |-> cap.truncated]
    BY <1>1, <1>4, <1>5
  <2> HIDE DEF next
  <2>2. next \in Captures
    BY <1>1, <1>2, <1>3, <2>1 DEF Captures, Outputs
  <2>3. next.output = longer /\ next.lines = more /\ next.truncated = cap.truncated
    BY <2>1
  <2> QED BY <2>2, <2>3 DEF Taken, longer, more
<1>6. ASSUME ~Ignored(cap, opts, piece), ~(cap.lines < opts.maxLines) PROVE Truncated(cap, next)
  <2> HIDE DEF marked
  <2>1. next = [output |-> marked, lines |-> cap.lines, truncated |-> TRUE]
    BY <1>1, <1>4, <1>6
  <2> HIDE DEF next
  <2>2. next \in Captures
    BY <1>1, <1>2, <2>1 DEF Captures, Outputs
  <2>3. next.output = marked /\ next.lines = cap.lines /\ next.truncated = TRUE
    BY <2>1
  <2> QED BY <2>2, <2>3 DEF Truncated, marked
<1> HIDE DEF next
<1> QED
  BY <1>4, <1>5, <1>6 DEF next

LEMMA TurnType ==
  ASSUME NEW cap \in Captures, NEW opts \in Options, NEW piece \in LineSet
  PROVE  TakePiece(cap, opts, piece) \in Captures
BY OneTurn DEF Taken, Truncated

\* What has been captured after each piece.
Takes(caps, cap, opts, pieces) ==
  /\ caps \in [0..Len(pieces) -> Captures] /\ caps[0] = cap
  /\ \A i \in 1..Len(pieces) : caps[i] = TakePiece(caps[i - 1], opts, pieces[i])

LEMMA TakesExists ==
  ASSUME NEW cap \in Captures, NEW opts \in Options, NEW pieces \in Seq(LineSet)
  PROVE  \E caps : Takes(caps, cap, opts, pieces)
<1> DEFINE n == Len(pieces)
           A == Captures
           step == [i \in 1..n |-> [a \in A |-> TakePiece(a, opts, pieces[i])]]
<1>1. n \in Nat /\ \A i \in 1..n : pieces[i] \in LineSet
  BY LenProperties, ElementOfSeq
<1>2. step \in Steps(n, A)
  <2>1. ASSUME NEW i \in 1..n, NEW a \in A PROVE TakePiece(a, opts, pieces[i]) \in A
    BY <1>1, TurnType
  <2> HIDE DEF A
  <2> QED BY <2>1 DEF Steps
<1>3. PICK g : Iterates(g, n, A, cap, step)
  <2> HIDE DEF n, step
  <2> QED BY <1>1, <1>2, RecursionExists
<1> HIDE DEF A
<1>4. g \in [0..n -> A] /\ g[0] = cap
  BY <1>3 DEF Iterates
<1>5. ASSUME NEW i \in 1..n PROVE g[i] = TakePiece(g[i - 1], opts, pieces[i])
  <2>1. g[i] = step[i][g[i - 1]]
    BY <1>3 DEF Iterates
  <2>2. i - 1 \in 0..n
    BY <1>1
  <2>3. g[i - 1] \in A
    BY <1>4, <2>2
  <2> QED BY <2>1, <2>3
<1> QED
  BY <1>4, <1>5 DEF Takes, A

LEMMA TakesIsTakePieces ==
  ASSUME NEW cap, NEW opts, NEW pieces \in Seq(LineSet), NEW g, Takes(g, cap, opts, pieces)
  PROVE  TakePieces(cap, opts, pieces) = g[Len(pieces)]
<1> DEFINE n == Len(pieces)
           Def(h) == h = [i \in 0..n |-> IF i = 0 THEN cap
                                         ELSE TakePiece(h[i - 1], opts, pieces[i])]
           caps == CHOOSE h : Def(h)
<1>1. n \in Nat
  BY LenProperties
<1>2. /\ g = [i \in 0..n |-> g[i]] /\ g[0] = cap
      /\ \A i \in 1..n : g[i] = TakePiece(g[i - 1], opts, pieces[i])
  BY DEF Takes
<1>3. Def(g)
  <2>1. \A i \in 0..n : i = 0 \/ i \in 1..n
    BY <1>1
  <2> QED BY <1>2, <2>1
<1>4. Def(caps)
  <2> HIDE DEF Def
  <2> QED BY <1>3
<1> HIDE DEF caps
<1> DEFINE T == {i \in 0..n : caps[i] = g[i]}
<1>5. 0 \in T
  BY <1>1, <1>2, <1>4
<1>6. ASSUME NEW i \in 0..(n - 1), i \in T PROVE i + 1 \in T
  <2>1. i + 1 \in 0..n /\ i + 1 # 0 /\ (i + 1) - 1 = i /\ i + 1 \in 1..n
    BY <1>1
  <2>2. caps[i + 1] = TakePiece(caps[i], opts, pieces[i + 1])
    BY <1>4, <2>1
  <2>3. g[i + 1] = TakePiece(g[i], opts, pieces[i + 1])
    BY <1>2, <2>1
  <2> QED BY <1>6, <2>1, <2>2, <2>3
<1>7. \A i \in 0..n : i \in T
  <2> HIDE DEF T, n
  <2> QED BY <1>1, <1>5, <1>6, BoundedInduction
<1>8. caps[n] = g[n]
  BY <1>1, <1>7
<1>9. TakePieces(cap, opts, pieces) = caps[n]
  BY DEF TakePieces, caps
<1> QED
  BY <1>8, <1>9

LEMMA TakeNone ==
  ASSUME NEW cap \in Captures, NEW opts \in Options
  PROVE  TakePieces(cap, opts, <<>>) = cap
<1>1. <<>> \in Seq(LineSet) /\ Len(<<>>) = 0
  BY EmptySeq
<1>2. PICK g : Takes(g, cap, opts, <<>>)
  BY <1>1, TakesExists
<1>3. TakePieces(cap, opts, <<>>) = g[0]
  BY <1>1, <1>2, TakesIsTakePieces
<1> QED
  BY <1>2, <1>3 DEF Takes

LEMMA TakeOneMorePiece ==
  ASSUME NEW cap \in Captures, NEW opts \in Options,
         NEW pieces \in Seq(LineSet), NEW piece \in LineSet
  PROVE  /\ TakePieces(cap, opts, pieces) \in Captures
         /\ TakePieces(cap, opts, Append(pieces, piece)) =
              TakePiece(TakePieces(cap, opts, pieces), opts, piece)
<1> DEFINE n == Len(pieces)
           longer == Append(pieces, piece)
<1>1. /\ n \in Nat /\ longer \in Seq(LineSet) /\ Len(longer) = n + 1
      /\ (\A i \in 1..n : longer[i] = pieces[i]) /\ longer[n + 1] = piece
  BY AppendProperties, LenProperties
<1> HIDE DEF longer
<1>2. PICK g : Takes(g, cap, opts, longer)
  BY <1>1, TakesExists
<1>3. /\ g \in [0..(n + 1) -> Captures] /\ g[0] = cap
      /\ \A i \in 1..(n + 1) : g[i] = TakePiece(g[i - 1], opts, longer[i])
  BY <1>1, <1>2 DEF Takes
<1>4. TakePieces(cap, opts, longer) = g[n + 1]
  BY <1>1, <1>2, TakesIsTakePieces
<1> DEFINE f == [i \in 0..n |-> g[i]]
<1>5. Takes(f, cap, opts, pieces)
  <2>1. \A i \in 0..n : i \in 0..(n + 1)
    BY <1>1
  <2>2. f \in [0..n -> Captures] /\ f[0] = cap
    BY <1>1, <1>3, <2>1
  <2>3. ASSUME NEW i \in 1..n PROVE f[i] = TakePiece(f[i - 1], opts, pieces[i])
    <3>1. i \in 0..n /\ i - 1 \in 0..n /\ i \in 1..(n + 1)
      BY <1>1
    <3>2. f[i] = g[i] /\ f[i - 1] = g[i - 1]
      BY <3>1
    <3> HIDE DEF f
    <3> QED BY <1>1, <1>3, <3>1, <3>2
  <2> HIDE DEF f
  <2> QED BY <2>2, <2>3 DEF Takes
<1>6. TakePieces(cap, opts, pieces) = g[n]
  <2>1. n \in 0..n
    BY <1>1
  <2>2. f[n] = g[n]
    BY <2>1
  <2> HIDE DEF f
  <2> QED BY <1>5, <2>2, TakesIsTakePieces
<1>7. g[n] \in Captures /\ g[n + 1] = TakePiece(g[n], opts, piece)
  <2>1. n \in 0..(n + 1) /\ n + 1 \in 1..(n + 1) /\ (n + 1) - 1 = n
    BY <1>1
  <2> QED BY <1>1, <1>3, <2>1
<1> QED
  BY <1>4, <1>6, <1>7 DEF longer

-----------------------------------------------------------------------------
(* The limit *)

Newlines(s) == {i \in 1..Len(s) : s[i] = NL}

LEMMA NewlinesCounted ==
  ASSUME NEW s \in Outputs
  PROVE  /\ IsFiniteSet(Newlines(s)) /\ Cardinality(Newlines(s)) \in Nat
         /\ NewlinesIn(s) = Cardinality(Newlines(s)) /\ Len(s) \in Nat
<1>1. Len(s) \in Nat
  BY LenProperties DEF Outputs
<1>2. IsFiniteSet(1..Len(s)) /\ Newlines(s) \in SUBSET (1..Len(s))
  BY <1>1, FS_Interval DEF Newlines
<1>3. IsFiniteSet(Newlines(s))
  BY <1>2, FS_Subset
<1> QED
  BY <1>1, <1>3, FS_CardinalityType DEF NewlinesIn, Newlines

\* A piece adds a line if it ends one.
LEMMA NewlinesTaken ==
  ASSUME NEW output \in Outputs, NEW piece \in LineSet
  PROVE  NewlinesIn(output \o piece) = NewlinesIn(output) + (IF EndsLine(piece) THEN 1 ELSE 0)
<1> DEFINE longer == output \o piece
           n == Len(output)
           k == Len(piece)
<1>1. longer \in Outputs
  BY PieceOutputs
<1>2. /\ piece # <<>> /\ piece \in Outputs /\ k \in Nat \ {0} /\ n \in Nat
      /\ \A i \in 1..(k - 1) : piece[i] # NL
  <2>1. piece \in Outputs /\ piece # <<>>
    BY PieceOutputs DEF LineSet
  <2>2. k \in Nat \ {0} /\ n \in Nat
    BY <2>1, EmptySeq, LenProperties DEF Outputs
  <2> QED BY <2>1, <2>2 DEF LineSet
<1>3. /\ Len(longer) = n + k
      /\ \A i \in 1..(n + k) : longer[i] = IF i <= n THEN output[i] ELSE piece[i - n]
  BY <1>2, ConcatProperties DEF Outputs
<1> HIDE DEF longer
<1>4. EndsLine(piece) <=> longer[n + k] = NL
  <2>1. n + k \in 1..(n + k) /\ ~(n + k <= n) /\ (n + k) - n = k
    BY <1>2
  <2>2. longer[n + k] = piece[k]
    BY <1>3, <2>1
  <2> QED BY <1>2, <2>2 DEF EndsLine, Last
<1>5. \A i \in 1..n : longer[i] = output[i]
  <2>1. \A i \in 1..n : i \in 1..(n + k) /\ i <= n
    BY <1>2
  <2> QED BY <1>3, <2>1
<1>6. ASSUME NEW i \in (n + 1)..(n + k), i # n + k PROVE longer[i] # NL
  <2>1. i \in Int /\ n + 1 <= i /\ i <= n + k /\ i # n + k
    BY <1>2, <1>6
  <2>2. i \in 1..(n + k) /\ ~(i <= n) /\ i - n \in 1..(k - 1)
    <3>1. n \in Int /\ k \in Int /\ 0 <= n
      BY <1>2
    <3> QED BY <2>1, <3>1
  <2>3. longer[i] = piece[i - n]
    BY <1>3, <2>2
  <2> QED BY <1>2, <2>2, <2>3
<1> HIDE DEF n, k
<1>7. \A i \in 1..(n + k) : i \in 1..n \/ i \in (n + 1)..(n + k)
  BY <1>2
<1>8. CASE EndsLine(piece)
  <2>1. Newlines(longer) = Newlines(output) \cup {n + k}
    <3>1. \A i \in 1..n : i \in 1..(n + k)
      BY <1>2
    <3>2. n + k \in 1..(n + k)
      BY <1>2
    <3>3. ASSUME NEW i \in Newlines(longer) PROVE i \in Newlines(output) \cup {n + k}
      BY <1>3, <1>5, <1>6, <1>7, <3>3 DEF Newlines, n
    <3>4. ASSUME NEW i \in Newlines(output) PROVE i \in Newlines(longer)
      BY <1>3, <1>5, <3>1, <3>4 DEF Newlines, n
    <3>5. n + k \in Newlines(longer)
      BY <1>3, <1>4, <1>8, <3>2 DEF Newlines
    <3> QED BY <3>3, <3>4, <3>5
  <2>2. n + k \notin Newlines(output)
    <3>1. ~(n + k \in 1..n)
      BY <1>2
    <3> QED BY <3>1 DEF Newlines, n
  <2>3. Cardinality(Newlines(longer)) = Cardinality(Newlines(output)) + 1
    BY <2>1, <2>2, NewlinesCounted, FS_AddElement
  <2> QED BY <1>1, <1>8, <2>3, NewlinesCounted DEF longer
<1>9. CASE ~EndsLine(piece)
  <2>1. Newlines(longer) = Newlines(output)
    <3>1. \A i \in 1..n : i \in 1..(n + k)
      BY <1>2
    <3>3. ASSUME NEW i \in Newlines(longer) PROVE i \in Newlines(output)
      BY <1>3, <1>4, <1>5, <1>6, <1>7, <1>9, <3>3 DEF Newlines, n
    <3>4. ASSUME NEW i \in Newlines(output) PROVE i \in Newlines(longer)
      BY <1>3, <1>5, <3>1, <3>4 DEF Newlines, n
    <3> QED BY <3>3, <3>4
  <2> QED BY <1>1, <1>9, <2>1, NewlinesCounted DEF longer
<1> QED
  BY <1>8, <1>9

LEMMA NoNewlineInMarker ==
  ASSUME NEW output \in Outputs
  PROVE  NewlinesIn(Append(output, Marker)) = NewlinesIn(output)
<1> DEFINE longer == Append(output, Marker)
           n == Len(output)
<1>1. /\ longer \in Outputs /\ Len(longer) = n + 1 /\ n \in Nat
      /\ (\A i \in 1..n : longer[i] = output[i]) /\ longer[n + 1] = Marker
  BY AppendProperties, LenProperties DEF Outputs
<1>2. Marker # NL
  BY ExecutorAssumption
<1> HIDE DEF longer
<1>3. Newlines(longer) = Newlines(output)
  <2>1. \A i : i \in 1..(n + 1) <=> i \in 1..n \/ i = n + 1
    BY <1>1
  <2> QED BY <1>1, <1>2, <2>1 DEF Newlines
<1> QED
  BY <1>1, <1>3, NewlinesCounted DEF longer

\* What has been captured so far has the lines that are counted, no more than
\* the limit, and the marker only when nothing more is taken.
Bounded(cap, opts) ==
  /\ cap \in Captures
  /\ NewlinesIn(cap.output) = cap.lines
  /\ cap.lines <= Limit(opts)
  /\ \A i \in 1..Len(cap.output) :
       cap.output[i] = Marker => cap.truncated /\ i = Len(cap.output)

LEMMA NothingIsBounded ==
  ASSUME NEW opts \in Options
  PROVE  Bounded(Empty, opts) /\ Empty \in Captures
<1>1. <<>> \in Outputs /\ Len(<<>>) = 0
  BY EmptySeq DEF Outputs
<1>2. Empty \in Captures
  BY <1>1 DEF Empty, Captures, Outputs
<1>3. NewlinesIn(<<>>) = 0
  <2>1. Newlines(<<>>) = {}
    BY <1>1 DEF Newlines
  <2> QED BY <1>1, <2>1, NewlinesCounted, FS_EmptySet
<1>4. Limit(opts) \in Nat
  <2>1. opts.maxLines \in Int
    BY ExecutorAssumption DEF Options
  <2> QED BY <2>1 DEF Limit
<1>5. Empty.output = <<>> /\ Empty.lines = 0
  BY DEF Empty
<1>6. \A i \in 1..Len(<<>>) : FALSE
  BY <1>1
<1> QED
  BY <1>2, <1>3, <1>4, <1>5, <1>6 DEF Bounded

LEMMA TurnBounded ==
  ASSUME NEW cap, NEW opts \in Options, Bounded(cap, opts), NEW piece \in LineSet
  PROVE  Bounded(TakePiece(cap, opts, piece), opts)
<1> DEFINE next == TakePiece(cap, opts, piece)
<1>1. /\ cap \in Captures /\ cap.output \in Outputs /\ cap.lines \in Nat
      /\ NewlinesIn(cap.output) = cap.lines /\ cap.lines <= Limit(opts)
      /\ opts.maxLines \in Int
  BY ExecutorAssumption DEF Bounded, Captures, Outputs, Options
<1>2. Len(cap.output) \in Nat
  BY <1>1, NewlinesCounted
<1>3. CASE Ignored(cap, opts, piece)
  BY <1>1, <1>3, OneTurn
<1>4. CASE ~Ignored(cap, opts, piece) /\ cap.lines < opts.maxLines
  <2>1. Taken(cap, next, piece) /\ ~cap.truncated
    BY <1>1, <1>4, OneTurn DEF Ignored
  <2> HIDE DEF next
  <2>2. /\ next \in Captures /\ next.output = cap.output \o piece
        /\ next.lines = cap.lines + (IF EndsLine(piece) THEN 1 ELSE 0)
    BY <2>1 DEF Taken
  <2>3. NewlinesIn(next.output) = next.lines
    BY <1>1, <2>2, NewlinesTaken
  <2>4. next.lines <= Limit(opts)
    BY <1>1, <1>4, <2>2 DEF Limit
  <2>5. \A i \in 1..Len(next.output) : next.output[i] # Marker
    <3>1. piece \in Outputs /\ piece \in Seq(Chars)
      BY <1>1, PieceOutputs, LineSetInSeq
    <3>2. /\ Len(cap.output \o piece) = Len(cap.output) + Len(piece) /\ Len(piece) \in Nat
          /\ \A i \in 1..(Len(cap.output) + Len(piece)) :
               (cap.output \o piece)[i] =
                 IF i <= Len(cap.output) THEN cap.output[i] ELSE piece[i - Len(cap.output)]
      BY <1>1, <3>1, ConcatProperties, LenProperties DEF Outputs
    <3>3. \A i \in 1..Len(cap.output) : cap.output[i] # Marker
      BY <2>1 DEF Bounded
    <3>4. \A i \in 1..Len(piece) : piece[i] # Marker
      BY <3>1, ElementOfSeq, ExecutorAssumption
    <3>5. ASSUME NEW i \in 1..(Len(cap.output) + Len(piece))
          PROVE  (cap.output \o piece)[i] # Marker
      <4> DEFINE n == Len(cap.output)
                 k == Len(piece)
                 longer == cap.output \o piece
      <4>1. longer[i] = IF i <= n THEN cap.output[i] ELSE piece[i - n]
        BY <3>2
      <4>2. i <= n => i \in 1..n
        BY <1>2
      <4>3. ~(i <= n) => i - n \in 1..k
        BY <1>2, <3>2
      <4> HIDE DEF longer, n, k
      <4>4. longer[i] # Marker
        BY <3>3, <3>4, <4>1, <4>2, <4>3 DEF n, k
      <4> QED BY <4>4 DEF longer
    <3> QED BY <2>2, <3>2, <3>5
  <2> QED BY <2>2, <2>3, <2>4, <2>5 DEF Bounded, next
<1>5. CASE ~Ignored(cap, opts, piece) /\ ~(cap.lines < opts.maxLines)
  <2>1. Truncated(cap, next) /\ ~cap.truncated
    BY <1>1, <1>5, OneTurn DEF Ignored
  <2> HIDE DEF next
  <2>2. /\ next \in Captures /\ next.output = Append(cap.output, Marker)
        /\ next.lines = cap.lines /\ next.truncated = TRUE
    BY <2>1 DEF Truncated
  <2>3. NewlinesIn(next.output) = next.lines
    BY <1>1, <2>2, NoNewlineInMarker
  <2>4. \A i \in 1..Len(next.output) : next.output[i] = Marker => i = Len(next.output)
    <3>1. /\ Len(next.output) = Len(cap.output) + 1
          /\ \A i \in 1..Len(cap.output) : next.output[i] = cap.output[i]
      <4>1. cap.output \in Seq(Chars \cup {Marker})
        BY <1>1 DEF Outputs
      <4> QED BY <2>2, <4>1, AppendProperties
    <3>2. \A i \in 1..Len(cap.output) : cap.output[i] # Marker
      BY <2>1 DEF Bounded
    <3>3. \A i \in 1..Len(next.output) : i \in 1..Len(cap.output) \/ i = Len(next.output)
      BY <1>2, <3>1
    <3> QED BY <3>1, <3>2, <3>3
  <2> QED BY <1>1, <2>2, <2>3, <2>4 DEF Bounded, next
<1> QED
  BY <1>3, <1>4, <1>5

LEMMA ChunkBounded ==
  ASSUME NEW cap, NEW opts \in Options, Bounded(cap, opts), NEW chunk \in Seq(Chars)
  PROVE  Bounded(TakeChunk(cap, opts, chunk), opts)
<1> DEFINE T == {ps \in Seq(LineSet) : Bounded(TakePieces(cap, opts, ps), opts)}
<1>1. cap \in Captures
  BY DEF Bounded
<1>2. <<>> \in T
  BY <1>1, EmptySeq, TakeNone
<1>3. ASSUME NEW ps \in Seq(LineSet), NEW p \in LineSet, ps \in T PROVE Append(ps, p) \in T
  BY <1>1, <1>3, TakeOneMorePiece, TurnBounded, AppendParts
<1>4. \A ps \in Seq(LineSet) : ps \in T
  <2> HIDE DEF T
  <2> QED BY <1>2, <1>3, SeqInduction
<1>5. Pieces(chunk) \in Seq(LineSet)
  BY PiecesAreLines DEF LinesOf
<1> QED
  BY <1>4, <1>5 DEF TakeChunk

-----------------------------------------------------------------------------
(* The lines that are captured *)

LEMMA JoinedLines ==
  ASSUME NEW ls \in Seq(LineSet), NEW p \in LineSet
  PROVE  LET js == Join(ls, p) IN
         /\ js \in Seq(LineSet) /\ js # <<>>
         /\ FlattenSeq(js) = FlattenSeq(ls) \o p
         /\ EndsLine(Last(js)) <=> EndsLine(p)
         /\ Len(ls) \in Nat
         /\ Len(js) = IF ls = <<>> \/ EndsLine(Last(ls)) THEN Len(ls) + 1 ELSE Len(ls)
         /\ \A i \in 1..(Len(ls) - 1) : js[i] = ls[i]
<1> DEFINE js == Join(ls, p)
<1>1. ls \in Seq(Seq(Chars)) /\ p \in Seq(Chars) /\ p # <<>> /\ Len(ls) \in Nat
  BY LineSetInSeq, LenProperties DEF LineSet
<1>2. CASE ls = <<>> \/ EndsLine(Last(ls))
  <2>1. js = Append(ls, p)
    BY <1>2 DEF Join
  <2>2. /\ js \in Seq(LineSet) /\ js # <<>> /\ Last(js) = p /\ Len(js) = Len(ls) + 1
        /\ \A i \in 1..Len(ls) : js[i] = ls[i]
    BY <2>1, AppendParts, AppendProperties
  <2>3. FlattenSeq(js) = FlattenSeq(ls) \o p
    BY <1>1, <2>1, FlattenAppend
  <2> HIDE DEF js
  <2>4. \A i \in 1..(Len(ls) - 1) : i \in 1..Len(ls)
    BY <1>1
  <2> QED BY <1>1, <1>2, <2>2, <2>3, <2>4 DEF js
<1>3. CASE ~(ls = <<>> \/ EndsLine(Last(ls)))
  <2> DEFINE front == Front(ls)
             last == Last(ls)
             both == last \o p
  <2>1. js = Append(front, both)
    BY <1>3 DEF Join
  <2>2. /\ front \in Seq(LineSet) /\ last \in LineSet /\ ls = Append(front, last)
        /\ Len(front) = Len(ls) - 1 /\ Len(ls) \in Nat \ {0}
        /\ \A i \in 1..(Len(ls) - 1) : front[i] = ls[i]
    BY <1>3, FrontAndLast
  <2>3. front \in Seq(Seq(Chars)) /\ last \in Seq(Chars)
    BY <2>2, LineSetInSeq
  <2>4. ~EndsLine(last)
    BY <1>3
  <2> HIDE DEF front, last
  <2> DEFINE n == Len(last)
             k == Len(p)
  <2>5. /\ both \in Seq(Chars) /\ Len(both) = n + k
        /\ \A i \in 1..(n + k) : both[i] = IF i <= n THEN last[i] ELSE p[i - n]
    BY <1>1, <2>3, ConcatProperties
  <2> HIDE DEF both
  <2>6. n \in Nat /\ k \in Nat \ {0}
    BY <1>1, <2>3, LenProperties, EmptySeq
  <2>7. \A i \in 1..n : last[i] # NL
    <3>1. last # <<>> /\ \A i \in 1..(n - 1) : last[i] # NL
      BY <2>2 DEF LineSet
    <3>2. last[n] # NL
      BY <2>4, <3>1 DEF EndsLine, Last
    <3>3. \A i \in 1..n : i = n \/ i \in 1..(n - 1)
      BY <2>6
    <3> QED BY <3>1, <3>2, <3>3
  <2>8. \A i \in 1..(k - 1) : p[i] # NL
    BY DEF LineSet
  <2> HIDE DEF n, k
  <2>9. ASSUME NEW i \in 1..(Len(both) - 1) PROVE both[i] # NL
    <3>1. i \in 1..(n + k) /\ (i <= n => i \in 1..n) /\ (~(i <= n) => i - n \in 1..(k - 1))
      BY <2>5, <2>6
    <3> QED BY <2>5, <2>7, <2>8, <3>1
  <2>10. both # <<>>
    <3>1. Len(both) # 0
      BY <2>5, <2>6
    <3> QED BY <3>1, EmptySeq
  <2>11. both \in LineSet
    BY <2>5, <2>9, <2>10 DEF LineSet
  <2>12. EndsLine(both) <=> EndsLine(p)
    <3>1. n + k \in 1..(n + k) /\ ~(n + k <= n) /\ (n + k) - n = k
      BY <2>6
    <3>2. both[n + k] = p[k]
      BY <2>5, <3>1
    <3> QED BY <1>1, <2>5, <2>10, <3>2 DEF EndsLine, Last, k
  <2>13. /\ js \in Seq(LineSet) /\ js # <<>> /\ Last(js) = both /\ Len(js) = Len(front) + 1
    BY <2>1, <2>2, <2>11, AppendParts
  <2>14. \A i \in 1..(Len(ls) - 1) : js[i] = ls[i]
    <3>1. \A i \in 1..Len(front) : js[i] = front[i]
      BY <2>1, <2>2, <2>11, AppendProperties
    <3> HIDE DEF js
    <3> QED BY <2>2, <3>1
  <2>15. FlattenSeq(js) = FlattenSeq(ls) \o p
    <3>1. FlattenSeq(js) = FlattenSeq(front) \o both
      BY <2>1, <2>3, <2>5, FlattenAppend
    <3>2. FlattenSeq(ls) = FlattenSeq(front) \o last
      BY <2>2, <2>3, FlattenAppend
    <3> DEFINE start == FlattenSeq(front)
    <3>3. start \in Seq(Chars)
      BY <2>3, FlattenType
    <3> HIDE DEF start
    <3>4. (start \o last) \o p = start \o (last \o p)
      BY <1>1, <2>3, <3>3, ConcatAssociative
    <3> QED BY <3>1, <3>2, <3>4 DEF start, both
  <2> HIDE DEF js
  <2> QED BY <1>1, <1>3, <2>2, <2>12, <2>13, <2>14, <2>15 DEF js
<1> QED
  BY <1>2, <1>3

\* The lines, cut after the limit with the marker if there are more.
CutAt(cap, ls, limit) ==
  /\ Len(ls) <= limit =>
       /\ cap.truncated = FALSE
       /\ cap.output = FlattenSeq(ls)
       /\ cap.lines = IF ls = <<>> \/ EndsLine(Last(ls)) THEN Len(ls) ELSE Len(ls) - 1
  /\ ~(Len(ls) <= limit) =>
       /\ cap.truncated = TRUE
       /\ cap.output = Append(FlattenSeq(SubSeq(ls, 1, limit)), Marker)

\* The first lines of two texts are the same if the texts agree so far.
LEMMA SameFirst ==
  ASSUME NEW S, NEW ls \in Seq(S), NEW js \in Seq(S), NEW n \in Nat,
         n <= Len(ls), n <= Len(js), \A i \in 1..n : js[i] = ls[i]
  PROVE  SubSeq(js, 1, n) = SubSeq(ls, 1, n)
<1> DEFINE a == SubSeq(js, 1, n)
           b == SubSeq(ls, 1, n)
<1>1. Len(ls) \in Nat /\ Len(js) \in Nat /\ (IF 1 <= n THEN n - 1 + 1 ELSE 0) = n
  BY LenProperties
<1>2. (\A i \in 1..n : ls[i] \in S) /\ (\A i \in 1..n : js[i] \in S)
  BY <1>1, ElementOfSeq
<1>3. /\ a \in Seq(S) /\ Len(a) = n
      /\ \A i \in 1..(n - 1 + 1) : a[i] = js[1 + i - 1]
  <2>1. Len(a) = IF 1 <= n THEN n - 1 + 1 ELSE 0
    BY <1>2, SubSeqProperties
  <2>2. a \in Seq(S) /\ \A i \in 1..(n - 1 + 1) : a[i] = js[1 + i - 1]
    BY <1>2, SubSeqProperties
  <2> HIDE DEF a
  <2> QED BY <1>1, <2>1, <2>2
<1>4. /\ b \in Seq(S) /\ Len(b) = n
      /\ \A i \in 1..(n - 1 + 1) : b[i] = ls[1 + i - 1]
  <2>1. Len(b) = IF 1 <= n THEN n - 1 + 1 ELSE 0
    BY <1>2, SubSeqProperties
  <2>2. b \in Seq(S) /\ \A i \in 1..(n - 1 + 1) : b[i] = ls[1 + i - 1]
    BY <1>2, SubSeqProperties
  <2> HIDE DEF b
  <2> QED BY <1>1, <2>1, <2>2
<1> HIDE DEF a, b
<1>5. \A i \in 1..n : a[i] = b[i]
  <2>1. \A i \in 1..n : i \in 1..(n - 1 + 1) /\ 1 + i - 1 = i
    OBVIOUS
  <2> QED BY <1>3, <1>4, <2>1
<1>6. a = b
  BY <1>3, <1>4, <1>5, SeqEqual
<1> QED
  BY <1>6 DEF a, b

LEMMA LimitIsNat ==
  ASSUME NEW opts \in Options
  PROVE  /\ opts.maxLines \in Int /\ Limit(opts) \in Nat
         /\ \A n \in Nat : n < opts.maxLines <=> n < Limit(opts)
<1>1. opts.maxLines \in Int
  BY ExecutorAssumption DEF Options
<1> QED
  BY <1>1 DEF Limit

\* A piece that the pattern does not leave out is one more of the lines.
LEMMA TurnCuts ==
  ASSUME NEW opts \in Options, NEW cap \in Captures, NEW ls \in Seq(LineSet),
         CutAt(cap, ls, Limit(opts)), NEW p \in LineSet, Occurs(opts.pattern, p)
  PROVE  CutAt(TakePiece(cap, opts, p), Join(ls, p), Limit(opts))
<1> DEFINE next == TakePiece(cap, opts, p)
           js == Join(ls, p)
           m == Limit(opts)
           ended == ls = <<>> \/ EndsLine(Last(ls))
<1>1. /\ js \in Seq(LineSet) /\ js # <<>> /\ FlattenSeq(js) = FlattenSeq(ls) \o p
      /\ (EndsLine(Last(js)) <=> EndsLine(p)) /\ Len(ls) \in Nat
      /\ Len(js) = (IF ended THEN Len(ls) + 1 ELSE Len(ls))
      /\ \A i \in 1..(Len(ls) - 1) : js[i] = ls[i]
  BY JoinedLines
<1>2. m \in Nat /\ cap.lines \in Nat /\ (cap.lines < opts.maxLines <=> cap.lines < m)
  BY LimitIsNat DEF Captures
<1> HIDE DEF js, m, next
<1>3. /\ Len(ls) <= m =>
           /\ cap.truncated = FALSE /\ cap.output = FlattenSeq(ls)
           /\ cap.lines = IF ended THEN Len(ls) ELSE Len(ls) - 1
      /\ ~(Len(ls) <= m) =>
           cap.truncated = TRUE /\ cap.output = Append(FlattenSeq(SubSeq(ls, 1, m)), Marker)
  BY DEF CutAt, m
<1> DEFINE endedNow == js = <<>> \/ EndsLine(Last(js))
<1>4. SUFFICES
        /\ Len(js) <= m =>
             /\ next.truncated = FALSE /\ next.output = FlattenSeq(js)
             /\ next.lines = IF endedNow THEN Len(js) ELSE Len(js) - 1
        /\ ~(Len(js) <= m) =>
             next.truncated = TRUE /\ next.output = Append(FlattenSeq(SubSeq(js, 1, m)), Marker)
  BY DEF CutAt, js, m, next
<1>5. endedNow <=> EndsLine(p)
  BY <1>1
<1> HIDE DEF ended, endedNow
<1>6. CASE ~(Len(ls) <= m)
  <2>1. next = cap
    BY <1>3, <1>6, OneTurn DEF Ignored, next
  <2>2. ~(Len(js) <= m) /\ m <= Len(js) /\ m <= Len(ls) /\ \A i \in 1..m : i \in 1..(Len(ls) - 1)
    BY <1>1, <1>2, <1>6
  <2>3. SubSeq(js, 1, m) = SubSeq(ls, 1, m)
    BY <1>1, <1>2, <2>2, SameFirst
  <2> QED BY <1>3, <1>6, <2>1, <2>2, <2>3
<1>7. CASE Len(ls) <= m
  <2>1. ~Ignored(cap, opts, p)
    BY <1>3, <1>7 DEF Ignored
  <2>2. CASE cap.lines < m
    <3>1. Taken(cap, next, p)
      BY <1>2, <2>1, <2>2, OneTurn DEF next
    <3>2. Len(js) <= m
      BY <1>1, <1>2, <1>3, <1>7, <2>2
    <3>3. next.truncated = FALSE /\ next.output = FlattenSeq(js)
      BY <1>1, <1>3, <1>7, <3>1 DEF Taken
    <3>4. next.lines = cap.lines + (IF EndsLine(p) THEN 1 ELSE 0)
      BY <3>1 DEF Taken
    <3>5. Len(js) = cap.lines + 1
      BY <1>1, <1>3, <1>7
    <3>6. next.lines = IF endedNow THEN Len(js) ELSE Len(js) - 1
      BY <1>2, <1>5, <3>4, <3>5
    <3> QED BY <3>2, <3>3, <3>6
  <2>3. CASE ~(cap.lines < m)
    <3>1. Truncated(cap, next)
      BY <1>2, <2>1, <2>3, OneTurn DEF next
    <3>2. ended /\ Len(ls) = m /\ ~(Len(js) <= m)
      BY <1>1, <1>2, <1>3, <1>7, <2>3
    <3>3. SubSeq(js, 1, m) = ls
      <4>1. js = Append(ls, p)
        BY <3>2 DEF js, Join, ended
      <4>2. /\ \A i \in 1..m : js[i] = ls[i]
        BY <3>2, <4>1, AppendProperties
      <4>3. m <= Len(js) /\ m <= Len(ls)
        BY <1>1, <1>2, <3>2
      <4>4. SubSeq(js, 1, m) = SubSeq(ls, 1, m)
        BY <1>1, <1>2, <4>2, <4>3, SameFirst
      <4> QED BY <3>2, <4>4, SubSeqFull
    <3> QED BY <1>3, <1>7, <3>1, <3>2, <3>3 DEF Truncated
  <2> QED BY <2>2, <2>3
<1> QED
  BY <1>6, <1>7

LEMMA EmptyPatternOccurs ==
  ASSUME NEW p \in LineSet
  PROVE  Occurs(<<>>, p)
<1>1. Len(p) \in Nat /\ Len(<<>>) = 0
  BY LenProperties, EmptySeq DEF LineSet
<1>2. SubSeq(p, 0 + 1, 0 + 0) = <<>>
  BY SubSeqEmpty
<1>3. 0 \in 0..(Len(p) - Len(<<>>)) /\ SubSeq(p, 0 + 1, 0 + Len(<<>>)) = <<>>
  BY <1>1, <1>2
<1> QED
  BY <1>3 DEF Occurs

LEMMA NothingIsCut ==
  ASSUME NEW limit \in Nat
  PROVE  CutAt(Empty, <<>>, limit)
<1>1. Empty.output = <<>> /\ Empty.lines = 0 /\ Empty.truncated = FALSE
  BY DEF Empty
<1>2. Len(<<>>) = 0
  BY EmptySeq
<1> QED
  BY <1>1, <1>2, FlattenEmpty DEF CutAt

\* Without a pattern a chunk is so much more text, wherever it is cut.
LEMMA ChunkCuts ==
  ASSUME NEW opts \in Options, opts.pattern = <<>>, NEW cap \in Captures,
         NEW text \in Seq(Chars), CutAt(cap, Pieces(text), Limit(opts)),
         NEW chunk \in Seq(Chars)
  PROVE  CutAt(TakeChunk(cap, opts, chunk), Pieces(text \o chunk), Limit(opts))
<1> DEFINE Reads(ps) ==
             CutAt(TakePieces(cap, opts, ps), Pieces(text \o FlattenSeq(ps)), Limit(opts))
           T == {ps \in Seq(LineSet) : Reads(ps)}
<1>1. <<>> \in T
  <2>1. text \o FlattenSeq(<<>>) = text
    BY FlattenEmpty, ConcatEmptySeq
  <2>2. <<>> \in Seq(LineSet) /\ TakePieces(cap, opts, <<>>) = cap
    BY EmptySeq, TakeNone
  <2> QED BY <2>1, <2>2
<1>2. ASSUME NEW ps \in Seq(LineSet), NEW p \in LineSet, ps \in T PROVE Append(ps, p) \in T
  <2> DEFINE so == FlattenSeq(ps)
             taken == TakePieces(cap, opts, ps)
             whole == text \o so
  <2>1. ps \in Seq(Seq(Chars)) /\ p \in Seq(Chars)
    BY LineSetInSeq
  <2>2. so \in Seq(Chars) /\ FlattenSeq(Append(ps, p)) = so \o p
    BY <2>1, FlattenType, FlattenAppend
  <2> HIDE DEF so
  <2>3. whole \in Seq(Chars) /\ text \o (so \o p) = whole \o p
    <3>1. p \in Seq(Chars)
      BY <2>1
    <3>2. \A a \in Seq(Chars) : text \o a \in Seq(Chars)
      BY ConcatProperties
    <3>3. \A a \in Seq(Chars) : (text \o a) \o p = text \o (a \o p)
      BY <3>1, ConcatAssociative, SMTT(30)
    <3> QED BY <2>2, <3>2, <3>3
  <2>4. CutAt(taken, Pieces(whole), Limit(opts))
    BY <1>2 DEF so
  <2> HIDE DEF whole
  <2>5. taken \in Captures /\ TakePieces(cap, opts, Append(ps, p)) = TakePiece(taken, opts, p)
    BY TakeOneMorePiece
  <2> HIDE DEF taken
  <2>6. Pieces(whole) \in Seq(LineSet) /\ Pieces(whole \o p) = Join(Pieces(whole), p)
    BY <2>3, PiecesByPiece, PiecesAreLines DEF LinesOf
  <2>7. Occurs(opts.pattern, p)
    BY EmptyPatternOccurs
  <2>8. CutAt(TakePiece(taken, opts, p), Join(Pieces(whole), p), Limit(opts))
    BY <2>4, <2>5, <2>6, <2>7, TurnCuts
  <2>9. Reads(Append(ps, p))
    BY <2>2, <2>3, <2>5, <2>6, <2>8
  <2>10. Append(ps, p) \in Seq(LineSet)
    BY AppendParts
  <2> HIDE DEF Reads
  <2> QED BY <2>9, <2>10
<1>3. \A ps \in Seq(LineSet) : ps \in T
  <2> HIDE DEF T
  <2> QED BY <1>1, <1>2, SeqInduction
<1>4. Pieces(chunk) \in Seq(LineSet) /\ FlattenSeq(Pieces(chunk)) = chunk
  BY PiecesAreLines DEF LinesOf
<1>5. Reads(Pieces(chunk))
  <2> HIDE DEF Reads
  <2> QED BY <1>3, <1>4
<1> QED
  BY <1>4, <1>5 DEF TakeChunk

-----------------------------------------------------------------------------
(* The lines the pattern selects *)

Complete == {p \in LineSet : EndsLine(p)}

LEMMA CompleteInSeq ==
  /\ Seq(Complete) \subseteq Seq(LineSet)
  /\ \A ps \in Seq(LineSet) :
       (\A i \in 1..Len(ps) : EndsLine(ps[i])) <=> ps \in Seq(Complete)
<1>1. \A ps \in Seq(Complete) : ps \in Seq(LineSet) /\ \A i \in 1..Len(ps) : EndsLine(ps[i])
  <2> SUFFICES ASSUME NEW ps \in Seq(Complete)
               PROVE  ps \in Seq(LineSet) /\ \A i \in 1..Len(ps) : EndsLine(ps[i])
    OBVIOUS
  <2>1. Complete \subseteq LineSet
    BY DEF Complete
  <2>2. \A i \in 1..Len(ps) : ps[i] \in Complete
    BY ElementOfSeq
  <2> QED BY <2>1, <2>2, SeqMonotonic DEF Complete
<1>2. ASSUME NEW ps \in Seq(LineSet), \A i \in 1..Len(ps) : EndsLine(ps[i])
      PROVE  ps \in Seq(Complete)
  <2>1. Len(ps) \in Nat /\ ps \in [1..Len(ps) -> LineSet]
    BY LenProperties
  <2>2. \A i \in 1..Len(ps) : ps[i] \in Complete
    BY <1>2, <2>1 DEF Complete
  <2>3. ps \in [1..Len(ps) -> Complete]
    BY <2>1, <2>2
  <2> QED BY <2>1, <2>3, SeqDef
<1> QED
  BY <1>1, <1>2

\* The lines of a text that ends one, or is empty, and of what comes after it.
LEMMA PiecesOfWhole ==
  ASSUME NEW text \in Seq(Chars), Pieces(text) \in Seq(Complete),
         NEW chunk \in Seq(Chars), EndsLine(chunk)
  PROVE  /\ Pieces(chunk) \in Seq(Complete)
         /\ Pieces(text \o chunk) = Pieces(text) \o Pieces(chunk)
<1> DEFINE ls == Pieces(text)
           cs == Pieces(chunk)
<1>1. cs \in Seq(Complete) /\ FlattenSeq(cs) = chunk
  <2>1. /\ cs \in Seq(LineSet) /\ FlattenSeq(cs) = chunk
        /\ \A i \in 1..(Len(cs) - 1) : EndsLine(cs[i])
        /\ cs # <<>> /\ EndsLine(cs[Len(cs)])
    BY PiecesAreLines DEF LinesOf, Last
  <2>2. Len(cs) \in Nat
    BY <2>1, LenProperties
  <2>3. \A i \in 1..Len(cs) : i = Len(cs) \/ i \in 1..(Len(cs) - 1)
    BY <2>2
  <2> HIDE DEF cs
  <2> QED BY <2>1, <2>3, CompleteInSeq
<1> DEFINE Reads(ps) == Pieces(text \o FlattenSeq(ps)) = ls \o ps
           T == {ps \in Seq(Complete) : Reads(ps)}
<1> HIDE DEF ls, cs
<1>2. ls \in Seq(Complete)
  BY DEF ls
<1>3. <<>> \in T
  <2>1. text \o FlattenSeq(<<>>) = text
    BY FlattenEmpty, ConcatEmptySeq
  <2>2. <<>> \in Seq(Complete) /\ ls \o <<>> = ls
    BY <1>2, EmptySeq, ConcatEmptySeq
  <2> QED BY <2>1, <2>2 DEF ls
<1>4. ASSUME NEW ps \in Seq(Complete), NEW p \in Complete, ps \in T PROVE Append(ps, p) \in T
  <2> DEFINE so == FlattenSeq(ps)
             whole == text \o so
  <2>1. ps \in Seq(Seq(Chars)) /\ p \in Seq(Chars) /\ p \in LineSet
    BY LineSetInSeq, CompleteInSeq DEF Complete
  <2>2. so \in Seq(Chars) /\ FlattenSeq(Append(ps, p)) = so \o p
    BY <2>1, FlattenType, FlattenAppend
  <2> HIDE DEF so
  <2>3. whole \in Seq(Chars) /\ text \o (so \o p) = whole \o p
    <3>1. p \in Seq(Chars)
      BY <2>1
    <3>2. \A a \in Seq(Chars) : text \o a \in Seq(Chars)
      BY ConcatProperties
    <3>3. \A a \in Seq(Chars) : (text \o a) \o p = text \o (a \o p)
      BY <3>1, ConcatAssociative, SMTT(30)
    <3> QED BY <2>2, <3>2, <3>3
  <2>4. Pieces(whole) = ls \o ps
    BY <1>4 DEF so
  <2> HIDE DEF whole
  <2>5. Pieces(whole \o p) = Join(ls \o ps, p)
    BY <2>1, <2>3, <2>4, PiecesByPiece
  <2> DEFINE both == ls \o ps
  <2>6. both \in Seq(Complete)
    BY <1>2, ConcatProperties
  <2>7. Append(both, p) = ls \o Append(ps, p)
    <3>1. \A a \in Seq(Complete) : a \o Append(ps, p) = Append(a \o ps, p)
      BY ConcatAppend
    <3> QED BY <1>2, <3>1
  <2> HIDE DEF both
  <2>8. both = <<>> \/ EndsLine(Last(both))
    <3>1. both # <<>> => Last(both) \in Complete
      BY <2>6, FrontAndLast
    <3> QED BY <3>1 DEF Complete
  <2>9. Join(both, p) = Append(both, p)
    BY <2>8 DEF Join
  <2>10. Reads(Append(ps, p))
    BY <2>2, <2>3, <2>5, <2>7, <2>9 DEF both
  <2>11. Append(ps, p) \in Seq(Complete)
    BY AppendParts
  <2> HIDE DEF Reads
  <2> QED BY <2>10, <2>11
<1>5. \A ps \in Seq(Complete) : ps \in T
  <2> HIDE DEF T
  <2> QED BY <1>3, <1>4, SeqInduction
<1>6. Reads(cs)
  <2> HIDE DEF Reads
  <2> QED BY <1>1, <1>5
<1> QED
  BY <1>1, <1>6 DEF ls, cs

LEMMA SelectOneMore ==
  ASSUME NEW pattern, NEW ls \in Seq(Complete), NEW p \in Complete
  PROVE  /\ Select(pattern, ls) \in Seq(Complete)
         /\ Select(pattern, Append(ls, p)) =
              IF Occurs(pattern, p) THEN Append(Select(pattern, ls), p) ELSE Select(pattern, ls)
<1> DEFINE S == Complete
           A == Seq(S)
           Kept(l) == IF Occurs(pattern, l) THEN <<l>> ELSE <<>>
           Each(s) == [i \in 1..Len(s) |-> Kept(s[i])]
           longer == Append(ls, p)
           so == FlattenSeq(Each(ls))
<1>1. \A s : Select(pattern, s) = FlattenSeq(Each(s))
  BY DEF Select
<1>2. /\ longer \in Seq(S) /\ Len(longer) = Len(ls) + 1 /\ Len(ls) \in Nat
      /\ (\A i \in 1..Len(ls) : longer[i] = ls[i]) /\ longer[Len(ls) + 1] = p
  BY AppendProperties, LenProperties
<1>3. \A l \in S : Kept(l) \in A
  OBVIOUS
<1>4. \A i \in 1..Len(ls) : ls[i] \in S
  BY ElementOfSeq
<1> HIDE DEF S, A, Kept, longer
<1>5. Each(ls) \in Seq(A) /\ Len(Each(ls)) = Len(ls)
  BY <1>2, <1>3, <1>4
<1>6. Kept(p) \in A
  <2>1. p \in S
    BY DEF S
  <2> QED BY <1>3, <2>1
<1>7. Each(longer) = Append(Each(ls), Kept(p))
  <2> DEFINE a == Each(longer)
             b == Append(Each(ls), Kept(p))
  <2>1. /\ b \in Seq(A) /\ Len(b) = Len(ls) + 1
        /\ (\A i \in 1..Len(ls) : b[i] = Each(ls)[i]) /\ b[Len(ls) + 1] = Kept(p)
    BY <1>5, <1>6, AppendProperties
  <2>2. \A i \in 1..Len(ls) : Each(ls)[i] = Kept(ls[i])
    OBVIOUS
  <2>3. /\ Len(a) = Len(ls) + 1 /\ \A i \in 1..(Len(ls) + 1) : a[i] = Kept(longer[i])
    BY <1>2
  <2>4. a \in Seq(A)
    <3>1. \A i \in 1..Len(longer) : longer[i] \in S
      BY <1>2, ElementOfSeq
    <3> QED BY <1>2, <1>3, <3>1
  <2> HIDE DEF a, b
  <2>5. ASSUME NEW i \in 1..Len(a) PROVE a[i] = b[i]
    <3>1. i \in 1..(Len(ls) + 1) /\ (i \in 1..Len(ls) \/ i = Len(ls) + 1)
      BY <1>2, <2>3
    <3>2. CASE i \in 1..Len(ls)
      BY <1>2, <2>1, <2>2, <2>3, <3>1, <3>2
    <3>3. CASE i = Len(ls) + 1
      BY <1>2, <2>1, <2>3, <3>1, <3>3
    <3> QED BY <3>1, <3>2, <3>3
  <2>6. a = b
    BY <2>1, <2>3, <2>4, <2>5, SeqEqual
  <2> QED BY <2>6 DEF a, b
<1> HIDE DEF Each
<1>8. so \in A
  BY <1>5, FlattenType DEF A
<1>9. FlattenSeq(Append(Each(ls), Kept(p))) = so \o Kept(p)
  BY <1>5, <1>6, FlattenAppend DEF A
<1> HIDE DEF so
<1>10. so \o Kept(p) = IF Occurs(pattern, p) THEN Append(so, p) ELSE so
  <2>1. so \in Seq(S) /\ p \in S
    BY <1>8 DEF A, S
  <2>2. so \o <<p>> = Append(so, p) /\ so \o <<>> = so
    BY <2>1, AppendIsConcat, ConcatEmptySeq
  <2> QED BY <2>2 DEF Kept
<1> QED
  BY <1>1, <1>7, <1>8, <1>9, <1>10 DEF so, A, S, longer

\* When every chunk ends a line, what is captured are the lines selected.
LEMMA ChunkSelects ==
  ASSUME NEW opts \in Options, NEW cap \in Captures,
         NEW text \in Seq(Chars), Pieces(text) \in Seq(Complete),
         CutAt(cap, Select(opts.pattern, Pieces(text)), Limit(opts)),
         NEW chunk \in Seq(Chars), EndsLine(chunk)
  PROVE  /\ Pieces(text \o chunk) \in Seq(Complete)
         /\ CutAt(TakeChunk(cap, opts, chunk),
                  Select(opts.pattern, Pieces(text \o chunk)), Limit(opts))
<1> DEFINE ls == Pieces(text)
           cs == Pieces(chunk)
           Reads(ps) ==
             CutAt(TakePieces(cap, opts, ps), Select(opts.pattern, ls \o ps), Limit(opts))
           T == {ps \in Seq(Complete) : Reads(ps)}
<1>1. cs \in Seq(Complete) /\ Pieces(text \o chunk) = ls \o cs
  BY PiecesOfWhole
<1>2. ls \in Seq(Complete) /\ CutAt(cap, Select(opts.pattern, ls), Limit(opts))
  OBVIOUS
<1> HIDE DEF ls, cs
<1>3. <<>> \in T
  <2>1. <<>> \in Seq(Complete) /\ ls \o <<>> = ls
    BY <1>2, EmptySeq, ConcatEmptySeq
  <2> QED BY <1>2, <2>1, TakeNone
<1>4. ASSUME NEW ps \in Seq(Complete), NEW p \in Complete, ps \in T PROVE Append(ps, p) \in T
  <2> DEFINE both == ls \o ps
             sel == Select(opts.pattern, both)
             taken == TakePieces(cap, opts, ps)
  <2>1. both \in Seq(Complete) /\ ls \o Append(ps, p) = Append(both, p)
    BY <1>2, ConcatProperties, ConcatAppend
  <2>2. ps \in Seq(LineSet) /\ p \in LineSet
    BY CompleteInSeq DEF Complete
  <2>3. taken \in Captures /\ TakePieces(cap, opts, Append(ps, p)) = TakePiece(taken, opts, p)
    BY <2>2, TakeOneMorePiece
  <2>4. CutAt(taken, sel, Limit(opts))
    BY <1>4
  <2> HIDE DEF both, taken
  <2>5. /\ sel \in Seq(Complete)
        /\ Select(opts.pattern, Append(both, p)) =
             IF Occurs(opts.pattern, p) THEN Append(sel, p) ELSE sel
    BY <2>1, SelectOneMore
  <2> HIDE DEF sel
  <2>6. CASE Occurs(opts.pattern, p)
    <3>1. sel \in Seq(LineSet)
      BY <2>5, CompleteInSeq
    <3>2. CutAt(TakePiece(taken, opts, p), Join(sel, p), Limit(opts))
      BY <2>2, <2>3, <2>4, <2>6, <3>1, TurnCuts
    <3>3. sel = <<>> \/ EndsLine(Last(sel))
      <4>1. sel # <<>> => Last(sel) \in Complete
        BY <2>5, FrontAndLast
      <4> QED BY <4>1 DEF Complete
    <3>4. Join(sel, p) = Append(sel, p)
      BY <3>3 DEF Join
    <3>5. Reads(Append(ps, p))
      BY <2>1, <2>3, <2>5, <2>6, <3>2, <3>4
    <3> HIDE DEF Reads
    <3> QED BY <3>5, AppendParts
  <2>7. CASE ~Occurs(opts.pattern, p)
    <3>1. TakePiece(taken, opts, p) = taken
      BY <2>2, <2>3, <2>7, OneTurn DEF Ignored
    <3>2. Reads(Append(ps, p))
      BY <2>1, <2>3, <2>4, <2>5, <2>7, <3>1
    <3> HIDE DEF Reads
    <3> QED BY <3>2, AppendParts
  <2> QED BY <2>6, <2>7
<1>5. \A ps \in Seq(Complete) : ps \in T
  <2> HIDE DEF T
  <2> QED BY <1>3, <1>4, SeqInduction
<1>6. Reads(cs)
  <2> HIDE DEF Reads
  <2> QED BY <1>1, <1>5
<1>7. ls \o cs \in Seq(Complete)
  BY <1>1, <1>2, ConcatProperties
<1> QED
  BY <1>1, <1>6, <1>7 DEF TakeChunk, cs

-----------------------------------------------------------------------------
(* Execute *)

\* What has been captured of what has been printed.
CaptureInv ==
  /\ Bounded(capture, options)
  /\ options.pattern = <<>> => CutAt(capture, Lines, Limit(options))
  /\ WholeChunks => Lines \in Seq(Complete) /\ CutAt(capture, Selected, Limit(options))

\* What is returned is what has been captured, or nothing.
ResultInv ==
  IF pc \in {"return", "done"}
  THEN result.output = capture.output \/ result = Failed("setup")
  ELSE result.output = <<>>

ExecInv == TypeOK /\ RefsInv /\ CaptureInv /\ ResultInv

LEMMA ChunkTyped == \A chunk \in Chunks : chunk \in Seq(Chars)
<1> SUFFICES ASSUME NEW chunk \in Chunks PROVE chunk \in Seq(Chars)
  OBVIOUS
<1>1. \A n \in 0..MaxChunk : n \in Nat
  BY ExecutorAssumption
<1>2. PICK n \in Nat : chunk \in [1..n -> Chars]
  BY <1>1 DEF Chunks, BoundedSeq, SeqOf
<1> QED
  BY <1>2, SeqDef

LEMMA ExecInitial == Init => ExecInv
<1> SUFFICES ASSUME Init PROVE ExecInv
  OBVIOUS
<1>1. /\ pc = "create" /\ options \in Options /\ capture = Empty /\ refs = 0
      /\ installed = FALSE /\ printed = <<>> /\ result = NoResult
  BY DEF Init, Options
<1>2. Bounded(Empty, options) /\ Empty \in Captures
  BY <1>1, NothingIsBounded
<1>3. NoResult \in Results /\ NoResult.output = <<>>
  <2>1. <<>> \in Seq(Chars \cup {Marker})
    BY EmptySeq
  <2> QED BY <2>1 DEF NoResult, Results
<1>4. TypeOK
  <2>1. <<>> \in Seq(Seq(Chars))
    BY EmptySeq
  <2>2. pc \in {"create", "install", "execute", "restore", "release", "return", "done"}
    BY <1>1
  <2>3. options \in [pattern : Patterns, maxLines : Limits]
    BY <1>1 DEF Options
  <2>4. refs \in 0..2
    BY <1>1
  <2>5. installed \in BOOLEAN
    BY <1>1
  <2>6. capture \in Captures /\ printed \in Seq(Seq(Chars)) /\ result \in Results
    BY <1>1, <1>2, <1>3, <2>1
  <2> QED BY <2>2, <2>3, <2>4, <2>5, <2>6 DEF TypeOK
<1>5. RefsInv
  BY <1>1 DEF RefsInv
<1>6. Lines = <<>>
  BY <1>1, FlattenEmpty, NoPieces DEF Lines, Text
<1>7. Selected = <<>>
  <2>1. Len(<<>>) = 0
    BY EmptySeq
  <2> DEFINE each == [i \in 1..Len(<<>>) |->
                        IF Occurs(options.pattern, <<>>[i]) THEN <<(<<>>[i])>> ELSE <<>>]
  <2>2. each = <<>>
    BY <2>1
  <2>3. Select(options.pattern, <<>>) = FlattenSeq(each)
    BY DEF Select
  <2> HIDE DEF each
  <2> QED BY <1>6, <2>2, <2>3, FlattenEmpty DEF Selected
<1>8. CutAt(Empty, <<>>, Limit(options)) /\ <<>> \in Seq(Complete)
  BY <1>1, LimitIsNat, NothingIsCut, EmptySeq
<1>9. CaptureInv
  BY <1>1, <1>2, <1>6, <1>7, <1>8 DEF CaptureInv
<1>10. ResultInv
  BY <1>1, <1>3 DEF ResultInv
<1> QED
  BY <1>4, <1>5, <1>9, <1>10 DEF ExecInv

LEMMA OutputKeeps ==
  ASSUME ExecInv, RefsInv', NEW chunk \in Chunks, Output(chunk)
  PROVE  ExecInv'
<1>1. /\ pc = "execute" /\ printed' = Append(printed, chunk)
      /\ capture' = TakeChunk(capture, options, chunk)
      /\ pc' = pc /\ options' = options /\ installed' = installed /\ result' = result
      /\ refs' = refs
  BY DEF Output
<1>2. /\ options \in Options /\ capture \in Captures /\ printed \in Seq(Seq(Chars))
      /\ chunk \in Seq(Chars)
  BY ChunkTyped DEF ExecInv, TypeOK, Options
<1>3. Text \in Seq(Chars) /\ Text' = Text \o chunk
  <2>1. FlattenSeq(Append(printed, chunk)) = FlattenSeq(printed) \o chunk
    BY <1>2, FlattenAppend
  <2>2. FlattenSeq(printed) \in Seq(Chars)
    BY <1>2, FlattenType
  <2> QED BY <1>1, <2>1, <2>2 DEF Text
<1>4. Bounded(capture', options)
  BY <1>1, <1>2, ChunkBounded DEF ExecInv, CaptureInv
<1>5. TypeOK'
  <2>1. printed' \in Seq(Seq(Chars))
    <3> DEFINE A == Seq(Chars)
    <3>1. printed \in Seq(A) /\ chunk \in A
      BY <1>2
    <3> HIDE DEF A
    <3>2. Append(printed, chunk) \in Seq(A)
      BY <3>1, AppendProperties
    <3> QED BY <1>1, <3>2 DEF A
  <2>2. capture' \in Captures
    BY <1>4 DEF Bounded
  <2> QED BY <1>1, <2>1, <2>2 DEF ExecInv, TypeOK
<1>6. ASSUME options.pattern = <<>> PROVE CutAt(capture', Pieces(Text \o chunk), Limit(options))
  <2>1. CutAt(capture, Pieces(Text), Limit(options))
    BY <1>6 DEF ExecInv, CaptureInv, Lines
  <2> QED BY <1>1, <1>2, <1>3, <1>6, <2>1, ChunkCuts
<1>7. ASSUME WholeChunks'
      PROVE  /\ Pieces(Text \o chunk) \in Seq(Complete)
             /\ CutAt(capture', Select(options.pattern, Pieces(Text \o chunk)), Limit(options))
  <2>1. WholeChunks /\ EndsLine(chunk)
    <3> DEFINE all == Append(printed, chunk)
               A == Seq(Chars)
    <3>1. printed \in Seq(A) /\ chunk \in A
      BY <1>2
    <3>2. \A i \in 1..Len(all) : EndsLine(all[i])
      BY <1>1, <1>7 DEF WholeChunks
    <3> HIDE DEF A
    <3>3. /\ Len(all) = Len(printed) + 1 /\ all[Len(printed) + 1] = chunk
          /\ Len(printed) \in Nat /\ \A i \in 1..Len(printed) : all[i] = printed[i]
      BY <3>1, AppendProperties, LenProperties
    <3> HIDE DEF all
    <3>4. Len(printed) + 1 \in 1..Len(all) /\ \A i \in 1..Len(printed) : i \in 1..Len(all)
      BY <3>3
    <3> QED BY <3>2, <3>3, <3>4 DEF WholeChunks
  <2>2. Pieces(Text) \in Seq(Complete) /\ CutAt(capture, Select(options.pattern, Pieces(Text)), Limit(options))
    BY <2>1 DEF ExecInv, CaptureInv, Lines, Selected
  <2> QED BY <1>1, <1>2, <1>3, <2>1, <2>2, ChunkSelects
<1>8. CaptureInv'
  <2>1. Lines' = Pieces(Text \o chunk)
    BY <1>3 DEF Lines
  <2>2. Selected' = Select(options.pattern, Pieces(Text \o chunk))
    BY <1>1, <2>1 DEF Selected
  <2> QED BY <1>1, <1>4, <1>6, <1>7, <2>1, <2>2 DEF CaptureInv, Limit
<1>9. ResultInv'
  BY <1>1 DEF ExecInv, ResultInv
<1> QED
  BY <1>5, <1>8, <1>9 DEF ExecInv

\* The other steps leave alone what has been captured and printed.
LEMMA CaptureKept ==
  ASSUME CaptureInv, UNCHANGED <<options, capture, printed>>
  PROVE  CaptureInv'
<1>1. options' = options /\ capture' = capture /\ printed' = printed
  OBVIOUS
<1> QED
  BY <1>1 DEF CaptureInv, Lines, Selected, Text, WholeChunks, Limit, Bounded, CutAt

LEMMA ExecStep == ExecInv /\ [Next]_vars => ExecInv'
<1> SUFFICES ASSUME ExecInv, [Next]_vars PROVE ExecInv'
  OBVIOUS
<1>1. RefsInv' /\ refs' \in 0..2 /\ installed' \in BOOLEAN
  <2>1. RefsInv'
    BY RefsStep DEF ExecInv
  <2>2. /\ refs' = 0 \/ refs' = 1 \/ refs' = 2
        /\ installed' = TRUE \/ installed' = FALSE
    BY <2>1, Zenon DEF RefsInv
  <2>3. refs' \in 0..2
    BY <2>2
  <2>4. installed' \in BOOLEAN
    BY <2>2, Zenon
  <2> QED BY <2>1, <2>3, <2>4
<1>2. \A e \in {"setup", "execute"} : Failed(e) \in Results /\ Failed(e).output = <<>>
  <2>1. <<>> \in Seq(Chars \cup {Marker})
    BY EmptySeq
  <2> QED BY <2>1 DEF Failed, Results
<1>3. result \in Results /\ capture \in Captures
  BY DEF ExecInv, TypeOK
<1>4. ASSUME UNCHANGED <<options, capture, printed>>,
             pc' \in {"create", "install", "execute", "restore", "release", "return", "done"},
             result' \in Results, ResultInv'
      PROVE  ExecInv'
  <2>1. CaptureInv'
    BY <1>4, CaptureKept DEF ExecInv
  <2>2. TypeOK'
    BY <1>1, <1>4 DEF ExecInv, TypeOK
  <2> QED BY <1>1, <1>4, <2>1, <2>2 DEF ExecInv
<1>5. CASE CreateFails
  <2>1. result' \in Results /\ ResultInv'
    BY <1>2, <1>5 DEF CreateFails, Moves, ResultInv
  <2> QED BY <1>4, <1>5, <2>1 DEF CreateFails, Moves
<1>6. CASE Create
  <2>1. result' \in Results /\ ResultInv'
    BY <1>3, <1>6 DEF Create, Moves, ResultInv, ExecInv
  <2> QED BY <1>4, <1>6, <2>1 DEF Create, Moves
<1>7. CASE Install
  <2>1. result' \in Results /\ ResultInv'
    BY <1>3, <1>7 DEF Install, Moves, ResultInv, ExecInv
  <2> QED BY <1>4, <1>7, <2>1 DEF Install, Moves
<1>8. CASE InstallFails
  <2>1. result' \in Results /\ ResultInv'
    BY <1>2, <1>8 DEF InstallFails, Moves, ResultInv
  <2> QED BY <1>4, <1>8, <2>1 DEF InstallFails, Moves
<1>9. ASSUME NEW chunk \in Chunks, Output(chunk) PROVE ExecInv'
  BY <1>1, <1>9, OutputKeeps
<1>10. CASE Executed
  <2>1. PICK ok \in BOOLEAN :
          result' = [success |-> ok, output |-> <<>>, error |-> IF ok THEN "" ELSE "execute"]
    BY <1>10 DEF Executed
  <2>2. <<>> \in Seq(Chars \cup {Marker})
    BY EmptySeq
  <2>3. result' \in Results /\ result'.output = <<>>
    <3>1. CASE ok = TRUE
      BY <2>1, <2>2, <3>1 DEF Results
    <3>2. CASE ok = FALSE
      BY <2>1, <2>2, <3>2 DEF Results
    <3> QED BY <3>1, <3>2
  <2>4. ResultInv'
    BY <1>10, <2>3 DEF Executed, Moves, ResultInv
  <2> QED BY <1>4, <1>10, <2>3, <2>4 DEF Executed, Moves
<1>11. CASE Restore
  <2>1. result' \in Results /\ ResultInv'
    BY <1>3, <1>11 DEF Restore, Moves, ResultInv, ExecInv
  <2> QED BY <1>4, <1>11, <2>1 DEF Restore, Moves
<1>12. CASE TakeAndRelease
  <2>1. result' \in Results /\ result'.output = capture.output
    BY <1>3, <1>12 DEF TakeAndRelease, Results, Captures
  <2>2. ResultInv'
    BY <1>12, <2>1 DEF TakeAndRelease, Moves, ResultInv
  <2> QED BY <1>4, <1>12, <2>1, <2>2 DEF TakeAndRelease, Moves
<1>13. CASE Return
  <2>1. result' \in Results /\ ResultInv'
    BY <1>3, <1>13 DEF Return, Moves, ResultInv, ExecInv
  <2> QED BY <1>4, <1>13, <2>1 DEF Return, Moves
<1>14. CASE UNCHANGED vars
  <2>1. result' \in Results /\ ResultInv'
    BY <1>3, <1>14 DEF vars, ResultInv, ExecInv
  <2>2. pc' \in {"create", "install", "execute", "restore", "release", "return", "done"}
    BY <1>14 DEF vars, ExecInv, TypeOK
  <2> QED BY <1>4, <1>14, <2>1, <2>2 DEF vars
<1> QED
  BY <1>5, <1>6, <1>7, <1>8, <1>9, <1>10, <1>11, <1>12, <1>13, <1>14 DEF Next

LEMMA ExecInvariant == Spec => []ExecInv
BY ExecInitial, ExecStep, PTL DEF Spec

-----------------------------------------------------------------------------
(* What Execute returns *)

\* The captured text, its count of lines and the references stay in range.
THEOREM ExecutorTypeCorrect == Spec => []TypeOK
<1>1. ExecInv => TypeOK
  BY DEF ExecInv
<1> QED
  BY <1>1, ExecInvariant, PTL

\* With any pattern, and however the engine cuts the text into chunks, what
\* is returned has at most max_lines lines, and the marker at its end only.
THEOREM ReturnedIsBounded == Spec => []OutputBounded
<1>1. ExecInv => OutputBounded
  <2> SUFFICES ASSUME ExecInv PROVE OutputBounded
    OBVIOUS
  <2>1. options \in Options /\ Bounded(capture, options) /\ Bounded(Empty, options)
    BY NothingIsBounded DEF ExecInv, TypeOK, CaptureInv, Options
  <2>2. result.output = capture.output \/ result.output = Empty.output
    BY DEF ExecInv, ResultInv, Failed, Empty
  <2>3. ASSUME NEW cap, Bounded(cap, options), result.output = cap.output PROVE OutputBounded
    BY <2>3 DEF OutputBounded, Bounded, Limit
  <2> QED BY <2>1, <2>2, <2>3
<1> QED
  BY <1>1, ExecInvariant, PTL

\* Without a pattern, wherever the engine cuts the text, the client gets the
\* text, or its first max_lines lines and the marker if there was more.
THEOREM FirstLinesReturned == Spec => []PrefixReturned
<1>1. ExecInv => PrefixReturned
  <2> SUFFICES ASSUME ExecInv, pc = "done", result.error # "setup", options.pattern = <<>>
               PROVE  result.output = IF Len(Lines) <= Limit(options) THEN Text
                                      ELSE Append(FirstLines(Limit(options)), Marker)
    BY DEF PrefixReturned, Limit
  <2>1. result.output = capture.output
    BY DEF ExecInv, ResultInv, Failed
  <2>2. CutAt(capture, Lines, Limit(options))
    BY DEF ExecInv, CaptureInv
  <2>3. FlattenSeq(Lines) = Text
    <3>1. printed \in Seq(Seq(Chars))
      BY DEF ExecInv, TypeOK
    <3>2. Text \in Seq(Chars)
      BY <3>1, FlattenType DEF Text
    <3> QED BY <3>2, PiecesAreLines DEF LinesOf, Lines
  <2> QED BY <2>1, <2>2, <2>3 DEF CutAt, FirstLines
<1> QED
  BY <1>1, ExecInvariant, PTL

\* When every chunk ends a line, the client gets the first max_lines of the
\* lines that contain the pattern, and the marker if there were more.
THEOREM SelectedLinesReturned == Spec => []FilterOfWholeLines
<1>1. ExecInv => FilterOfWholeLines
  <2> SUFFICES ASSUME ExecInv, pc = "done", result.error # "setup", WholeChunks
               PROVE  result.output =
                        IF Len(Selected) <= Limit(options) THEN FlattenSeq(Selected)
                        ELSE Append(FlattenSeq(SubSeq(Selected, 1, Limit(options))), Marker)
    BY DEF FilterOfWholeLines, Limit
  <2>1. result.output = capture.output
    BY DEF ExecInv, ResultInv, Failed
  <2>2. CutAt(capture, Selected, Limit(options))
    BY DEF ExecInv, CaptureInv
  <2> QED BY <2>1, <2>2 DEF CutAt
<1> QED
  BY <1>1, ExecInvariant, PTL
=============================================================================
