---------------------------- MODULE SequenceLemmas ----------------------------
(***************************************************************************)
(* Induction over the natural numbers as a fact about sets, the existence  *)
(* of functions defined by recursion over 0..n, and what FlattenSeq does.  *)
(* Loops of the code are recursive functions in the models; these lemmas   *)
(* say what such a function computes, for every input.                     *)
(***************************************************************************)
EXTENDS Integers, Sequences, SequencesExt, SequenceTheorems,
        WellFoundedInduction, TLAPS

-----------------------------------------------------------------------------
(* Induction *)

\* A set that holds 0 and the successor of each of its numbers holds them all.
LEMMA SetInduction ==
  ASSUME NEW S, 0 \in S, \A n \in Nat : n \in S => n + 1 \in S
  PROVE  \A n \in Nat : n \in S
<1> DEFINE T == {n \in Nat : n \notin S}
           R == OpToRel(<, Nat)
<1>1. SUFFICES ASSUME T # {} PROVE FALSE
  OBVIOUS
<1>2. IsWellFoundedOn(R, Nat)
  BY NatLessThanWellFounded
<1>3. T \subseteq Nat
  OBVIOUS
<1> HIDE DEF R, T
<1>4. \E x \in T : \A y \in T : ~(<<y, x>> \in R)
  BY <1>1, <1>2, <1>3, WFMin
<1>5. PICK x \in T : \A y \in T : <<y, x>> \notin R
  BY <1>4
<1>6. x \in Nat /\ x \notin S
  BY DEF T
<1>7. x # 0 /\ x - 1 \in Nat
  BY <1>6
<1>8. <<x - 1, x>> \in R
  BY <1>6, <1>7 DEF OpToRel, R
<1>9. x - 1 \in S
  BY <1>5, <1>7, <1>8 DEF T
<1>10. (x - 1) + 1 \in S
  BY <1>7, <1>9
<1> QED
  BY <1>6, <1>10

\* The same up to a bound.
LEMMA BoundedInduction ==
  ASSUME NEW m \in Nat, NEW S, 0 \in S, \A n \in 0..(m - 1) : n \in S => n + 1 \in S
  PROVE  \A n \in 0..m : n \in S
<1> DEFINE T == {n \in Nat : n <= m => n \in S}
<1>1. 0 \in T
  OBVIOUS
<1>2. ASSUME NEW n \in Nat, n \in T PROVE n + 1 \in T
  BY <1>2
<1>3. \A n \in Nat : n \in T
  <2> HIDE DEF T
  <2> QED BY <1>1, <1>2, SetInduction
<1> QED
  BY <1>3

\* A set of numbers that is not empty has a least element.
LEMMA LeastExists ==
  ASSUME NEW T \in SUBSET Nat, T # {}
  PROVE  \E x \in T : \A y \in T : x <= y
<1> DEFINE R == OpToRel(<, Nat)
<1>1. IsWellFoundedOn(R, Nat)
  BY NatLessThanWellFounded
<1> HIDE DEF R
<1>2. T \subseteq Nat
  OBVIOUS
<1>3. \E x \in T : \A y \in T : ~(<<y, x>> \in R)
  BY <1>1, <1>2, WFMin
<1>4. PICK x \in T : \A y \in T : <<y, x>> \notin R
  BY <1>3
<1>5. ASSUME NEW y \in T, ~(x <= y) PROVE FALSE
  <2>1. <<y, x>> \in R
    BY <1>2, <1>5 DEF OpToRel, R
  <2> QED BY <1>4, <2>1
<1> QED
  BY <1>5

\* One with a bound has a greatest.
LEMMA GreatestExists ==
  ASSUME NEW m \in Nat, NEW T \in SUBSET (0..m), T # {}
  PROVE  \E x \in T : \A y \in T : y <= x
<1> DEFINE U == {n \in Nat : n <= m /\ m - n \in T}
<1>1. \A y \in T : m - y \in U
  OBVIOUS
<1>2. U \in SUBSET Nat /\ U # {}
  BY <1>1
<1>3. \A u \in U : u \in Nat /\ m - u \in T
  OBVIOUS
<1> HIDE DEF U
<1>4. PICK u \in U : \A w \in U : u <= w
  BY <1>2, LeastExists
<1>5. \A y \in T : y <= m - u
  BY <1>1, <1>3, <1>4
<1> QED
  BY <1>3, <1>5

\* What holds of the empty sequence, and of a sequence with one element more,
\* holds of every sequence.
LEMMA SeqInduction ==
  ASSUME NEW S, NEW T, <<>> \in T,
         \A s \in Seq(S), e \in S : s \in T => Append(s, e) \in T
  PROVE  \A s \in Seq(S) : s \in T
<1> DEFINE N == {n \in Nat : \A s \in Seq(S) : Len(s) = n => s \in T}
<1>1. 0 \in N
  BY EmptySeq
<1>2. ASSUME NEW n \in Nat, n \in N PROVE n + 1 \in N
  <2>1. ASSUME NEW s \in Seq(S), Len(s) = n + 1 PROVE s \in T
    <3>1. s # <<>>
      BY <2>1
    <3>2. PICK t \in Seq(S), e \in S : s = Append(t, e)
      BY <3>1, SequenceEmptyOrAppend
    <3>3. Len(Append(t, e)) = Len(t) + 1 /\ Len(t) \in Nat
      BY AppendProperties, LenProperties
    <3>4. Len(t) = n
      BY <2>1, <3>2, <3>3
    <3> QED BY <1>2, <3>2, <3>4
  <2> QED BY <2>1
<1>3. \A n \in Nat : n \in N
  <2> HIDE DEF N
  <2> QED BY <1>1, <1>2, SetInduction
<1> QED
  BY <1>3, LenProperties

-----------------------------------------------------------------------------
(* Recursion *)

\* f starts with a, and each value follows from the one before it.
Steps(m, A) == [1..m -> [A -> A]]
Iterates(f, m, A, a, step) ==
  /\ f \in [0..m -> A] /\ f[0] = a
  /\ \A i \in 1..m : f[i] = step[i][f[i - 1]]

\* There is such a function, whatever the steps.
LEMMA RecursionExists ==
  ASSUME NEW m \in Nat, NEW A, NEW a \in A, NEW step \in Steps(m, A)
  PROVE  \E f : Iterates(f, m, A, a, step)
<1> DEFINE Upto(n) == \E f \in [0..n -> A] :
                        f[0] = a /\ \A i \in 1..n : f[i] = step[i][f[i - 1]]
           T == {n \in 0..m : Upto(n)}
<1> USE DEF Steps
<1>1. Upto(0)
  <2> DEFINE f == [i \in 0..0 |-> a]
  <2>1. f \in [0..0 -> A] /\ f[0] = a
    OBVIOUS
  <2>2. \A i \in 1..0 : f[i] = step[i][f[i - 1]]
    OBVIOUS
  <2> QED BY <2>1, <2>2
<1>2. ASSUME NEW n \in 0..(m - 1), Upto(n) PROVE Upto(n + 1)
  <2>1. PICK f \in [0..n -> A] : f[0] = a /\ \A i \in 1..n : f[i] = step[i][f[i - 1]]
    BY <1>2
  <2> DEFINE g == [i \in 0..(n + 1) |-> IF i <= n THEN f[i] ELSE step[n + 1][f[n]]]
  <2>2. step[n + 1] \in [A -> A] /\ f[n] \in A
    OBVIOUS
  <2>3. g \in [0..(n + 1) -> A]
    BY <2>2
  <2>4. g[0] = a
    BY <2>1
  <2>5. ASSUME NEW i \in 1..(n + 1) PROVE g[i] = step[i][g[i - 1]]
    <3>1. CASE i <= n
      BY <2>1, <3>1
    <3>2. CASE i = n + 1
      BY <3>2
    <3> QED BY <3>1, <3>2
  <2> HIDE DEF g
  <2> QED BY <2>3, <2>4, <2>5
<1> HIDE DEF Upto
<1>3. \A n \in 0..m : n \in T
  <2>1. 0 \in T
    BY <1>1
  <2>2. \A n \in 0..(m - 1) : n \in T => n + 1 \in T
    BY <1>2
  <2> HIDE DEF T
  <2> QED BY <2>1, <2>2, BoundedInduction
<1>4. Upto(m)
  BY <1>3
<1> QED
  BY <1>4 DEF Upto, Iterates

-----------------------------------------------------------------------------
(* FlattenSeq *)

\* The functions that flatten the first sequences, one more each time.
Flattening(f, ss, S) ==
  /\ f \in [1..Len(ss) -> Seq(S)]
  /\ \A i \in 1..Len(ss) : f[i] = IF i = 1 THEN ss[i] ELSE f[i - 1] \o ss[i]

LEMMA FlatteningExists ==
  ASSUME NEW S, NEW ss \in Seq(Seq(S)), ss # <<>>
  PROVE  \E f : Flattening(f, ss, S)
<1> DEFINE m == Len(ss) - 1
           step == [i \in 1..m |-> [s \in Seq(S) |-> s \o ss[i + 1]]]
           A == Seq(S)
           a == ss[1]
<1>1. Len(ss) \in Nat \ {0} /\ m \in Nat /\ \A i \in 1..Len(ss) : ss[i] \in Seq(S)
  BY EmptySeq, ElementOfSeq
<1>2. step \in Steps(m, A)
  <2>1. ASSUME NEW i \in 1..m, NEW s \in Seq(S) PROVE s \o ss[i + 1] \in Seq(S)
    BY <1>1, ConcatProperties
  <2> QED BY <2>1 DEF Steps
<1>3. ss[1] \in Seq(S)
  BY <1>1
<1>4. PICK g : Iterates(g, m, A, a, step)
  <2>1. m \in Nat /\ a \in A /\ step \in Steps(m, A)
    BY <1>1, <1>2, <1>3
  <2> HIDE DEF m, step, A, a
  <2> QED BY <2>1, RecursionExists
<1>5. /\ g \in [0..m -> Seq(S)] /\ g[0] = ss[1]
       /\ \A i \in 1..m : g[i] = step[i][g[i - 1]]
  <2> HIDE DEF m, step
  <2> QED BY <1>4 DEF Iterates
<1> DEFINE f == [i \in 1..Len(ss) |-> g[i - 1]]
<1>6. f \in [1..Len(ss) -> Seq(S)]
  BY <1>1, <1>5
<1>7. ASSUME NEW i \in 1..Len(ss)
      PROVE  f[i] = IF i = 1 THEN ss[i] ELSE f[i - 1] \o ss[i]
  <2>1. CASE i = 1
    BY <1>5, <2>1
  <2>2. CASE i # 1
    <3>1. i - 1 \in 1..m /\ f[i] = g[i - 1] /\ f[i - 1] = g[(i - 1) - 1]
      BY <1>1, <1>5, <2>2
    <3>2. g[(i - 1) - 1] \in Seq(S)
      <4>1. (i - 1) - 1 \in 0..m
        BY <1>1, <1>5, <2>2
      <4> HIDE DEF m, step, f, a, A
      <4> QED BY <1>5, <4>1
    <3>3. step[i - 1][g[(i - 1) - 1]] = g[(i - 1) - 1] \o ss[(i - 1) + 1]
      BY <3>1, <3>2
    <3>4. (i - 1) + 1 = i
      OBVIOUS
    <3> HIDE DEF step, f, m
    <3>5. g[i - 1] = step[i - 1][g[(i - 1) - 1]]
      BY <1>5, <3>1
    <3> QED BY <2>2, <3>1, <3>3, <3>4, <3>5
  <2> QED BY <2>1, <2>2
<1> HIDE DEF f
<1> QED
  BY <1>6, <1>7 DEF Flattening

\* There is only one.
LEMMA FlatteningUnique ==
  ASSUME NEW S, NEW ss \in Seq(Seq(S)), NEW f, NEW g,
         Flattening(f, ss, S), Flattening(g, ss, S)
  PROVE  f = g
<1> DEFINE T == {n \in 0..Len(ss) : n > 0 => f[n] = g[n]}
<1>1. Len(ss) \in Nat
  BY EmptySeq, LenProperties
<1>2. 0 \in T
  BY <1>1
<1>3. ASSUME NEW n \in 0..(Len(ss) - 1), n \in T PROVE n + 1 \in T
  <2>1. n + 1 \in 1..Len(ss)
    BY <1>1
  <2>2. f[n + 1] = IF n + 1 = 1 THEN ss[n + 1] ELSE f[(n + 1) - 1] \o ss[n + 1]
    BY <2>1 DEF Flattening
  <2>3. g[n + 1] = IF n + 1 = 1 THEN ss[n + 1] ELSE g[(n + 1) - 1] \o ss[n + 1]
    BY <2>1 DEF Flattening
  <2>4. n > 0 => f[(n + 1) - 1] = g[(n + 1) - 1]
    BY <1>3
  <2>5. f[n + 1] = g[n + 1]
    BY <2>2, <2>3, <2>4
  <2> QED BY <2>1, <2>5
<1> HIDE DEF T
<1>4. \A n \in 0..Len(ss) : n \in T
  BY <1>1, <1>2, <1>3, BoundedInduction
<1>5. \A n \in 1..Len(ss) : f[n] = g[n]
  BY <1>1, <1>4 DEF T
<1> QED
  BY <1>5 DEF Flattening

\* FlattenSeq is the last value of that function.
LEMMA FlattenIsFlattening ==
  ASSUME NEW S, NEW ss \in Seq(Seq(S)), ss # <<>>, NEW f, Flattening(f, ss, S)
  PROVE  FlattenSeq(ss) = f[Len(ss)]
<1> DEFINE Def(h) == h = [i \in 1..Len(ss) |-> IF i = 1 THEN ss[i] ELSE h[i - 1] \o ss[i]]
           g == CHOOSE h : Def(h)
<1>1. Len(ss) \in Nat \ {0}
  BY EmptySeq
<1>2. Def(f)
  BY DEF Flattening
<1>3. Def(g)
  <2> HIDE DEF Def
  <2> QED BY <1>2
<1>4. FlattenSeq(ss) = g[Len(ss)]
  BY <1>1 DEF FlattenSeq
<1> HIDE DEF g
<1>5. \A i \in 1..Len(ss) : g[i] = IF i = 1 THEN ss[i] ELSE g[i - 1] \o ss[i]
  BY <1>3
<1>6. g \in [1..Len(ss) -> Seq(S)]
  <2> DEFINE T == {n \in 0..Len(ss) : n > 0 => g[n] \in Seq(S)}
  <2>1. 0 \in T
    BY <1>1
  <2>2. ASSUME NEW n \in 0..(Len(ss) - 1), n \in T PROVE n + 1 \in T
    <3>1. n + 1 \in 1..Len(ss) /\ ss[n + 1] \in Seq(S)
      BY <1>1, ElementOfSeq
    <3>2. g[n + 1] = IF n + 1 = 1 THEN ss[n + 1] ELSE g[(n + 1) - 1] \o ss[n + 1]
      BY <1>5, <3>1
    <3>3. n > 0 => g[(n + 1) - 1] \in Seq(S)
      BY <2>2
    <3>4. n > 0 => g[(n + 1) - 1] \o ss[n + 1] \in Seq(S)
      BY <3>1, <3>3, ConcatProperties
    <3>5. g[n + 1] \in Seq(S)
      BY <3>1, <3>2, <3>4
    <3>6. n + 1 \in 0..Len(ss)
      BY <3>1, <1>1
    <3> QED BY <3>5, <3>6
  <2> HIDE DEF T
  <2>3. \A n \in 0..Len(ss) : n \in T
    BY <1>1, <2>1, <2>2, BoundedInduction
  <2>4. \A n \in 1..Len(ss) : g[n] \in Seq(S)
    BY <1>1, <2>3 DEF T
  <2>5. g = [i \in 1..Len(ss) |-> g[i]]
    BY <1>3
  <2> QED BY <2>4, <2>5
<1>7. Flattening(g, ss, S)
  BY <1>5, <1>6 DEF Flattening
<1>8. f = g
  BY <1>7, FlatteningUnique
<1> QED
  BY <1>4, <1>8

LEMMA FlattenEmpty == FlattenSeq(<<>>) = <<>>
BY DEF FlattenSeq

\* FlattenSeq of sequences over S is one.
LEMMA FlattenType ==
  ASSUME NEW S, NEW ss \in Seq(Seq(S))
  PROVE  FlattenSeq(ss) \in Seq(S)
<1>1. CASE ss = <<>>
  BY <1>1, FlattenEmpty, EmptySeq
<1>2. CASE ss # <<>>
  <2>1. PICK f : Flattening(f, ss, S)
    BY <1>2, FlatteningExists
  <2>2. FlattenSeq(ss) = f[Len(ss)]
    BY <1>2, <2>1, FlattenIsFlattening
  <2>3. Len(ss) \in 1..Len(ss)
    BY <1>2, EmptySeq
  <2> QED BY <2>1, <2>2, <2>3 DEF Flattening
<1> QED
  BY <1>1, <1>2

\* One sequence more.
LEMMA FlattenAppend ==
  ASSUME NEW S, NEW ss \in Seq(Seq(S)), NEW s \in Seq(S)
  PROVE  FlattenSeq(Append(ss, s)) = FlattenSeq(ss) \o s
<1> DEFINE tt == Append(ss, s)
           n == Len(ss)
           A == Seq(S)
<1>0. s \in A /\ ss \in Seq(A)
  OBVIOUS
<1>1. n \in Nat /\ tt \in Seq(Seq(S)) /\ tt # <<>> /\ Len(tt) = n + 1
      /\ tt[n + 1] = s /\ \A i \in 1..n : tt[i] = ss[i]
  <2> HIDE DEF A
  <2>1. n \in Nat
    BY <1>0, LenProperties
  <2>2. tt \in Seq(A) /\ tt # <<>> /\ Len(tt) = n + 1
        /\ tt[n + 1] = s /\ \A i \in 1..n : tt[i] = ss[i]
    BY <1>0, AppendProperties
  <2> QED BY <2>1, <2>2 DEF A
<1> HIDE DEF tt, A
<1>2. CASE ss = <<>>
  <2>1. n = 0
    BY <1>2, EmptySeq
  <2>2. PICK f : Flattening(f, tt, S)
    BY <1>1, FlatteningExists
  <2>3. FlattenSeq(tt) = f[1]
    <3>1. FlattenSeq(tt) = f[Len(tt)]
      BY <1>1, <2>2, FlattenIsFlattening
    <3> QED BY <1>1, <2>1, <3>1
  <2>4. f[1] = tt[1] /\ tt[1] = s
    BY <1>1, <2>1, <2>2 DEF Flattening
  <2>5. FlattenSeq(ss) \o s = s
    BY <1>2, FlattenEmpty, ConcatEmptySeq
  <2> QED BY <2>3, <2>4, <2>5 DEF tt
<1>3. CASE ss # <<>>
  <2>1. PICK f : Flattening(f, ss, S)
    BY <1>3, FlatteningExists
  <2>2. FlattenSeq(ss) = f[n]
    BY <1>3, <2>1, FlattenIsFlattening
  <2>3. n \in 1..n
    BY <1>3, EmptySeq
  <2> DEFINE last == f[n] \o s
             g == [i \in 1..(n + 1) |-> IF i = n + 1 THEN last ELSE f[i]]
  <2>4. last \in Seq(S)
    BY <2>1, <2>3, ConcatProperties DEF Flattening
  <2>5. \A i \in 1..n : f[i] \in Seq(S)
    BY <2>1 DEF Flattening
  <2>6. g \in [1..Len(tt) -> Seq(S)]
    <3> HIDE DEF last
    <3> QED BY <1>1, <2>4, <2>5
  <2>7. ASSUME NEW i \in 1..Len(tt)
        PROVE  g[i] = IF i = 1 THEN tt[i] ELSE g[i - 1] \o tt[i]
    <3>1. CASE i = n + 1
      <4>1. g[i] = last /\ g[i - 1] = f[n] /\ tt[i] = s /\ i # 1
        BY <1>1, <2>3, <3>1
      <4> HIDE DEF g
      <4> QED BY <4>1
    <3>2. CASE i # n + 1
      <4>1. i \in 1..n
        BY <1>1, <3>2
      <4>2. f[i] = IF i = 1 THEN ss[i] ELSE f[i - 1] \o ss[i]
        BY <2>1, <4>1 DEF Flattening
      <4>3. g[i] = f[i] /\ (i # 1 => g[i - 1] = f[i - 1]) /\ tt[i] = ss[i]
        BY <1>1, <4>1
      <4> HIDE DEF g
      <4> QED BY <4>2, <4>3
    <3> QED BY <3>1, <3>2
  <2>8. Flattening(g, tt, S)
    <3> HIDE DEF g
    <3> QED BY <2>6, <2>7 DEF Flattening
  <2>9. FlattenSeq(tt) = g[n + 1]
    BY <1>1, <2>8, FlattenIsFlattening
  <2>10. g[n + 1] = last
    BY <1>1
  <2> QED BY <2>2, <2>9, <2>10 DEF tt
<1> QED
  BY <1>2, <1>3 DEF tt

\* A single sequence.
LEMMA FlattenOne ==
  ASSUME NEW S, NEW s \in Seq(S)
  PROVE  FlattenSeq(<<s>>) = s
<1>1. <<>> \in Seq(Seq(S)) /\ Append(<<>>, s) = <<s>>
  BY EmptySeq
<1>2. FlattenSeq(Append(<<>>, s)) = FlattenSeq(<<>>) \o s
  BY <1>1, FlattenAppend
<1> QED
  BY <1>1, <1>2, FlattenEmpty, ConcatEmptySeq

\* A text is what two parts of it come to, one after the other.
LEMMA FlattenConcat ==
  ASSUME NEW S, NEW ss \in Seq(Seq(S)), NEW tt \in Seq(Seq(S))
  PROVE  FlattenSeq(ss \o tt) = FlattenSeq(ss) \o FlattenSeq(tt)
<1> DEFINE A == Seq(S)
           T == {t \in Seq(A) : FlattenSeq(ss \o t) = FlattenSeq(ss) \o FlattenSeq(t)}
<1>1. FlattenSeq(ss) \in Seq(S) /\ <<>> \in Seq(A)
  BY FlattenType, EmptySeq
<1>2. <<>> \in T
  <2>1. ss \o <<>> = ss /\ FlattenSeq(ss) \o <<>> = FlattenSeq(ss)
    BY <1>1, ConcatEmptySeq
  <2> QED BY <1>1, <2>1, FlattenEmpty
<1>3. ASSUME NEW t \in Seq(A), NEW e \in A, t \in T PROVE Append(t, e) \in T
  <2>1. e \in Seq(S) /\ t \in Seq(Seq(S))
    OBVIOUS
  <2>2. FlattenSeq(t) \in Seq(S)
    BY <2>1, FlattenType
  <2>3. FlattenSeq(Append(t, e)) = FlattenSeq(t) \o e
    BY <2>1, FlattenAppend
  <2> HIDE DEF A
  <2>4. ss \in Seq(A) /\ ss \o t \in Seq(A)
    <3>1. ss \in Seq(A)
      BY DEF A
    <3> QED BY <3>1, ConcatProperties
  <2>5. ss \o Append(t, e) = Append(ss \o t, e)
    <3>1. Append(t, e) = t \o <<e>> /\ Append(ss \o t, e) = (ss \o t) \o <<e>>
      BY <2>4, AppendIsConcat
    <3>2. <<e>> \in Seq(A)
      OBVIOUS
    <3>3. (ss \o t) \o <<e>> = ss \o (t \o <<e>>)
      BY <2>4, <3>2, ConcatAssociative
    <3> QED BY <3>1, <3>3
  <2>6. FlattenSeq(Append(ss \o t, e)) = FlattenSeq(ss \o t) \o e
    BY <2>1, <2>4, FlattenAppend DEF A
  <2>7. FlattenSeq(ss \o t) = FlattenSeq(ss) \o FlattenSeq(t)
    BY <1>3
  <2>8. (FlattenSeq(ss) \o FlattenSeq(t)) \o e = FlattenSeq(ss) \o (FlattenSeq(t) \o e)
    BY <1>1, <2>1, <2>2, ConcatAssociative
  <2>9. Append(t, e) \in Seq(A)
    BY AppendProperties
  <2> QED BY <2>3, <2>5, <2>6, <2>7, <2>8, <2>9
<1>4. \A t \in Seq(A) : t \in T
  <2> HIDE DEF T, A
  <2> QED BY <1>2, <1>3, SeqInduction
<1> QED
  BY <1>4

-----------------------------------------------------------------------------
(* Sequences seen from their end *)

LEMMA AppendParts ==
  ASSUME NEW S, NEW s \in Seq(S), NEW e \in S
  PROVE  /\ Append(s, e) \in Seq(S) /\ Append(s, e) # <<>>
         /\ Len(Append(s, e)) = Len(s) + 1 /\ Len(s) \in Nat
         /\ Front(Append(s, e)) = s /\ Last(Append(s, e)) = e
<1> DEFINE t == Append(s, e)
<1>1. /\ t \in Seq(S) /\ t # <<>> /\ Len(t) = Len(s) + 1 /\ Len(s) \in Nat
      /\ \A i \in 1..Len(s) : t[i] = s[i]
      /\ t[Len(s) + 1] = e
  BY AppendProperties, LenProperties
<1> HIDE DEF t
<1>2. Last(t) = e
  BY <1>1 DEF Last
<1>3. Front(t) = s
  <2> DEFINE f == SubSeq(t, 1, Len(t) - 1)
  <2>1. Len(t) - 1 = Len(s) /\ \A i \in 1..Len(s) : t[i] \in S
    BY <1>1, ElementOfSeq
  <2>2. /\ f \in Seq(S) /\ Len(f) = Len(s)
        /\ \A i \in 1..Len(s) : f[i] = t[1 + i - 1]
    <3>1. /\ SubSeq(t, 1, Len(s)) \in Seq(S)
          /\ Len(SubSeq(t, 1, Len(s))) = IF 1 <= Len(s) THEN Len(s) - 1 + 1 ELSE 0
          /\ \A i \in 1..(Len(s) - 1 + 1) : SubSeq(t, 1, Len(s))[i] = t[1 + i - 1]
      BY <1>1, <2>1, SubSeqProperties
    <3>2. f = SubSeq(t, 1, Len(s))
      BY <2>1
    <3>3. Len(s) - 1 + 1 = Len(s) /\ (~(1 <= Len(s)) => Len(s) = 0)
      BY <1>1
    <3> HIDE DEF f
    <3> QED BY <3>1, <3>2, <3>3
  <2> HIDE DEF f
  <2>3. \A i \in 1..Len(f) : f[i] = s[i]
    <3>1. \A i \in 1..Len(s) : 1 + i - 1 = i
      BY <1>1
    <3> QED BY <1>1, <2>2, <3>1
  <2>4. f = s
    BY <2>2, <2>3, SeqEqual
  <2> QED BY <2>4 DEF f, Front
<1> QED
  BY <1>1, <1>2, <1>3 DEF t

\* A sequence that is not empty is its front and its last element.
LEMMA FrontAndLast ==
  ASSUME NEW S, NEW s \in Seq(S), s # <<>>
  PROVE  /\ Front(s) \in Seq(S) /\ Last(s) \in S /\ s = Append(Front(s), Last(s))
         /\ Len(Front(s)) = Len(s) - 1 /\ Len(s) \in Nat \ {0}
         /\ \A i \in 1..(Len(s) - 1) : Front(s)[i] = s[i]
<1>1. PICK t \in Seq(S), e \in S : s = Append(t, e)
  BY SequenceEmptyOrAppend
<1>2. Front(s) = t /\ Last(s) = e /\ Len(s) = Len(t) + 1 /\ Len(t) \in Nat
  BY <1>1, AppendParts
<1>3. \A i \in 1..Len(t) : s[i] = t[i]
  BY <1>1, AppendProperties
<1> QED
  BY <1>1, <1>2, <1>3

LEMMA ConcatAppend ==
  ASSUME NEW S, NEW s \in Seq(S), NEW t \in Seq(S), NEW e \in S
  PROVE  s \o Append(t, e) = Append(s \o t, e)
<1>1. Append(t, e) = t \o <<e>> /\ s \o t \in Seq(S) /\ <<e>> \in Seq(S)
  BY AppendIsConcat, ConcatProperties
<1>2. Append(s \o t, e) = (s \o t) \o <<e>>
  BY <1>1, AppendIsConcat
<1>3. (s \o t) \o <<e>> = s \o (t \o <<e>>)
  BY <1>1, ConcatAssociative
<1> QED
  BY <1>1, <1>2, <1>3

-----------------------------------------------------------------------------
(* Recursion over a set whose elements have ranks *)

Agree(f, g, I, rank, i) == \A j \in I : rank[j] < rank[i] => f[j] = g[j]

\* One more step does not leave F, and at each place looks at lower ranks only.
WellRanked(step, F, I, rank) ==
  /\ \A f \in F : \E g \in F : \A i \in I : g[i] = step[i][f]
  /\ \A i \in I : \A f, g \in F : Agree(f, g, I, rank, i) => step[i][f] = step[i][g]

\* What a step at every place leaves as it is.
Solves(f, step, I) == \A i \in I : f[i] = step[i][f]

\* A function defined by such a recursion exists.
LEMMA RankedRecursion ==
  ASSUME NEW I, NEW F, NEW e \in F, NEW m \in Nat, NEW rank \in [I -> 0..m], NEW step,
         WellRanked(step, F, I, rank)
  PROVE  \E f \in F : Solves(f, step, I)
<1> DEFINE Upto(f, n) == \A i \in I : rank[i] < n => f[i] = step[i][f]
           T == {n \in Nat : \E f \in F : Upto(f, n)}
<1>1. 0 \in T
  <2>1. \A i \in I : ~(rank[i] < 0)
    OBVIOUS
  <2> QED BY <2>1
<1>2. ASSUME NEW n \in Nat, n \in T PROVE n + 1 \in T
  <2>1. PICK f \in F : Upto(f, n)
    BY <1>2
  <2>2. PICK g \in F : \A i \in I : g[i] = step[i][f]
    BY DEF WellRanked
  <2>3. ASSUME NEW i \in I, rank[i] < n + 1 PROVE g[i] = step[i][g]
    <3>1. \A j \in I : rank[j] < rank[i] => f[j] = g[j]
      <4>1. \A j \in I : rank[j] < rank[i] => rank[j] < n
        BY <2>3
      <4> QED BY <2>1, <2>2, <4>1
    <3>2. step[i][f] = step[i][g]
      BY <2>2, <3>1 DEF Agree, WellRanked
    <3> QED BY <2>2, <3>2
  <2>4. Upto(g, n + 1)
    BY <2>3
  <2> QED BY <2>2, <2>4
<1>3. m + 1 \in T
  <2> HIDE DEF T
  <2> QED BY <1>1, <1>2, SetInduction
<1>4. \A i \in I : rank[i] < m + 1
  OBVIOUS
<1> QED
  BY <1>3, <1>4 DEF Solves

\* The same for the functions from I to V, when a step gives values in V.
LEMMA RecursiveFunctionExists ==
  ASSUME NEW I, NEW V, NEW v \in V, NEW m \in Nat, NEW rank \in [I -> 0..m], NEW step,
         \A i \in I : \A f \in [I -> V] : step[i][f] \in V,
         \A i \in I : \A f, g \in [I -> V] : Agree(f, g, I, rank, i) => step[i][f] = step[i][g]
  PROVE  \E f \in [I -> V] : \A i \in I : f[i] = step[i][f]
<1> DEFINE F == [I -> V]
           none == [i \in I |-> v]
<1>1. none \in F
  OBVIOUS
<1>2. ASSUME NEW f \in F PROVE \E g \in F : \A i \in I : g[i] = step[i][f]
  <2> DEFINE g == [i \in I |-> step[i][f]]
  <2>1. g \in F /\ \A i \in I : g[i] = step[i][f]
    OBVIOUS
  <2> HIDE DEF g
  <2> QED BY <2>1
<1> HIDE DEF F, none
<1>3. WellRanked(step, F, I, rank)
  <2>1. \A i \in I : \A f, g \in F : Agree(f, g, I, rank, i) => step[i][f] = step[i][g]
    BY DEF F
  <2> QED BY <1>2, <2>1 DEF WellRanked
<1>4. \E f \in F : Solves(f, step, I)
  BY <1>1, <1>3, RankedRecursion
<1> QED
  BY <1>4 DEF Solves, F

\* It is the only one: functions that agree wherever they agree on lower ranks
\* are the same.
LEMMA RankedUnique ==
  ASSUME NEW I, NEW m \in Nat, NEW rank \in [I -> 0..m], NEW f, NEW g,
         \A i \in I : Agree(f, g, I, rank, i) => f[i] = g[i]
  PROVE  \A i \in I : f[i] = g[i]
<1> DEFINE T == {n \in Nat : \A i \in I : rank[i] < n => f[i] = g[i]}
<1>1. 0 \in T
  OBVIOUS
<1>2. ASSUME NEW n \in Nat, n \in T PROVE n + 1 \in T
  <2>1. ASSUME NEW i \in I, rank[i] < n + 1 PROVE f[i] = g[i]
    <3>1. \A j \in I : rank[j] < rank[i] => rank[j] < n
      BY <2>1
    <3> QED BY <1>2, <3>1 DEF Agree
  <2> QED BY <2>1
<1>3. m + 1 \in T
  <2> HIDE DEF T
  <2> QED BY <1>1, <1>2, SetInduction
<1>4. \A i \in I : rank[i] < m + 1
  OBVIOUS
<1> QED
  BY <1>3, <1>4

-----------------------------------------------------------------------------
(* Where the parts of a flattened sequence stand *)

Starting(place, ss, flat) ==
  /\ place \in [1..(Len(ss) + 1) -> Nat \ {0}]
  /\ place[1] = 1 /\ place[Len(ss) + 1] = Len(flat) + 1
  /\ \A i \in 1..Len(ss) : place[i + 1] = place[i] + Len(ss[i])
  /\ \A i \in 1..Len(ss) : \A j \in 1..Len(ss[i]) :
       place[i] - 1 + j <= Len(flat) /\ flat[place[i] - 1 + j] = ss[i][j]

LEMMA FlattenPlaces ==
  ASSUME NEW S, NEW ss \in Seq(Seq(S))
  PROVE  \E place : Starting(place, ss, FlattenSeq(ss))
<1> DEFINE A == Seq(S)
           T == {tt \in Seq(A) : \E place : Starting(place, tt, FlattenSeq(tt))}
<1>1. <<>> \in T
  <2> DEFINE place == [i \in 1..1 |-> 1]
  <2>1. Starting(place, <<>>, <<>>)
    BY DEF Starting
  <2>2. <<>> \in Seq(A)
    BY EmptySeq
  <2> HIDE DEF place
  <2> QED BY <2>1, <2>2, FlattenEmpty
<1>2. ASSUME NEW tt \in Seq(A), NEW s \in A, tt \in T PROVE Append(tt, s) \in T
  <2> DEFINE n == Len(tt)
             flat == FlattenSeq(tt)
             uu == Append(tt, s)
             all == flat \o s
  <2>1. PICK place : Starting(place, tt, flat)
    BY <1>2
  <2>2. flat \in Seq(S) /\ s \in Seq(S) /\ FlattenSeq(uu) = all
    BY FlattenType, FlattenAppend
  <2>3. /\ uu \in Seq(A) /\ Len(uu) = n + 1 /\ n \in Nat
        /\ \A i \in 1..n : uu[i] = tt[i]
        /\ uu[n + 1] = s
    BY AppendProperties, LenProperties
  <2>4. /\ Len(flat) \in Nat /\ Len(s) \in Nat /\ Len(all) = Len(flat) + Len(s)
        /\ \A i \in 1..Len(flat) : all[i] = flat[i]
        /\ \A i \in 1..Len(s) : all[Len(flat) + i] = s[i]
    <3>1. flat \in Seq(S) /\ s \in Seq(S)
      BY <2>2
    <3> HIDE DEF flat
    <3> QED BY <3>1, ConcatProperties, LenProperties
  <2>5. \A i \in 1..n : Len(tt[i]) \in Nat
    <3>1. \A i \in 1..n : tt[i] \in Seq(S)
      BY ElementOfSeq
    <3> QED BY <3>1, LenProperties
  <2> DEFINE longer == [i \in 1..(n + 2) |-> IF i = n + 2 THEN place[n + 1] + Len(s) ELSE place[i]]
  <2> HIDE DEF flat, uu, all, n
  <2>6. /\ place \in [1..(n + 1) -> Nat \ {0}]
        /\ place[1] = 1 /\ place[n + 1] = Len(flat) + 1
        /\ \A i \in 1..n : place[i + 1] = place[i] + Len(tt[i])
        /\ \A i \in 1..n : \A j \in 1..Len(tt[i]) :
             place[i] - 1 + j <= Len(flat) /\ flat[place[i] - 1 + j] = tt[i][j]
    BY <2>1 DEF Starting, n
  <2>7. longer \in [1..(Len(uu) + 1) -> Nat \ {0}]
    BY <2>3, <2>4, <2>6
  <2>8. longer[1] = 1 /\ longer[Len(uu) + 1] = Len(all) + 1
    BY <2>3, <2>4, <2>6
  <2>9. ASSUME NEW i \in 1..Len(uu)
        PROVE  /\ longer[i + 1] = longer[i] + Len(uu[i])
               /\ \A j \in 1..Len(uu[i]) :
                    longer[i] - 1 + j <= Len(all) /\ all[longer[i] - 1 + j] = uu[i][j]
    <3>1. CASE i = n + 1
      <4>1. longer[i] = Len(flat) + 1 /\ longer[i + 1] = Len(flat) + 1 + Len(s) /\ uu[i] = s
        BY <2>3, <2>6, <3>1
      <4> HIDE DEF longer
      <4>2. \A j \in 1..Len(s) : longer[i] - 1 + j = Len(flat) + j
        BY <2>4, <4>1
      <4> QED BY <2>4, <4>1, <4>2
    <3>2. CASE i # n + 1
      <4>1. i \in 1..n /\ i + 1 \in 1..(n + 1)
        BY <2>3, <3>2
      <4>2. longer[i] = place[i] /\ longer[i + 1] = place[i + 1] /\ uu[i] = tt[i]
        BY <2>3, <4>1
      <4> HIDE DEF longer
      <4>3. \A j \in 1..Len(tt[i]) : place[i] - 1 + j \in 1..Len(flat)
        <5>1. place[i] \in Nat \ {0}
          BY <2>3, <2>6, <4>1
        <5>2. \A j \in 1..Len(tt[i]) : place[i] - 1 + j <= Len(flat)
          BY <2>6, <4>1
        <5>3. ASSUME NEW j \in 1..Len(tt[i]) PROVE place[i] - 1 + j \in 1..Len(flat)
          <6>1. j \in Int /\ j >= 1 /\ Len(flat) \in Nat /\ place[i] - 1 + j <= Len(flat)
            BY <2>4, <5>2
          <6> HIDE DEF A, T
          <6> QED BY <5>1, <6>1
        <5> QED BY <5>3
      <4>4. \A j \in 1..Len(tt[i]) : all[place[i] - 1 + j] = tt[i][j]
        BY <2>4, <2>6, <4>1, <4>3
      <4> QED BY <2>4, <2>6, <4>1, <4>2, <4>3, <4>4
    <3> QED BY <3>1, <3>2
  <2> HIDE DEF longer
  <2>10. Starting(longer, uu, all)
    BY <2>7, <2>8, <2>9 DEF Starting
  <2> QED BY <2>2, <2>3, <2>10 DEF uu
<1>3. \A tt \in Seq(A) : tt \in T
  <2> HIDE DEF A, T
  <2> QED BY <1>1, <1>2, SeqInduction
<1> QED
  BY <1>3
=============================================================================
