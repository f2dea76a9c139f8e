----------------------------- MODULE BridgeProofs -----------------------------
(***************************************************************************)
(* The order of the bridge's answers and commands, for any number of       *)
(* lines.                                                                  *)
(***************************************************************************)
EXTENDS Bridge, TLAPS

-----------------------------------------------------------------------------
(* The inductive invariant *)

AllBelow(s, n) == \A i \in 1..Len(s) : s[i] < n
AllBefore(s, t) == \A i \in 1..Len(s), j \in 1..Len(t) : s[i] < t[j]

\* What has run and what has been answered comes before what waits.
OrderInv ==
  /\ Increasing(queue)
  /\ Increasing(executed) /\ AllBefore(executed, queue)
  /\ Increasing(stdout) /\ AllBefore(stdout, queue)

\* No line after the current one is anywhere, nor is the current one before
\* it is posted, or answered before its answer is read.
PlaceInv ==
  /\ AllBelow(queue, current + 1) /\ AllBelow(executed, current + 1)
  /\ AllBelow(stdout, current + 1)
  /\ pc = "post" => AllBelow(queue, current) /\ AllBelow(executed, current)
  /\ pc # "read" => /\ AllBelow(stdout, current)
                    /\ current \in Numbers /\ current \notin abandoned
  /\ \A n \in abandoned : n <= current

\* Only the connection the bridge waits on is not abandoned; once it has its
\* answer nothing is left behind it.
WaitInv ==
  /\ \A j \in 1..Len(queue) :
       queue[j] \in abandoned \/ (pc = "wait" /\ response = 0 /\ queue[j] = current)
  /\ pc = "wait" /\ response # 0 =>
       /\ queue = <<>>
       /\ response = 200 => stdin[current] = "command" /\ Contains(executed, current)

AnsweredInv ==
  \A i \in 1..Len(stdout) : stdin[stdout[i]] = "command" /\ Contains(executed, stdout[i])

IInv == TypeOK /\ OrderInv /\ PlaceInv /\ WaitInv /\ AnsweredInv

-----------------------------------------------------------------------------
(* Sequences *)

\* Appending a number above all others keeps a sequence increasing.
LEMMA IncreasingAppend ==
  ASSUME NEW s \in Seq(Numbers), NEW n \in Numbers, Increasing(s), AllBelow(s, n)
  PROVE  Increasing(Append(s, n))
  BY DEF Increasing, AllBelow, Numbers

\* What a sequence holds after something is appended.
LEMMA AppendHolds ==
  ASSUME NEW s \in Seq(Numbers), NEW n \in Numbers
  PROVE  /\ Append(s, n) \in Seq(Numbers)
         /\ \A i \in 1..Len(Append(s, n)) :
              Append(s, n)[i] = n \/ (i \in 1..Len(s) /\ Append(s, n)[i] = s[i])
         /\ Contains(Append(s, n), n)
         /\ \A x : Contains(s, x) => Contains(Append(s, n), x)
<1>1. Append(s, n)[Len(s) + 1] = n /\ Len(s) + 1 \in 1..Len(Append(s, n))
  OBVIOUS
<1>2. \A i \in 1..Len(s) : Append(s, n)[i] = s[i] /\ i \in 1..Len(Append(s, n))
  OBVIOUS
<1>3. \A i \in 1..Len(Append(s, n)) :
         Append(s, n)[i] = n \/ (i \in 1..Len(s) /\ Append(s, n)[i] = s[i])
  OBVIOUS
<1>4. Append(s, n) \in Seq(Numbers)
  OBVIOUS
<1> QED BY <1>1, <1>2, <1>3, <1>4 DEF Contains

\* The head of an increasing sequence comes before its tail.
LEMMA HeadFirst ==
  ASSUME NEW s \in Seq(Numbers), s # <<>>, Increasing(s)
  PROVE  /\ Head(s) \in Numbers /\ Tail(s) \in Seq(Numbers)
         /\ Increasing(Tail(s))
         /\ Head(s) = s[1] /\ 1 \in 1..Len(s)
         /\ \A j \in 1..Len(Tail(s)) :
              /\ j + 1 \in 1..Len(s) /\ Tail(s)[j] = s[j + 1]
              /\ Head(s) < Tail(s)[j]
<1>1. /\ Head(s) \in Numbers /\ Tail(s) \in Seq(Numbers) /\ Head(s) = s[1] /\ 1 \in 1..Len(s)
      /\ \A j \in 1..Len(Tail(s)) : j + 1 \in 1..Len(s) /\ Tail(s)[j] = s[j + 1]
  OBVIOUS
<1>2. \A i, j \in 1..Len(Tail(s)) : i < j => i + 1 < j + 1
  OBVIOUS
<1>3. \A j \in 1..Len(Tail(s)) : 1 < j + 1
  OBVIOUS
<1> QED BY <1>1, <1>2, <1>3 DEF Increasing

-----------------------------------------------------------------------------
(* The invariant holds *)

\* The invariant holds before the first line.
LEMMA InitHolds ==
  ASSUME Init PROVE IInv
  BY MaxLinesAssumption
     DEF Init, IInv, TypeOK, OrderInv, PlaceInv, WaitInv, AnsweredInv,
         Increasing, AllBefore, AllBelow, Numbers, Kinds

\* One step per action; TypeOK first, as the others need what it says.
LEMMA StepHolds ==
  ASSUME IInv, [Next]_vars PROVE IInv'
<1> USE DEF IInv
<1>t. /\ queue \in Seq(Numbers) /\ executed \in Seq(Numbers) /\ stdout \in Seq(Numbers)
      /\ current \in Nat /\ abandoned \subseteq Numbers /\ Numbers \subseteq Nat
      /\ \A k \in 1..Len(queue) : queue[k] \in Nat
      /\ \A k \in 1..Len(executed) : executed[k] \in Nat
      /\ \A k \in 1..Len(stdout) : stdout[k] \in Nat
  <2>1. Numbers \subseteq Nat
    BY MaxLinesAssumption DEF Numbers
  <2>2. /\ queue \in Seq(Numbers) /\ executed \in Seq(Numbers) /\ stdout \in Seq(Numbers)
        /\ current \in Nat /\ abandoned \subseteq Numbers
    BY <2>1 DEF TypeOK, Numbers
  <2>3. ASSUME NEW s \in Seq(Numbers), NEW k \in 1..Len(s) PROVE s[k] \in Nat
    <3>1. s[k] \in Numbers
      OBVIOUS
    <3> QED BY <2>1, <3>1
  <2> QED BY <2>1, <2>2, <2>3
<1>1. CASE UNCHANGED vars
  BY <1>1 DEF vars, TypeOK, OrderInv, PlaceInv, WaitInv, AnsweredInv
<1>2. ASSUME NEW kind \in Kinds, Write(kind) PROVE IInv'
  <2>1. TypeOK'
    <3>1. stdin' \in Seq(Kinds) /\ Len(stdin') = Len(stdin) + 1
      BY <1>2 DEF Write, TypeOK
    <3>2. Len(stdin') <= MaxLines /\ current \in 0..Len(stdin')
      BY <1>2, <3>1, MaxLinesAssumption DEF Write, TypeOK
    <3> QED BY <1>2, <3>1, <3>2 DEF Write, TypeOK
  <2>2. \A i \in 1..Len(stdin) : stdin'[i] = stdin[i]
    BY <1>2 DEF Write, TypeOK
  <2>3. (OrderInv /\ PlaceInv)'
    BY <1>2 DEF Write, OrderInv, PlaceInv
  <2>4. WaitInv'
    BY <1>2, <2>2 DEF Write, WaitInv, PlaceInv, TypeOK, Numbers
  <2>5. AnsweredInv'
    <3>1. \A k \in 1..Len(stdout) : stdout[k] \in 1..Len(stdin)
      <4>1. \A k \in 1..Len(stdout) : stdout[k] \in Numbers /\ stdout[k] < current + 1
        BY <1>t DEF PlaceInv, AllBelow
      <4>2. current <= Len(stdin) /\ Len(stdin) \in Nat
        BY DEF TypeOK
      <4> QED BY <4>1, <4>2, <1>t DEF Numbers
    <3> QED BY <1>2, <2>2, <3>1 DEF Write, AnsweredInv
  <2> QED BY <2>1, <2>3, <2>4, <2>5
<1>3. CASE ReadLine
  <2>1. TypeOK'
    BY <1>3 DEF ReadLine, Moves, TypeOK
  <2>2. /\ pc = "read" /\ pc' \in {"read", "post"} /\ current' = current + 1
        /\ current \in Nat /\ current' \in Numbers
        /\ UNCHANGED <<stdin, queue, abandoned, response, executed, stdout>>
    BY <1>3, MaxLinesAssumption DEF ReadLine, Moves, TypeOK, Numbers
  <2>3. OrderInv' /\ AnsweredInv' /\ WaitInv'
    BY <2>2 DEF OrderInv, AnsweredInv, WaitInv
  <2>4. PlaceInv'
    <3>1. \A n \in Nat : n < current + 1 => n < current' /\ n < current' + 1
      BY <2>2, <1>t
    <3>2. \A n \in abandoned : n <= current' /\ n # current'
      BY <2>2, <1>t DEF PlaceInv
    <3> QED BY <2>2, <1>t, <3>1, <3>2 DEF PlaceInv, AllBelow
  <2> QED BY <2>1, <2>3, <2>4
<1>4. CASE Connect
  <2>1. /\ pc = "post" /\ pc' = "wait" /\ response' = 0 /\ current \in Numbers
        /\ queue' = Append(queue, current)
        /\ UNCHANGED <<stdin, current, abandoned, executed, stdout>>
    BY <1>4 DEF Connect, Moves, PlaceInv
  <2>2. TypeOK'
    BY <2>1 DEF TypeOK
  <2>3. \A k \in 1..Len(queue') :
          queue'[k] = current \/ (k \in 1..Len(queue) /\ queue'[k] = queue[k])
    BY <2>1, <1>t, AppendHolds
  <2>4. Increasing(queue')
    <3>1. Increasing(queue) /\ AllBelow(queue, current)
      BY <2>1 DEF PlaceInv, OrderInv
    <3> QED BY <2>1, <3>1, <1>t, IncreasingAppend
  <2>5. OrderInv'
    BY <2>1, <2>3, <2>4, <1>t DEF OrderInv, AllBefore, PlaceInv, AllBelow
  <2>6. PlaceInv'
    <3>1. AllBelow(stdout, current) /\ current \notin abandoned /\ current < current + 1
      BY <2>1, <1>t
         DEF PlaceInv, AllBelow
    <3>2. AllBelow(queue', current + 1)
      BY <2>3, <3>1 DEF PlaceInv, AllBelow
    <3> QED BY <2>1, <3>1, <3>2 DEF PlaceInv
  <2>7. WaitInv' /\ AnsweredInv'
    BY <2>1, <2>3 DEF WaitInv, AnsweredInv
  <2> QED BY <2>2, <2>5, <2>6, <2>7
<1>5. CASE ConnectFails
  <2>1. /\ pc = "post" /\ pc' = "read"
        /\ UNCHANGED <<stdin, current, queue, abandoned, response, executed, stdout>>
    BY <1>5 DEF ConnectFails, Moves
  <2> QED BY <2>1 DEF TypeOK, OrderInv, PlaceInv, WaitInv, AnsweredInv
<1>6. CASE TimesOut
  <2>1. /\ pc = "wait" /\ pc' = "read" /\ abandoned' = abandoned \cup {current}
        /\ current \in Numbers
        /\ UNCHANGED <<stdin, current, queue, response, executed, stdout>>
    BY <1>6 DEF TimesOut, Moves, PlaceInv
  <2>2. TypeOK'
    BY <2>1 DEF TypeOK
  <2>3. OrderInv' /\ AnsweredInv'
    BY <2>1 DEF OrderInv, AnsweredInv
  <2>4. PlaceInv'
    BY <2>1 DEF PlaceInv, Numbers
  <2>5. WaitInv'
    BY <2>1 DEF WaitInv
  <2> QED BY <2>2, <2>3, <2>4, <2>5
<1>7. CASE ReadResponse
  <2>1. /\ pc = "wait" /\ pc' = "read" /\ response # 0 /\ current \in Numbers
        /\ stdout' = IF response = 200 THEN Append(stdout, current) ELSE stdout
        /\ queue = <<>>
        /\ UNCHANGED <<stdin, current, queue, abandoned, response, executed>>
    BY <1>7 DEF ReadResponse, Moves, PlaceInv, WaitInv
  <2>2. TypeOK'
    BY <2>1 DEF TypeOK
  <2>3. \A k \in 1..Len(stdout') :
          \/ stdout'[k] = current /\ response = 200
          \/ k \in 1..Len(stdout) /\ stdout'[k] = stdout[k]
    BY <2>1, <1>t, AppendHolds
  <2>4. Increasing(stdout')
    <3>1. Increasing(stdout) /\ AllBelow(stdout, current)
      BY <2>1 DEF PlaceInv, OrderInv
    <3> QED BY <2>1, <3>1, <1>t, IncreasingAppend
  <2>5. OrderInv'
    BY <2>1, <2>4 DEF OrderInv, AllBefore
  <2>6. PlaceInv'
    <3>1. AllBelow(stdout', current + 1)
      BY <2>1, <2>3, <1>t DEF PlaceInv, AllBelow
    <3> QED BY <2>1, <3>1 DEF PlaceInv
  <2>7. WaitInv' /\ AnsweredInv'
    BY <2>1, <2>3 DEF WaitInv, AnsweredInv
  <2> QED BY <2>2, <2>5, <2>6, <2>7
<1>8. CASE ReadFails
  <2>1. /\ pc = "wait" /\ pc' = "read" /\ queue = <<>>
        /\ UNCHANGED <<stdin, current, queue, abandoned, response, executed, stdout>>
    BY <1>8 DEF ReadFails, Moves, WaitInv
  <2> QED BY <2>1 DEF TypeOK, OrderInv, PlaceInv, WaitInv, AnsweredInv
<1>9. CASE Serve
  <2> DEFINE i == Head(queue)
  <2>1. /\ queue # <<>> /\ queue' = Tail(queue)
        /\ UNCHANGED <<stdin, current, pc, abandoned, stdout>>
        /\ response' = IF i \in abandoned THEN response ELSE StatusOf(stdin[i])
        /\ executed' \in {executed, Append(executed, i)}
        /\ i \notin abandoned /\ stdin[i] = "command" => executed' = Append(executed, i)
    BY <1>9 DEF Serve
  <2>2. /\ i \in Numbers /\ Tail(queue) \in Seq(Numbers) /\ Increasing(Tail(queue))
        /\ i = queue[1] /\ 1 \in 1..Len(queue)
        /\ \A j \in 1..Len(Tail(queue)) : /\ j + 1 \in 1..Len(queue)
                                          /\ Tail(queue)[j] = queue[j + 1]
                                          /\ i < Tail(queue)[j]
    <3>1. Increasing(queue) /\ queue # <<>>
      BY <2>1 DEF OrderInv
    <3> QED BY <3>1, <1>t, HeadFirst
  <2>3. /\ executed' \in Seq(Numbers)
        /\ \A x : Contains(executed, x) => Contains(executed', x)
        /\ executed' = Append(executed, i) => Contains(executed', i)
        /\ \A k \in 1..Len(executed') :
             executed'[k] = i \/ (k \in 1..Len(executed) /\ executed'[k] = executed[k])
    <3>1. CASE executed' = executed /\ executed' # Append(executed, i)
      BY <3>1, <1>t
    <3>2. CASE executed' = Append(executed, i)
      BY <3>2, <2>2, <1>t, AppendHolds
    <3> QED BY <3>1, <3>2, <2>1
  <2>4. Increasing(executed')
    <3>1. Increasing(executed) /\ AllBelow(executed, i)
      BY <2>2 DEF OrderInv, AllBefore, AllBelow
    <3>2. Increasing(Append(executed, i))
      BY <3>1, <2>2, <1>t, IncreasingAppend
    <3> QED BY <2>1, <3>1, <3>2
  <2>5. TypeOK'
    BY <2>1, <2>2, <2>3 DEF TypeOK, StatusOf
  <2>6. OrderInv'
    BY <2>1, <2>2, <2>3, <2>4 DEF OrderInv, AllBefore
  <2>7. i <= current /\ (pc = "post" => i < current)
    BY <2>2, <1>t DEF PlaceInv, AllBelow
  <2>8. PlaceInv'
    BY <2>1, <2>2, <2>3, <2>7 DEF PlaceInv, AllBelow
  <2>10. AnsweredInv'
    BY <2>1, <2>3 DEF AnsweredInv
  <2>11. CASE i \in abandoned
    <3>1. response' = response
      BY <2>1, <2>11
    <3> QED BY <2>1, <2>2, <2>5, <2>6, <2>8, <2>3, <2>10, <3>1 DEF WaitInv
  <2>12. CASE i \notin abandoned
    <3>1. pc = "wait" /\ response = 0 /\ i = current
      BY <2>2, <2>12 DEF WaitInv
    <3>2. queue' = <<>>
      <4>1. \A j \in 1..Len(Tail(queue)) : FALSE
        BY <2>2, <3>1, <1>t DEF PlaceInv, AllBelow
      <4>2. Len(Tail(queue)) \in Nat
        BY <2>2
      <4>3. Len(Tail(queue)) = 0
        BY <4>1, <4>2
      <4> QED BY <4>3, <2>1, <2>2
    <3>3. response' = 200 => stdin[i] = "command"
      BY <2>1, <2>12 DEF StatusOf
    <3>4. response' = 200 => Contains(executed', i)
      BY <3>3, <2>1, <2>3, <2>12
    <3>5. WaitInv'
      BY <3>1, <3>2, <3>3, <3>4, <2>1 DEF WaitInv
    <3> QED BY <2>5, <2>6, <2>8, <2>10, <3>5
  <2> QED BY <2>11, <2>12
<1> QED BY <1>1, <1>2, <1>3, <1>4, <1>5, <1>6, <1>7, <1>8, <1>9 DEF Next, BridgeStep

\* The invariant above holds of every state.
THEOREM Invariance == Spec => []IInv
<1>1. Init => IInv
  BY InitHolds
<1>2. IInv /\ [Next]_vars => IInv'
  BY StepHolds
<1> QED BY <1>1, <1>2, PTL DEF Spec

-----------------------------------------------------------------------------
(* What follows *)

\* Every variable of the bridge and its surroundings keeps its type.
THEOREM TypeCorrect == Spec => []TypeOK
<1>1. IInv => TypeOK
  BY DEF IInv
<1> QED BY <1>1, Invariance, PTL

\* Answers come in the order of the requests, one at most for each, each for
\* a command that has run, however many lines there are.
THEOREM AnswersKeepOrder == Spec => []AnswersInOrder
<1>1. IInv => AnswersInOrder
  BY DEF IInv, OrderInv, AnsweredInv, AnswersInOrder
<1> QED BY <1>1, Invariance, PTL

\* Commands run in the order of their lines, none twice, although the bridge
\* gives up on some; and none is overtaken by one sent after an answer.
THEOREM CommandsKeepOrder == Spec => []CommandsInOrder
<1>1. IInv => CommandsInOrder
  BY DEF IInv, OrderInv, AllBefore, CommandsInOrder, TypeOK, Numbers
<1> QED BY <1>1, Invariance, PTL
=============================================================================
