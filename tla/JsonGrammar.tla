------------------------------- MODULE JsonGrammar -------------------------------
(***************************************************************************)
(* What ParseObjectFields accepts, as a grammar over texts: each rule says *)
(* where a text is split and what its parts are.                           *)
(***************************************************************************)
EXTENDS MessageText

Before(t, i) == SubSeq(t, 1, i - 1)
After(t, i) == SubSeq(t, i + 1, Len(t))
Places(t, c) == {i \in 1..Len(t) : t[i] = c}
Enclosed(t, open, close) == Len(t) >= 2 /\ t[1] = open /\ t[Len(t)] = close

RECURSIVE IsUnits(_)
IsUnits(t) ==
  t = <<>> \/ \E n \in {1, 2, 6} :
    n <= Len(t) /\ IsUnit(SubSeq(t, 1, n)) /\ IsUnits(After(t, n))

IsString(t) == Enclosed(t, Quote, Quote) /\ IsUnits(Inside(t))

\* Any run of other symbols is taken for a number or a literal.
IsScalar(t) ==
  /\ t # <<>> /\ t[1] \notin {LBrace, LBracket, Quote}
  /\ \A i \in 1..Len(t) : t[i] \notin {Comma, RBrace, RBracket} \cup Whitespace

RECURSIVE IsValue(_), IsMember(_), IsMembers(_), IsElements(_)
IsMember(t) ==
  \E i \in Places(t, Colon) : IsString(Trim(Before(t, i))) /\ IsValue(Trim(After(t, i)))
IsMembers(t) ==
  IsMember(t) \/ \E i \in Places(t, Comma) : IsMember(Before(t, i)) /\ IsMembers(After(t, i))
IsElements(t) ==
  IsValue(Trim(t)) \/ \E i \in Places(t, Comma) : IsValue(Trim(Before(t, i))) /\ IsElements(After(t, i))
IsObject(t) == Enclosed(t, LBrace, RBrace) /\ (Trim(Inside(t)) = <<>> \/ IsMembers(Inside(t)))
IsArray(t) == Enclosed(t, LBracket, RBracket) /\ (Trim(Inside(t)) = <<>> \/ IsElements(Inside(t)))
IsValue(t) == IsString(t) \/ IsScalar(t) \/ IsObject(t) \/ IsArray(t)

\* The value of the last member of that name, Absent if there is none.
RECURSIVE LastValue(_, _)
LastValue(t, name) ==
  IF IsMember(t)
  THEN LET i == CHOOSE j \in Places(t, Colon) :
                  IsString(Trim(Before(t, j))) /\ IsValue(Trim(After(t, j)))
       IN IF ParseJsonString(Trim(Before(t, i)), 1).out = name THEN Trim(After(t, i)) ELSE Absent
  ELSE LET i == CHOOSE j \in Places(t, Comma) : IsMember(Before(t, j)) /\ IsMembers(After(t, j))
           later == LastValue(After(t, i), name)
       IN IF later # Absent THEN later ELSE LastValue(Before(t, i), name)

\* The parser accepts exactly the objects of the grammar, whatever follows or
\* encloses them, and a name has the value of its last member.
FieldsAsWritten ==
  LET t == Trim(body) fields == ParseObjectFields(body) IN
  /\ fields # NoObject <=> IsObject(t)
  /\ IsObject(t) =>
       \A name \in Names \cup DOMAIN fields :
         LET value == IF Trim(Inside(t)) = <<>> THEN Absent ELSE LastValue(Inside(t), name)
         IN IF Has(fields, name) THEN fields[name] = value ELSE value = Absent
=============================================================================
