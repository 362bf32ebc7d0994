------------------------------ MODULE MCStatements ------------------------------
(***************************************************************************)
(* Statements on small instances: what is typed.                           *)
(***************************************************************************)
EXTENDS Statements

Where(kind, where) == [Statement EXCEPT !.kind = kind, !.where = where]

Is(column, op, right) == WrittenCondition(column, op, right)
AIsOne   == Is("a", "=", "1")
Glued    == [AIsOne EXCEPT !.tight = TRUE]

\* A decimal and a dotted name, a column there is not, columns on the right.
Conditions1 ==
  {AIsOne, Glued, Is("s", ">=", "'x'"), Is("a", "<>", "1.5"), Is("b", "=", "1"),
   Is("a", "=", "a"), Is("s", "=", "a"), Is("a", "LIKE", "1")}

Wheres ==
  {<< >>} \union {<<c>> : c \in Conditions1} \union
  {<<AIsOne, Is("s", "=", "'x'")>>, <<Is("s", "=", "'y'"), AIsOne>>,
   <<AIsOne, Is("b", "=", "1")>>, <<Glued, Is("s", "=", "'x'")>>}

Column(name, words) == <<name, words>>
Tables ==
  {<<Column("a", <<"INT">>), Column("s", <<"CHAR">>)>>,
   <<Column("s", <<"CHAR", "NOT", "NULL">>), Column("a", <<"INT">>)>>,
   <<Column("a", <<"INT">>), Column("a", <<"INT">>)>>}

Inserted == {<<"1", "'x'">>, <<"2", "'y'">>, <<"'(x)'", "1">>, <<"'x'", "'y'">>, <<"1">>}

Sets == {<<"a", "'x'">>, <<"b", "1">>}

Kind(kind) == [Statement EXCEPT !.kind = kind]

AllWritten ==
  {Where(k, w) : k \in {"SELECT", "DELETE"}, w \in Wheres}
  \union {[Where("UPDATE", w) EXCEPT !.set = <<"a", "2">>] : w \in Wheres}
  \union {[Where("UPDATE", w) EXCEPT !.set = v] : v \in Sets, w \in {<< >>, <<AIsOne>>}}
  \union {[Kind("CREATE_TABLE") EXCEPT !.columns = t] : t \in Tables}
  \union {[Kind("INSERT") EXCEPT !.values = v] : v \in Inserted}
  \union {[Kind("CREATE_INDEX") EXCEPT !.set = <<"a">>, !.parenthesis = p] : p \in BOOLEAN}
  \union {Kind(k) : k \in {"DROP_TABLE", "DROP_INDEX", "HELP"}}

\* Each of the three loops with and without a condition, and what fills, indexes
\* and ends the table.
SomeWritten ==
  {Where(k, w) : k \in {"SELECT", "DELETE"}, w \in {<< >>, <<AIsOne>>}}
  \union {[Where("UPDATE", <<AIsOne>>) EXCEPT !.set = <<"a", "2">>],
          [Where("UPDATE", << >>) EXCEPT !.set = <<"a", "'x'">>]}
  \union {[Kind("INSERT") EXCEPT !.values = v] : v \in {<<"1", "'x'">>, <<"2", "'y'">>}}
  \union {[Kind("CREATE_INDEX") EXCEPT !.set = <<"a">>], Kind("DROP_TABLE")}
=============================================================================
