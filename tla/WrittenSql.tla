------------------------------- MODULE WrittenSql -------------------------------
(***************************************************************************)
(* What a user writes and what is meant by it: the statements of the help  *)
(* text (redbase_main.cc) on a table t, as they are put into words and as  *)
(* a parser has to read them.  Nothing here is code of the program.        *)
(***************************************************************************)
EXTENDS SqlParser

\* A column is <<name, words>>, the words being its type and constraints; a
\* condition has a column, an operator, a right side and whether it is written
\* without blanks.  A statement has the fields its kind needs.
Statement ==
  [kind |-> "HELP", columns |-> << >>, values |-> << >>, set |-> << >>,
   where |-> << >>, parenthesis |-> FALSE]

WrittenCondition(column, op, right) ==
  [column |-> column, op |-> op, right |-> right, tight |-> FALSE]

-----------------------------------------------------------------------------
(* In words *)

Spaced(words) == FlattenSeq([i \in DOMAIN words |-> IF i = 1 THEN <<words[i]>>
                                                    ELSE <<Blank, words[i]>>])

Parenthesised(items) ==
  <<"(">> \o FlattenSeq([i \in DOMAIN items |-> IF i = 1 THEN items[i]
                                                ELSE <<",", Blank>> \o items[i]])
          \o <<")">>

ConditionText(c) ==
  LET words == <<c.column, c.op, c.right>>
  IN  IF c.tight THEN words ELSE Spaced(words)

WhereText(where) ==
  FlattenSeq([i \in DOMAIN where |->
     <<Blank, IF i = 1 THEN "WHERE" ELSE "AND", Blank>> \o ConditionText(where[i])])

Text(s) ==
  CASE s.kind = "CREATE_TABLE" ->
         Spaced(<<"CREATE", "TABLE", "t">>) \o
         Parenthesised([i \in DOMAIN s.columns |-> Spaced(<<s.columns[i][1]>> \o s.columns[i][2])])
    [] s.kind = "DROP_TABLE"   -> Spaced(<<"DROP", "TABLE", "t">>)
    [] s.kind = "INSERT"       ->
         Spaced(<<"INSERT", "INTO", "t", "VALUES">>) \o
         Parenthesised([i \in DOMAIN s.values |-> <<s.values[i]>>])
    [] s.kind = "SELECT"       -> Spaced(<<"SELECT", "*", "FROM", "t">>) \o WhereText(s.where)
    [] s.kind = "DELETE"       -> Spaced(<<"DELETE", "FROM", "t">>) \o WhereText(s.where)
    [] s.kind = "UPDATE"       ->
         Spaced(<<"UPDATE", "t", "SET", s.set[1], "=", s.set[2]>>) \o WhereText(s.where)
    [] s.kind = "CREATE_INDEX" ->
         Spaced(<<"CREATE", "INDEX", "i", "ON", "t">>) \o
         (IF s.parenthesis THEN <<"(", s.set[1], ")">> ELSE <<Blank, s.set[1]>>)
    [] s.kind = "DROP_INDEX"   -> Spaced(<<"DROP", "INDEX", "i">>)
    [] OTHER                   -> <<s.kind>>

-----------------------------------------------------------------------------
(* As they are meant *)

Literal(lexeme) ==
  CASE lexeme \in DOMAIN Numeral -> [type |-> "INT",    data |-> Numeral[lexeme]]
    [] lexeme \in DOMAIN Decimal -> [type |-> "FLOAT",  data |-> Decimal[lexeme]]
    [] OTHER                     -> [type |-> "STRING", data |-> Quoted[lexeme]]

IsLiteral(lexeme) == lexeme \in DOMAIN Numeral \union DOMAIN Decimal \union DOMAIN Quoted

MeantCondition(c) ==
  [lhsAttr    |-> <<c.column>>,
   op         |-> StringToCompOp(<<c.op>>),
   bRhsIsAttr |-> ~ IsLiteral(c.right),
   rhsAttr    |-> IF IsLiteral(c.right) THEN NoName ELSE <<c.right>>,
   rhsValue   |-> IF IsLiteral(c.right) THEN Literal(c.right) ELSE NoValue]

MeantConditions(s) == [i \in DOMAIN s.where |-> MeantCondition(s.where[i])]

TypeNamed == ("INT" :> "INT") @@ ("FLOAT" :> "FLOAT") @@ ("CHAR" :> "STRING")

MeantColumns(s) ==
  [i \in DOMAIN s.columns |-> [name |-> <<s.columns[i][1]>>, type |-> TypeNamed[s.columns[i][2][1]]]]

Meaning(s) ==
  LET table  == [ParsedSQL(s.kind) EXCEPT !.tableName = <<"t">>]
      search == [table EXCEPT !.conditions = MeantConditions(s)]
  IN  CASE s.kind = "CREATE_TABLE" ->
             [table EXCEPT !.columnNames = [i \in DOMAIN s.columns |-> MeantColumns(s)[i].name],
                           !.columnTypes = [i \in DOMAIN s.columns |-> MeantColumns(s)[i].type]]
        [] s.kind = "INSERT" -> [table EXCEPT !.values = [i \in DOMAIN s.values |-> Literal(s.values[i])]]
        [] s.kind = "SELECT" -> [search EXCEPT !.columnNames = << <<"*">> >>]
        [] s.kind = "UPDATE" ->
             [search EXCEPT !.updateColumn = <<s.set[1]>>, !.updateValue = Literal(s.set[2])]
        [] s.kind = "CREATE_INDEX" ->
             [table EXCEPT !.indexName = <<"i">>, !.columnNames = << <<s.set[1]>> >>]
        [] s.kind = "DROP_INDEX" -> [ParsedSQL(s.kind) EXCEPT !.indexName = <<"i">>]
        [] s.kind \in {"DROP_TABLE", "DELETE"} -> search
        [] OTHER -> ParsedSQL(s.kind)

\* Written so that the parser need not know what it does not: with blanks round
\* the operators, without a point on the right of a WHERE, without constraints
\* or a length after a type, without marks in quotes, and with no parenthesis
\* round the column of an index.
Careful(s) ==
  /\ \A i \in DOMAIN s.where : ~ s.where[i].tight /\ s.where[i].right \notin Dotted
  /\ \A i \in DOMAIN s.columns : Len(s.columns[i][2]) = 1
  /\ \A i \in DOMAIN s.values : s.values[i] \notin DOMAIN Erased
  /\ ~ s.parenthesis
=============================================================================
