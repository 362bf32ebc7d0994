-------------------------------- MODULE SqlParser --------------------------------
(***************************************************************************)
(* SQLParser (QL/src/sql_parser.cc): from a line of text to a ParsedSQL.   *)
(*                                                                         *)
(* A text is a sequence of lexemes: words, numerals, operators, quoted     *)
(* texts, marks and blanks.  A token is what Tokenize makes of it, the     *)
(* sequence of the lexemes it glues together: `a = 1' is three tokens and  *)
(* `a=1' is one, <<"a", "=", "1">>.  Keywords are written in capitals and  *)
(* numbers without a sign.                                                 *)
(*                                                                         *)
(* A definition marked (fault) is no part of the model: it is a way the    *)
(* definition after it could be wrong, which a property has to notice.     *)
(***************************************************************************)
EXTENDS Integers, SequencesExt

-----------------------------------------------------------------------------
(* What the parser can tell of a lexeme *)

Blank == " "

\* atoi of the numerals, atof of the decimals (in tenths).
Numeral == ("1" :> 1) @@ ("2" :> 2)
Decimal == ("1.5" :> 15)

\* The places of the texts in the order of strcmp: "", (x), a word, x, x.y, y.
Quoted == ("'(x)'" :> 1) @@ ("'x'" :> 3) @@ ("'x.y'" :> 4) @@ ("'y'" :> 5)
AWord  == 2

\* The lexemes with a point in them, in quotes or not.
Dotted == DOMAIN Decimal \union {"t.a", "'x.y'"}

\* What is left of a lexeme without its parentheses and commas.
Erased == ("'(x)'" :> "'x'")

Marks == {"(", ")", ","}
NoName == << >>       \* the empty string, where there is no name

HasDot(token)    == \E i \in DOMAIN token : token[i] \in Dotted
IsNumeric(token) == \A i \in DOMAIN token : token[i] \in DOMAIN Numeral \union DOMAIN Decimal
StartsWithQuote(token) == token # << >> /\ token[1] \in DOMAIN Quoted
IsQuoted(token)  == StartsWithQuote(token) /\ token[Len(token)] \in DOMAIN Quoted

\* The token without the marks in it.
WithoutMarks(token) ==
  LET kept == SelectSeq(token, LAMBDA l : l \notin Marks)
  IN  [i \in DOMAIN kept |-> IF kept[i] \in DOMAIN Erased THEN Erased[kept[i]] ELSE kept[i]]

-----------------------------------------------------------------------------
(* Tokens, values and operators *)

Tokenize(text) ==
  LET Ended(a)   == IF a.current = << >> THEN a.tokens ELSE Append(a.tokens, a.current)
      Read(a, l) ==
        CASE l \in {Blank, ";"} -> [tokens |-> Ended(a), current |-> << >>]
          [] l \in Marks        -> [tokens |-> Append(Ended(a), <<l>>), current |-> << >>]
          [] OTHER              -> [a EXCEPT !.current = Append(@, l)]
  IN  Ended(FoldLeft(Read, [tokens |-> << >>, current |-> << >>], text))

StringToValue(token, type) ==
  LET first == IF token = << >> THEN Blank ELSE token[1]
      DataIn(f, other) == IF first \in DOMAIN f THEN f[first] ELSE other
  IN  [type |-> type,
       data |-> CASE type = "INT"    -> DataIn(Numeral, 0)
                  [] type = "FLOAT"  -> DataIn(Decimal, 0)
                  [] type = "STRING" -> IF Len(token) = 1 THEN DataIn(Quoted, AWord) ELSE AWord]

\* In WHERE and SET: what is neither quoted nor a decimal is given to atoi.
ConditionType(token) ==
  CASE IsQuoted(token) -> "STRING" [] HasDot(token) -> "FLOAT" [] OTHER -> "INT"

InsertType(token) ==
  CASE IsQuoted(token)  -> "STRING"
    [] HasDot(token)    -> "FLOAT"
    [] IsNumeric(token) -> "INT"
    [] OTHER            -> "STRING"

StringToAttrType(token) ==
  CASE token \in {<<"INT">>, <<"INTEGER">>} -> "INT"
    [] token \in {<<"FLOAT">>, <<"REAL">>}  -> "FLOAT"
    [] OTHER                                -> "STRING"

StringToCompOp(token) ==
  CASE token \in {<<"=">>, <<"==">>}  -> "EQ_OP"
    [] token = <<"<">>                -> "LT_OP"
    [] token = <<">">>                -> "GT_OP"
    [] token = <<"<=">>               -> "LE_OP"
    [] token = <<">=">>               -> "GE_OP"
    [] token \in {<<"!=">>, <<"<>">>} -> "NE_OP"
    [] OTHER                          -> "NO_OP"

-----------------------------------------------------------------------------
(* Conditions, which SELECT, DELETE and UPDATE read alike *)

\* The first place at or after i of the token <<word>>, one past the end if none.
Place(tokens, word, i) ==
  LET at == SelectInSubSeq(tokens, i, Len(tokens), LAMBDA t : t = <<word>>)
  IN  IF at = 0 THEN Len(tokens) + 1 ELSE at

\* A right side with a point in it, or an unquoted word, is a column.
IsAttribute(token) == HasDot(token) \/ ~ (StartsWithQuote(token) \/ IsNumeric(token))

NoValue == [type |-> "INT", data |-> 0]       \* Value(), whose data is null

Condition(lhs, op, rhs) ==
  [lhsAttr    |-> lhs,
   op         |-> StringToCompOp(op),
   bRhsIsAttr |-> IsAttribute(rhs),
   rhsAttr    |-> IF IsAttribute(rhs) THEN rhs ELSE NoName,
   rhsValue   |-> IF IsAttribute(rhs) THEN NoValue
                  ELSE StringToValue(rhs, ConditionType(rhs))]

\* (fault) The word AND is not skipped.
ConditionsKeepingAnd(tokens, where) ==
  LET start(k) == where + 1 + 3 * (k - 1)
      read == {k \in 1 .. Len(tokens) :
                 /\ start(k) + 2 <= Len(tokens)
                 /\ \A j \in 1 .. k - 1 : tokens[start(j) + 3] = <<"AND">>}
  IN  [k \in 1 .. Cardinality(read) |->
         Condition(tokens[start(k)], tokens[start(k) + 1], tokens[start(k) + 2])]

\* Three tokens make a condition, AND another; whatever else follows is left.
Conditions(tokens, where) ==
  LET start(k) == where + 1 + 4 * (k - 1)
      read == {k \in 1 .. Len(tokens) :
                 /\ start(k) + 2 <= Len(tokens)
                 /\ \A j \in 1 .. k - 1 : tokens[start(j) + 3] = <<"AND">>}
  IN  [k \in 1 .. Cardinality(read) |->
         Condition(tokens[start(k)], tokens[start(k) + 1], tokens[start(k) + 2])]

-----------------------------------------------------------------------------
(* Statements *)

\* ParsedSQL(): what every field is unless a statement sets it.
ParsedSQL(type) ==
  [type |-> type, tableName |-> NoName, databaseName |-> NoName, indexName |-> NoName,
   columnNames |-> << >>, columnTypes |-> << >>, values |-> << >>,
   conditions |-> << >>, updateColumn |-> NoName, updateValue |-> NoValue]

\* A statement that has only a name, as its n-th token; or too few tokens.
Named(type, tokens, n) ==
  LET name == IF n \in DOMAIN tokens THEN tokens[n] ELSE NoName
  IN  CASE type \in {"DROP_TABLE", "DESC_TABLE"} -> [ParsedSQL(type) EXCEPT !.tableName = name]
        [] type = "DROP_INDEX"                   -> [ParsedSQL(type) EXCEPT !.indexName = name]
        [] OTHER                                 -> [ParsedSQL(type) EXCEPT !.databaseName = name]

\* After the name of a column every word up to the comma is a type.  A second
\* parenthesis begins another column, and the first that closes ends the list.
ParseCreateTable(tokens) ==
  LET Begin == [open |-> FALSE, name |-> TRUE, ended |-> FALSE,
                names |-> << >>, types |-> << >>]
      Read(a, t) ==
        CASE a.ended    -> a
          [] t = <<"(">> -> [a EXCEPT !.open = TRUE, !.name = TRUE]
          [] t = <<")">> -> [a EXCEPT !.ended = TRUE]
          [] t = <<",">> -> [a EXCEPT !.name = TRUE]
          [] ~ a.open    -> a
          [] a.name      -> [a EXCEPT !.names = Append(@, t), !.name = FALSE]
          [] OTHER       -> [a EXCEPT !.types = Append(@, StringToAttrType(t))]
      list == FoldLeft(Read, Begin, SubSeq(tokens, 4, Len(tokens)))
  IN  IF Len(tokens) < 4 THEN ParsedSQL("CREATE_TABLE")
      ELSE [ParsedSQL("CREATE_TABLE") EXCEPT !.tableName = tokens[3],
              !.columnNames = list.names, !.columnTypes = list.types]

\* Parentheses and commas go, those inside quotes too.
ParseInsert(tokens) ==
  LET words  == [i \in 5 .. Len(tokens) |-> WithoutMarks(tokens[i])]
      listed == SelectSeq([i \in 1 .. Len(tokens) - 4 |-> words[i + 4]], LAMBDA w : w # << >>)
  IN  IF Len(tokens) < 5 \/ tokens[2] # <<"INTO">> \/ tokens[4] # <<"VALUES">>
      THEN ParsedSQL("INSERT")
      ELSE [ParsedSQL("INSERT") EXCEPT !.tableName = tokens[3],
              !.values = [i \in DOMAIN listed |-> StringToValue(listed[i], InsertType(listed[i]))]]

\* Of the tables between FROM and WHERE only the first is kept.
ParseSelect(tokens) ==
  LET from   == Place(tokens, "FROM", 2)
      where  == Place(tokens, "WHERE", from + 1)
      Listed(i, j) == SelectSeq(SubSeq(tokens, i, j), LAMBDA t : t # <<",">>)
      tables == Listed(from + 1, where - 1)
      columns == [ParsedSQL("SELECT") EXCEPT !.columnNames = Listed(2, from - 1)]
  IN  CASE Len(tokens) < 4 \/ from >= Len(tokens) -> ParsedSQL("SELECT")
        [] tables = << >> -> columns
        [] OTHER -> [columns EXCEPT !.tableName = tables[1],
                       !.conditions = Conditions(tokens, where)]

ParseDelete(tokens) ==
  IF Len(tokens) < 3 \/ tokens[2] # <<"FROM">> THEN ParsedSQL("DELETE")
  ELSE [ParsedSQL("DELETE") EXCEPT !.tableName = tokens[3],
          !.conditions = Conditions(tokens, Place(tokens, "WHERE", 4))]

\* One assignment; what stands between it and WHERE is left.
ParseUpdate(tokens) ==
  LET table == [ParsedSQL("UPDATE") EXCEPT !.tableName = tokens[2]]
      named == [table EXCEPT !.updateColumn = tokens[4]]
  IN  CASE Len(tokens) < 5 \/ tokens[3] # <<"SET">> -> ParsedSQL("UPDATE")
        [] Len(tokens) < 6 -> table
        [] tokens[5] # <<"=">> -> named
        [] OTHER -> [named EXCEPT
                       !.updateValue = StringToValue(tokens[6], ConditionType(tokens[6])),
                       !.conditions  = Conditions(tokens, Place(tokens, "WHERE", 7))]

\* `ON t(c)' gives the name that is left of the parenthesis, the empty one.
ParseCreateIndex(tokens) ==
  IF Len(tokens) < 6 \/ tokens[4] # <<"ON">> THEN ParsedSQL("CREATE_INDEX")
  ELSE [ParsedSQL("CREATE_INDEX") EXCEPT !.indexName = tokens[3], !.tableName = tokens[5],
          !.columnNames = <<WithoutMarks(tokens[6])>>]

\* By the first word, or the first two.
GetCommandType(tokens) ==
  LET first == IF Len(tokens) >= 1 THEN tokens[1] ELSE NoName
      Second(word) == Len(tokens) >= 2 /\ tokens[2] = <<word>>
  IN  CASE first \in {<<"HELP">>, <<"?">>}                 -> "HELP"
        [] first \in {<<"QUIT">>, <<"EXIT">>}              -> "QUIT"
        [] first = <<"CREATE">> /\ Second("TABLE")         -> "CREATE_TABLE"
        [] first = <<"CREATE">> /\ Second("INDEX")         -> "CREATE_INDEX"
        [] first = <<"CREATE">> /\ Second("DATABASE")      -> "CREATE_DATABASE"
        [] first = <<"DROP">> /\ Second("TABLE")           -> "DROP_TABLE"
        [] first = <<"DROP">> /\ Second("INDEX")           -> "DROP_INDEX"
        [] first = <<"SHOW">> /\ Second("TABLES")          -> "SHOW_TABLES"
        [] first \in {<<"DESC">>, <<"DESCRIBE">>}          -> "DESC_TABLE"
        [] first = <<"USE">>                               -> "USE_DATABASE"
        [] first \in {<<w>> : w \in {"INSERT", "SELECT", "DELETE", "UPDATE"}} -> first[1]
        [] OTHER                                           -> "UNKNOWN"

ParseCommand(text) ==
  LET tokens == Tokenize(text)
      type   == GetCommandType(tokens)
  IN  CASE type = "CREATE_TABLE" -> ParseCreateTable(tokens)
        [] type = "INSERT"       -> ParseInsert(tokens)
        [] type = "SELECT"       -> ParseSelect(tokens)
        [] type = "DELETE"       -> ParseDelete(tokens)
        [] type = "UPDATE"       -> ParseUpdate(tokens)
        [] type = "CREATE_INDEX" -> ParseCreateIndex(tokens)
        [] type \in {"DROP_TABLE", "DROP_INDEX", "CREATE_DATABASE"} -> Named(type, tokens, 3)
        [] type \in {"USE_DATABASE", "DESC_TABLE"}                  -> Named(type, tokens, 2)
        [] OTHER                 -> ParsedSQL(type)
=============================================================================
