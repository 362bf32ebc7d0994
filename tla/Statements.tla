------------------------------- MODULE Statements -------------------------------
(***************************************************************************)
(* The statements a user types on a table t of the open database, from the *)
(* line of text to the return to the prompt: ProcessCommand and the        *)
(* Execute functions of redbase_main.cc, QL_Manager (QL/src/ql_manager.cc),*)
(* and what they need of SM, RM and IX.                                    *)
(*                                                                         *)
(* The RM file of the table is a map from RIDs to tuples, as RecordFile    *)
(* shows it to be.  A scan takes one step for each record and any fetch of *)
(* a page may fail.  An index has no root page (IX/src/ix_manager.cc), so  *)
(* that every InsertEntry and DeleteEntry fails and changes nothing.       *)
(*                                                                         *)
(* QL closes the file of the table after INSERT, DELETE and UPDATE and does*)
(* not look at the result.  A close that fails leaves dirty frames behind, *)
(* under a descriptor nobody closes; they are written when they are        *)
(* replaced, or never.                                                     *)
(*                                                                         *)
(* A definition marked (fault) is no part of the model: it is a way the    *)
(* definition after it could be wrong, which a property has to notice.     *)
(***************************************************************************)
EXTENDS WrittenSql, QueryPlan, FiniteSets

CONSTANTS
  Written,          \* the statements that are typed
  WrittenLater,     \* bound: those typed while frames of a failed close are left
  MaxRows,          \* bound: the slots of the file
  MaxFaults,        \* bound: page fetches and closes that fail
  NoRow             \* a slot without a record

ASSUME BoundsAssumption == MaxRows \in Nat /\ MaxFaults \in Nat

RID == 1 .. MaxRows
Table == <<"t">>
ColumnType == {"INT", "FLOAT", "STRING"}
Value == [type : ColumnType, data : Int]
ASSUME NoRowAssumption == NoRow \notin Seq(Value)

\* The structures Condition and ParsedSQL, which is what the parser returns.
Name == Seq(STRING)
ParsedCondition ==
  [lhsAttr : Name, op : STRING, bRhsIsAttr : BOOLEAN, rhsAttr : Name, rhsValue : Value]
ParsedStatement ==
  [type : STRING, tableName : Name, databaseName : Name, indexName : Name,
   columnNames : Seq(Name), columnTypes : Seq(ColumnType), values : Seq(Value),
   conditions : Seq(ParsedCondition), updateColumn : Name, updateValue : Value]
\* What is typed is read into a ParsedSQL, and no table but t is created.
ASSUME WrittenAssumption ==
  \A s \in Written \union {Statement} :
     LET read == ParseCommand(Text(s))
     IN  /\ read \in ParsedStatement
         /\ read.type = "CREATE_TABLE" => read.tableName = Table

VARIABLES
  columns,          \* of t in attrcat, << >> if there is no table
  indexed,          \* the columns with an indexNo
  rows,             \* RID |-> tuple or NoRow
  pc,               \* ready, parsed, scan, delete, close, returned; ended by a null pointer
  parsed,           \* ParsedSQL of the statement
  at,               \* the last RID the scan, or the loop of DELETE, dealt with
  found,            \* RIDs printed, to delete, or updated
  count,            \* of tuples as printed
  rc,               \* returned to main
  attrs,            \* the columns the plan of SELECT knows
  faults,           \* fetches and closes that may still fail
  leaked,           \* failed close |-> records of its frames not in the file yet
  before,           \* rows without what the statement did
  stmt,             \* history: the statement as it was written
  faulted,          \* history: has a fetch failed in it?
  unclosed,         \* history: has its close failed?
  overwritten,      \* history: have leaked frames been written in its midst?
  retyped           \* history: columns given bytes of another type

tableVars == <<columns, indexed, rows>>
typedVars == <<stmt, parsed, before>>
faultVars == <<faults, faulted, leaked, unclosed, overwritten>>
vars == <<tableVars, pc, at, found, count, attrs, rc, faultVars, retyped, typedVars>>

NoRows == [r \in RID |-> NoRow]
NothingLeaked == [close \in 1 .. MaxFaults |-> << >>]

Init ==
  /\ columns = << >> /\ indexed = {} /\ rows = NoRows
  /\ pc = "ready" /\ stmt = Statement /\ parsed = ParseCommand(Text(stmt))
  /\ at = 0 /\ found = {} /\ count = 0 /\ attrs = << >> /\ rc = "OK"
  /\ faults = MaxFaults /\ faulted = FALSE
  /\ leaked = NothingLeaked /\ unclosed = FALSE /\ overwritten = FALSE
  /\ before = NoRows /\ retyped = {}

\* A line at the prompt.  The bounds: no INSERT when every slot is taken, and not
\* every statement while leaked frames wait.
Type(s) ==
  /\ pc = "ready"
  /\ leaked # NothingLeaked => s \in WrittenLater
  /\ s.kind = "INSERT" => \E r \in RID : rows[r] = NoRow
  /\ pc' = "parsed"
  /\ stmt' = s /\ parsed' = ParseCommand(Text(s)) /\ before' = rows
  /\ UNCHANGED <<tableVars, at, found, count, attrs, rc, faultVars, retyped>>

\* The handler has returned to the loop of main, and its variables are gone.
Prompt ==
  /\ pc = "returned"
  /\ pc' = "ready"
  /\ stmt' = Statement /\ parsed' = ParseCommand(Text(stmt')) /\ before' = NoRows
  /\ at' = 0 /\ found' = {} /\ count' = 0 /\ attrs' = << >> /\ rc' = "OK"
  /\ faulted' = FALSE /\ unclosed' = FALSE /\ overwritten' = FALSE
  /\ UNCHANGED <<tableVars, faults, leaked, retyped>>

Running(type) == pc = "parsed" /\ parsed.type = type

\* QL closes the file of the table, and keeps what it will return.
Close(code) ==
  /\ pc' = "close" /\ rc' = code
  /\ UNCHANGED <<at, found, count, attrs, typedVars>>

Return(code) ==
  /\ pc' = "returned" /\ rc' = code
  /\ UNCHANGED <<at, found, count, attrs, typedVars>>

FetchFails ==
  /\ faults > 0
  /\ faults' = faults - 1 /\ faulted' = TRUE
  /\ UNCHANGED <<leaked, unclosed, overwritten>>

NothingElse ==
  /\ parsed.type \in {"HELP", "SHOW_TABLES", "DESC_TABLE", "UNKNOWN"} /\ pc = "parsed"
  /\ Return("OK")
  /\ UNCHANGED <<tableVars, faultVars, retyped>>

-----------------------------------------------------------------------------
(* SM_Manager *)

\* A letter, then letters, digits and underscores: one word.
IsValidName(name) ==
  /\ Len(name) = 1
  /\ name[1] \notin DOMAIN Numeral \union DOMAIN Quoted \union Dotted

HasTable(name) == name = Table /\ columns # << >>

\* A column without a word for its type is an INT.
Attributes ==
  [i \in DOMAIN parsed.columnNames |->
     [name |-> parsed.columnNames[i],
      type |-> IF i \in DOMAIN parsed.columnTypes THEN parsed.columnTypes[i] ELSE "INT"]]

CreateTableCode ==
  CASE ~ IsValidName(parsed.tableName)                        -> "SM_BADRELNAME"
    [] Attributes = << >>                                     -> "SM_TOOMANYATTRS"
    [] \E i \in DOMAIN Attributes : ~ IsValidName(Attributes[i].name) -> "SM_BADATTRNAME"
    [] HasTable(parsed.tableName)                             -> "SM_DUPLICATEREL"
    [] \E i, j \in DOMAIN Attributes : i < j /\ Attributes[i].name = Attributes[j].name
                                                              -> "SM_DUPLICATEATTR"
    [] OTHER                                                  -> "OK"

ExecuteCreateTable ==
  /\ Running("CREATE_TABLE")
  /\ Return(CreateTableCode)
  /\ IF rc' = "OK" THEN columns' = Attributes /\ retyped' = {}
     ELSE UNCHANGED <<columns, retyped>>
  /\ UNCHANGED <<indexed, rows, faultVars>>

\* (fault) The columns' indexNo stay.
DropTableKeepsIndexes ==
  /\ Running("DROP_TABLE")
  /\ IF HasTable(parsed.tableName)
     THEN /\ Return("OK")
          /\ columns' = << >> /\ indexed' = indexed /\ rows' = NoRows
          /\ leaked' = NothingLeaked
     ELSE Return("SM_RELNOTFOUND") /\ UNCHANGED <<tableVars, leaked>>
  /\ UNCHANGED <<faults, faulted, unclosed, overwritten, retyped>>

\* Frames that are left of the file go to one that has no name any more.
ExecuteDropTable ==
  /\ Running("DROP_TABLE")
  /\ IF HasTable(parsed.tableName)
     THEN /\ Return("OK")
          /\ columns' = << >> /\ indexed' = {} /\ rows' = NoRows
          /\ leaked' = NothingLeaked
     ELSE Return("SM_RELNOTFOUND") /\ UNCHANGED <<tableVars, leaked>>
  /\ UNCHANGED <<faults, faulted, unclosed, overwritten, retyped>>

\* The first tuple there is cannot be entered into an index without a root.
CreateIndexCode(name) ==
  CASE ~ IsValidName(parsed.tableName) -> "SM_BADRELNAME"
    [] ~ IsValidName(name)             -> "SM_BADATTRNAME"
    [] ~ HasTable(parsed.tableName) \/ FindAttr(columns, name) = 0 -> "SM_ATTRNOTFOUND"
    [] name \in indexed                -> "SM_DUPLICATEINDEX"
    [] rows # NoRows                   -> "PF_INVALIDPAGE"
    [] OTHER                           -> "OK"

ExecuteCreateIndex ==
  /\ Running("CREATE_INDEX")
  /\ IF parsed.columnNames = << >> THEN Return("OK") /\ UNCHANGED indexed
     ELSE LET name == parsed.columnNames[1]
              code == CreateIndexCode(name)
          IN  /\ Return(code)
              /\ indexed' = IF code = "OK" THEN indexed \union {name} ELSE indexed
  /\ UNCHANGED <<columns, rows, faultVars, retyped>>

\* main gives SM the name of the index as a column and, for the name of the
\* table, the one the parser has left empty, which is no valid name.
ExecuteDropIndex ==
  /\ Running("DROP_INDEX")
  /\ Return("SM_BADRELNAME")
  /\ UNCHANGED <<tableVars, faultVars, retyped>>

-----------------------------------------------------------------------------
(* INSERT *)

InsertCode ==
  CASE ~ HasTable(parsed.tableName)          -> "SM_RELNOTFOUND"
    [] Len(parsed.values) # Len(columns)     -> "QL_INVALIDVALUECOUNT"
    [] \E i \in DOMAIN columns : parsed.values[i].type # columns[i].type
                                             -> "QL_INCOMPATIBLETYPES"
    [] OTHER                                 -> "OK"

InsertRejected ==
  /\ Running("INSERT")
  /\ InsertCode # "OK"
  /\ Return(InsertCode)
  /\ UNCHANGED <<tableVars, faultVars, retyped>>

\* (fault) The error of the first index is returned.
InsertTupleIndexError ==
  /\ Running("INSERT")
  /\ InsertCode = "OK"
  /\ \E r \in RID : rows[r] = NoRow /\ rows' = [rows EXCEPT ![r] = parsed.values]
  /\ Close(IF indexed = {} THEN "OK" ELSE "PF_INVALIDPAGE")
  /\ UNCHANGED <<columns, indexed, faultVars, retyped>>

\* RM chooses the slot.  Then the indexes, whose errors are ignored.
InsertTuple ==
  /\ Running("INSERT")
  /\ InsertCode = "OK"
  /\ \E r \in RID : rows[r] = NoRow /\ rows' = [rows EXCEPT ![r] = parsed.values]
  /\ Close("OK")
  /\ UNCHANGED <<columns, indexed, faultVars, retyped>>

\* The catalog cannot be read, or OpenFile or InsertRec fails.
InsertFails ==
  /\ Running("INSERT")
  /\ InsertCode = "OK"
  /\ FetchFails
  /\ Return("PF_ERROR")
  /\ UNCHANGED <<tableVars, retyped>>

-----------------------------------------------------------------------------
(* The scan of SELECT, DELETE and UPDATE *)

Scanned == {"SELECT", "DELETE", "UPDATE"}

\* (fault) The column next to the one named.
UpdateColumnNext == 1 + (FindAttr(columns, parsed.updateColumn) % Len(columns))

UpdateColumn == FindAttr(columns, parsed.updateColumn)

ScanCode ==
  CASE parsed.type = "SELECT" /\ parsed.tableName = NoName  -> "OK"
    [] parsed.type = "SELECT" /\ ~ HasTable(parsed.tableName) -> "QL_NOSUCHTABLE"
    [] ~ HasTable(parsed.tableName)                         -> "SM_RELNOTFOUND"
    [] parsed.type = "UPDATE" /\ UpdateColumn = 0           -> "QL_INVALIDATTR"
    [] OTHER                                                -> "scan"

ScanRejected ==
  /\ pc = "parsed" /\ parsed.type \in Scanned
  /\ ScanCode # "scan"
  /\ Return(ScanCode)
  /\ UNCHANGED <<tableVars, faultVars, retyped>>

\* SELECT has a code of its own for a catalog it cannot read at first.
OpenFails ==
  /\ pc = "parsed" /\ parsed.type \in Scanned
  /\ ScanCode = "scan"
  /\ FetchFails
  /\ \/ Return("PF_ERROR")
     \/ parsed.type = "SELECT" /\ Return("QL_NOSUCHTABLE")
  /\ UNCHANGED <<tableVars, retyped>>

OpenScan ==
  /\ pc = "parsed" /\ parsed.type \in Scanned
  /\ ScanCode = "scan"
  /\ pc' = "scan" /\ attrs' = columns
  /\ UNCHANGED <<tableVars, at, found, count, rc, faultVars, retyped, typedVars>>

\* The constructor of ScanNode reads the catalog again, and passes over an error:
\* the query goes on and knows no column.
OpenScanWithoutColumns ==
  /\ Running("SELECT")
  /\ ScanCode = "scan"
  /\ FetchFails
  /\ pc' = "scan" /\ attrs' = << >>
  /\ UNCHANGED <<tableVars, at, found, count, rc, retyped, typedVars>>

\* GetNextRec: the first record after the place of the scan.
Rest == {r \in RID : r > at /\ rows[r] # NoRow}
NextRec(r) == r \in Rest /\ \A q \in Rest : r <= q

\* Bytes of another type than their column's compare in some way or other.
HasForeignBytes(tuple) == \E i \in DOMAIN columns : tuple[i].type # columns[i].type
Guesses(tuple) == IF HasForeignBytes(tuple) THEN {-1, 0, 1} ELSE {0}

Plan == OptimizeQuery(parsed.tableName, parsed.columnNames, parsed.conditions)

Scanning(type) == pc = "scan" /\ parsed.type = type

\* What comes out of the plan is printed; the first error ends the query.
ScanSelect(r) ==
  /\ Scanning("SELECT")
  /\ NextRec(r)
  /\ \E guess \in Guesses(rows[r]) :
       LET outcome == PassTuple(Plan, attrs, rows[r], guess)
       IN  IF outcome \in {"true", "false"}
           THEN /\ at' = r
                /\ found' = IF outcome = "true" THEN found \union {r} ELSE found
                /\ UNCHANGED <<pc, count, attrs, rc, typedVars>>
           ELSE Return(outcome)
  /\ UNCHANGED <<tableVars, faultVars, retyped>>

\* The RIDs are collected first.
ScanDelete(r) ==
  /\ Scanning("DELETE")
  /\ NextRec(r)
  /\ at' = r
  /\ \E guess \in Guesses(rows[r]) :
       found' = IF DeleteMatches(columns, rows[r], parsed.conditions, guess)
                THEN found \union {r} ELSE found
  /\ UNCHANGED <<tableVars, pc, count, attrs, rc, faultVars, retyped, typedVars>>

UpdateVerdict(r, guess) == UpdateMatches(columns, rows[r], parsed.conditions, guess)

\* (fault) The scan does not go on from a record that is not updated.
ScanPassesStays(r) ==
  /\ Scanning("UPDATE")
  /\ NextRec(r)
  /\ \E guess \in Guesses(rows[r]) : UpdateVerdict(r, guess) \notin {"true", "null"}
  /\ at' = at
  /\ UNCHANGED <<tableVars, pc, found, count, attrs, rc, faultVars, retyped, typedVars>>

ScanPasses(r) ==
  /\ Scanning("UPDATE")
  /\ NextRec(r)
  /\ \E guess \in Guesses(rows[r]) : UpdateVerdict(r, guess) \notin {"true", "null"}
  /\ at' = r
  /\ UNCHANGED <<tableVars, pc, found, count, attrs, rc, faultVars, retyped, typedVars>>

\* The value's bytes are copied into the record, whatever their type, and the
\* record goes back to its place under the scan.
ScanUpdate(r) ==
  /\ Scanning("UPDATE")
  /\ NextRec(r)
  /\ \E guess \in Guesses(rows[r]) : UpdateVerdict(r, guess) = "true"
  /\ at' = r /\ found' = found \union {r} /\ count' = count + 1
  /\ rows' = [rows EXCEPT ![r][UpdateColumn] = parsed.updateValue]
  /\ LET named == columns[FindAttr(columns, parsed.updateColumn)]
     IN  retyped' = IF parsed.updateValue.type = named.type THEN retyped
                    ELSE retyped \union {named.name}
  /\ UNCHANGED <<columns, indexed, pc, attrs, rc, faultVars, typedVars>>

\* UpdateRec fails: the record is not counted and the scan goes on.
UpdateRecFails(r) ==
  /\ Scanning("UPDATE")
  /\ NextRec(r)
  /\ \E guess \in Guesses(rows[r]) : UpdateVerdict(r, guess) = "true"
  /\ FetchFails
  /\ at' = r
  /\ UNCHANGED <<tableVars, pc, found, count, attrs, rc, retyped, typedVars>>

\* The comparison with a null pointer.
ProcessEnds(r) ==
  /\ Scanning("UPDATE")
  /\ NextRec(r)
  /\ \E guess \in Guesses(rows[r]) : UpdateVerdict(r, guess) = "null"
  /\ pc' = "ended"
  /\ UNCHANGED <<tableVars, at, found, count, attrs, rc, faultVars, retyped, typedVars>>

\* Whatever GetNextRec returns that is not OK ends the loop.  DELETE and UPDATE
\* report success; SELECT returns the code, and main takes RM_EOF for success.
LoopEnds(code) ==
  IF parsed.type = "DELETE"
  THEN pc' = "delete" /\ at' = 0 /\ UNCHANGED <<found, count, attrs, rc, typedVars>>
  ELSE IF parsed.type = "UPDATE" THEN Close("OK") ELSE Return(code)

\* (fault) A fetch that fails ends every scan alike.
ScanFailsAsEnd ==
  /\ pc = "scan"
  /\ FetchFails
  /\ LoopEnds("RM_EOF")
  /\ UNCHANGED <<tableVars, retyped>>

ScanFails ==
  /\ pc = "scan"
  /\ FetchFails
  /\ LoopEnds("PF_ERROR")
  /\ UNCHANGED <<tableVars, retyped>>

ScanEnds ==
  /\ pc = "scan"
  /\ Rest = {}
  /\ LoopEnds("RM_EOF")
  /\ UNCHANGED <<tableVars, faultVars, retyped>>

-----------------------------------------------------------------------------
(* The second loop of DELETE *)

ToDelete == {r \in found : r > at}
NextToDelete(r) == pc = "delete" /\ r \in ToDelete /\ \A q \in ToDelete : r <= q

DeleteRec(r) ==
  /\ NextToDelete(r)
  /\ rows[r] # NoRow
  /\ at' = r /\ count' = count + 1
  /\ rows' = [rows EXCEPT ![r] = NoRow]
  /\ UNCHANGED <<columns, indexed, pc, found, attrs, rc, faultVars, retyped, typedVars>>

\* (fault) It is counted all the same.
DeleteRecFailsCounted(r) ==
  /\ NextToDelete(r)
  /\ FetchFails
  /\ at' = r /\ count' = count + 1
  /\ UNCHANGED <<tableVars, pc, found, attrs, rc, retyped, typedVars>>

\* A fetch fails, or the record is gone.
DeleteRecFails(r) ==
  /\ NextToDelete(r)
  /\ FetchFails \/ (rows[r] = NoRow /\ UNCHANGED faultVars)
  /\ at' = r
  /\ UNCHANGED <<tableVars, pc, found, count, attrs, rc, retyped, typedVars>>

DeleteEnds ==
  /\ pc = "delete" /\ ToDelete = {}
  /\ Close("OK")
  /\ UNCHANGED <<tableVars, faultVars, retyped>>

-----------------------------------------------------------------------------
(* Closing the file *)

\* What the statement has done, as it and a later one see it.
Changed == {r \in RID : rows[r] # before[r]}

CloseFile ==
  /\ pc = "close"
  /\ Return(rc)
  /\ UNCHANGED <<tableVars, faultVars, retyped>>

\* Page 0 cannot be fetched, or a frame or the header cannot be written.  Some
\* records are in the file as the statement has left them.  The others stay in
\* dirty frames, with what else is on their pages, for nobody to read.
CloseFileFails ==
  /\ pc = "close"
  /\ parsed.type = "INSERT" \/ count > 0
  /\ faults > 0
  /\ faults' = faults - 1 /\ unclosed' = TRUE
  /\ \E written \in SUBSET Changed :
     \E left \in SUBSET (RID \ written) :
        /\ Changed \subseteq written \union left
        /\ rows' = [r \in RID |-> IF r \in written THEN rows[r] ELSE before[r]]
        /\ leaked' = [leaked EXCEPT ![faults] = [r \in left |-> rows[r]]]
  /\ Return(rc)
  /\ UNCHANGED <<columns, indexed, faulted, overwritten, retyped>>

\* Any fetch may replace frames of a descriptor that was never closed, and so
\* write their pages over those of the file, but for pages the statement itself
\* has changed: its frames are younger.  The bound: a slot is left for an INSERT.
WriteLeaked ==
  /\ pc \in {"parsed", "scan", "delete"}
  /\ \E close \in DOMAIN leaked :
     \E S \in (SUBSET (DOMAIN leaked[close] \ Changed)) \ {{}} :
        LET image == leaked[close]
        IN  /\ rows'   = [r \in RID |-> IF r \in S THEN image[r] ELSE rows[r]]
            /\ before' = [r \in RID |-> IF r \in S THEN image[r] ELSE before[r]]
            /\ leaked' = [leaked EXCEPT ![close] = Restrict(image, DOMAIN image \ S)]
  /\ parsed.type = "INSERT" => \E r \in RID : rows'[r] = NoRow
  /\ overwritten' = (overwritten \/ pc # "parsed")
  /\ UNCHANGED <<columns, indexed, pc, at, found, count, attrs, rc, stmt, parsed,
                 faults, faulted, unclosed, retyped>>

Step ==
  \/ NothingElse \/ Prompt
  \/ ExecuteCreateTable \/ ExecuteDropTable \/ ExecuteCreateIndex \/ ExecuteDropIndex
  \/ InsertRejected \/ InsertTuple \/ InsertFails
  \/ ScanRejected \/ OpenFails \/ OpenScan \/ OpenScanWithoutColumns
  \/ \E r \in RID :
       \/ ScanSelect(r) \/ ScanDelete(r)
       \/ ScanPasses(r) \/ ScanUpdate(r) \/ UpdateRecFails(r) \/ ProcessEnds(r)
       \/ DeleteRec(r) \/ DeleteRecFails(r)
  \/ ScanFails \/ ScanEnds \/ DeleteEnds
  \/ CloseFile \/ CloseFileFails

Next == Step \/ WriteLeaked \/ \E s \in Written : Type(s)

\* One thread runs a statement until it returns; the user may stop typing.
Spec == Init /\ [][Next]_vars /\ WF_vars(Step)

-----------------------------------------------------------------------------
(* Properties *)

\* Every variable has its type, and only a column of the table has an index.
TypeOK ==
  /\ pc \in {"ready", "parsed", "scan", "delete", "close", "returned", "ended"}
  /\ columns \in Seq([name : Seq(STRING), type : ColumnType])
  /\ indexed \subseteq {columns[i].name : i \in DOMAIN columns}
  /\ rows \in [RID -> Seq(Value) \union {NoRow}]
  /\ at \in {0} \union RID /\ found \subseteq RID /\ count \in 0 .. MaxRows
  /\ attrs \in {<< >>, columns}
  /\ faults \in 0 .. MaxFaults
  /\ DOMAIN leaked = 1 .. MaxFaults
  /\ \A close \in DOMAIN leaked : \A r \in DOMAIN leaked[close] :
        r \in RID /\ leaked[close][r] \in Seq(Value) \union {NoRow}
  /\ faulted \in BOOLEAN /\ unclosed \in BOOLEAN /\ overwritten \in BOOLEAN

\* A statement that is carefully written is read as it is meant: every column,
\* value, condition and assignment, and nothing else.
ParsedAsWritten == Careful(stmt) => parsed = Meaning(stmt)

\* Are the rows the statement found free of bytes of another type?
Typed == \A r \in RID : before[r] # NoRow => ~ HasForeignBytes(before[r])

\* The rows that a SELECT * with these conditions prints if no fetch fails.
ShownBy(conditions) ==
  {r \in RID : /\ before[r] # NoRow
               /\ PassTuple(OptimizeQuery(Table, << <<"*">> >>, conditions),
                            columns, before[r], 0) = "true"}

OnTable(types) == parsed.type \in types /\ HasTable(parsed.tableName)

\* A SELECT that main does not report as failed has printed every row that
\* satisfies its conditions, and no other, also when its plan knows no column.
SelectIsCompleteOrFails ==
  /\ pc = "returned" /\ OnTable({"SELECT"}) /\ rc \in {"OK", "RM_EOF"}
  /\ Typed /\ ~ overwritten
  => found = ShownBy(parsed.conditions)

\* DELETE and UPDATE test a WHERE for themselves.  They find the rows SELECT
\* prints for it, also where SELECT reports an error in it.  Not so an UPDATE
\* with a column on the right of a condition.
SameRowsForEveryStatement ==
  /\ pc = "returned" /\ OnTable({"DELETE", "UPDATE"}) /\ rc = "OK"
  /\ Typed /\ ~ faulted /\ ~ overwritten
  => \/ found = ShownBy(parsed.conditions)
     \/ /\ parsed.type = "UPDATE"
        /\ \E i \in DOMAIN parsed.conditions : parsed.conditions[i].bRhsIsAttr

\* At every moment of a DELETE or an UPDATE, whatever fails in it and in closing
\* the file, only rows that satisfied its conditions when it began are gone or
\* changed; unless frames an earlier statement has left are written in its midst.
OnlyMatchingRowsTouched ==
  pc # "ready" /\ OnTable({"SELECT", "DELETE", "UPDATE"}) /\ Typed /\ ~ overwritten =>
     Changed \subseteq IF parsed.type = "SELECT" THEN {} ELSE ShownBy(parsed.conditions)

\* The number that DELETE prints is the number of tuples that are gone, when some
\* could not be deleted too, and when the file could not be closed no less than
\* that; UPDATE counts once each tuple it wrote, and changes no other.
CountsReported ==
  pc = "returned" /\ OnTable({"DELETE", "UPDATE"}) =>
     /\ Changed \subseteq found
     /\ parsed.type = "UPDATE" => count = Cardinality(found)
     /\ parsed.type = "DELETE" =>
          \/ count = Cardinality(Changed)
          \/ unclosed /\ count > Cardinality(Changed)

\* INSERT adds one record with the values it was given, or changes nothing.  When
\* it returns an error it has added none, and when it returns OK it has added one
\* unless the file could not be closed; an index it cannot enter the record in
\* makes no difference.
InsertAllOrNothing ==
  pc = "returned" /\ parsed.type = "INSERT" =>
     \/ Changed = {} /\ (rc # "OK" \/ unclosed)
     \/ rc = "OK" /\ \E r \in RID : /\ Changed = {r} /\ before[r] = NoRow
                                   /\ rows[r] = parsed.values

\* Every tuple has a value of the type of each column, through drops of the table
\* and a new one of its name, except where UPDATE was given another type.
RowsHaveColumnTypes ==
  \A r \in RID : rows[r] # NoRow =>
     /\ Len(rows[r]) = Len(columns)
     /\ \A i \in DOMAIN columns :
          columns[i].name \notin retyped => rows[r][i].type = columns[i].type

\* Every statement returns to the prompt, unless the process ends in it.
StatementsReturn == pc = "parsed" ~> pc \in {"ready", "ended"}

\* DELETE removes no row that does not satisfy its WHERE as it is written.
DeleteSparesOthers ==
  pc = "returned" /\ stmt.kind = "DELETE" => Changed \subseteq ShownBy(MeantConditions(stmt))
=============================================================================
