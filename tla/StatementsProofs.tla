---------------------------- MODULE StatementsProofs ----------------------------
(***************************************************************************)
(* Proofs about Statements for any statements that the parser reads into a *)
(* ParsedSQL, any number of rows, and any fetches and closes that fail.    *)
(***************************************************************************)
EXTENDS Statements, OrderLemmas, SequenceTheorems

\* The rows that satisfy the conditions of the statement.
Shown == ShownBy(parsed.conditions)

\* UPDATE passes over conditions with a column on the right.
RightColumn == \E i \in DOMAIN parsed.conditions : parsed.conditions[i].bRhsIsAttr

\* A tuple has a value of the type of each column that was not given another.
Fits(tuple) ==
  /\ Len(tuple) = Len(columns)
  /\ \A i \in DOMAIN columns :
       columns[i].name \notin retyped => tuple[i].type = columns[i].type

\* A statement has begun and may still change rows.
Busy == {"parsed", "scan", "delete", "close"}

\* Where a statement is.
StatementOK ==
  /\ parsed \in ParsedStatement
  /\ parsed.type = "CREATE_TABLE" => parsed.tableName = Table
  /\ before \in [RID -> Seq(Value) \union {NoRow}]
  /\ columns = << >> => rows = NoRows
  /\ pc \in {"ready", "parsed"} => at = 0 /\ found = {} /\ count = 0 /\ attrs = << >>
  /\ pc = "parsed" => rows = before
  /\ pc = "scan" => /\ parsed.type \in Scanned /\ HasTable(parsed.tableName)
                    /\ parsed.type = "UPDATE" => UpdateColumn # 0
  /\ pc = "delete" => parsed.type = "DELETE" /\ HasTable(parsed.tableName)
  /\ pc = "ended" => parsed.type = "UPDATE"

\* What may come back into the file is as good as what is in it: the rows there
\* were before the statement, and those of frames a failed close has left.
ComesBackOK ==
  /\ columns = << >> => leaked = NothingLeaked
  /\ \A close \in DOMAIN leaked : \A r \in DOMAIN leaked[close] :
        leaked[close][r] # NoRow => Fits(leaked[close][r])
  /\ pc \in Busy => \A r \in RID : before[r] # NoRow => Fits(before[r])

\* The scan has dealt with the rows up to at.
ScanSoFar ==
  pc = "scan" =>
     /\ found \subseteq {r \in RID : r <= at}
     /\ \A r \in RID : r > at => rows[r] = before[r]
     /\ Changed \subseteq found
     /\ parsed.type # "UPDATE" => rows = before /\ count = 0
     /\ parsed.type = "UPDATE" => count = Cardinality(found)
     /\ Typed /\ ~ overwritten => found \subseteq Shown
     /\ Typed /\ ~ overwritten /\ ~ (parsed.type = "UPDATE" /\ (faulted \/ RightColumn)) =>
          {r \in Shown : r <= at} \subseteq found

\* The second loop of DELETE has dealt with those it found up to at.
DeleteSoFar ==
  pc = "delete" =>
     /\ Changed \subseteq {r \in found : r <= at}
     /\ count = Cardinality(Changed)
     /\ Typed /\ ~ overwritten => found \subseteq Shown /\ (~ faulted => found = Shown)

\* What INSERT, DELETE and UPDATE have done when they close the file.
DoneBeforeClose ==
  pc = "close" =>
     /\ parsed.type \in {"INSERT", "DELETE", "UPDATE"} /\ HasTable(parsed.tableName)
     /\ rc = "OK"
     /\ parsed.type = "INSERT" =>
          \E r \in RID : Changed = {r} /\ before[r] = NoRow /\ rows[r] = parsed.values
     /\ parsed.type # "INSERT" =>
          /\ Changed \subseteq found
          /\ count = Cardinality(IF parsed.type = "DELETE" THEN Changed ELSE found)
          /\ Typed /\ ~ overwritten =>
               /\ found \subseteq Shown
               /\ ~ faulted => found = Shown \/ (parsed.type = "UPDATE" /\ RightColumn)

\* What is promised of a statement that has returned, or ended.
Reported ==
  /\ SelectIsCompleteOrFails
  /\ SameRowsForEveryStatement
  /\ OnlyMatchingRowsTouched
  /\ CountsReported
  /\ InsertAllOrNothing

\* The inductive invariant.
StatementsInv ==
  /\ TypeOK /\ RowsHaveColumnTypes /\ StatementOK /\ ComesBackOK
  /\ ScanSoFar /\ DeleteSoFar /\ DoneBeforeClose /\ Reported

\* A step after which fewer fetches may fail, or as many, and no frames are left
\* or written that were left before.
FaultsKept ==
  /\ faults' \in 0 .. MaxFaults /\ faulted' \in BOOLEAN /\ (faulted => faulted')
  /\ UNCHANGED <<leaked, unclosed, overwritten>>

-----------------------------------------------------------------------------
(* Rows *)

\* A set of RIDs is finite and has at most MaxRows members.
LEMMA RowSets ==
  ASSUME NEW S, S \subseteq RID
  PROVE  /\ IsFiniteSet(S) /\ Cardinality(S) \in 0 .. MaxRows
         /\ \A r \in RID \ S : Cardinality(S \union {r}) = Cardinality(S) + 1
<1>1. IsFiniteSet(RID) /\ Cardinality(RID) = MaxRows
  <2>1. MaxRows \in Nat
    BY BoundsAssumption
  <2> QED
    BY <2>1, FS_Interval DEF RID
<1>2. IsFiniteSet(S) /\ Cardinality(S) <= MaxRows
  BY <1>1, FS_Subset
<1>3. Cardinality(S) \in Nat
  BY <1>2, FS_CardinalityType
<1>4. \A r \in RID \ S : Cardinality(S \union {r}) = Cardinality(S) + 1
  BY <1>2, FS_AddElement
<1> QED
  BY <1>2, <1>3, <1>4, BoundsAssumption

\* Some place of a set of numbers comes first.
LEMMA FirstPlace ==
  ASSUME NEW S, S \subseteq Nat, S # {}
  PROVE  Min(S) \in S
<1>1. \E n \in S : \A m \in S : n <= m
  BY LeastElement
<1> QED
  BY <1>1 DEF Min

\* FindAttr gives the place of a column of that name, or 0.
LEMMA FindAttrPlace ==
  ASSUME NEW S, NEW cols \in Seq(S), NEW name
  PROVE  /\ FindAttr(cols, name) \in {0} \union DOMAIN cols
         /\ FindAttr(cols, name) # 0 => cols[FindAttr(cols, name)].name = name
<1> DEFINE I == {i \in 1 .. Len(cols) : cols[i].name = name}
<1>1. FindAttr(cols, name) = IF I # {} THEN Min(I) ELSE 0
  BY DEF FindAttr, SelectInSeq
<1>2. I \subseteq 1 .. Len(cols) /\ \A i \in I : cols[i].name = name
  OBVIOUS
<1>3. I \subseteq Nat /\ I \subseteq DOMAIN cols
  BY <1>2
<1> HIDE DEF I
<1>4. I # {} => Min(I) \in I
  BY <1>3, FirstPlace
<1> QED
  BY <1>1, <1>2, <1>3, <1>4

-----------------------------------------------------------------------------
(* Conditions *)

\* The outcomes of conditions are all true, or the first that is not is taken.
LEMMA FirstOutcome ==
  ASSUME NEW f, DOMAIN f \subseteq Nat
  PROVE  /\ FirstOther(f) = "true" <=> \A i \in DOMAIN f : f[i] = "true"
         /\ FirstOther(f) = "true" \/ \E i \in DOMAIN f : FirstOther(f) = f[i]
<1> DEFINE others == {i \in DOMAIN f : f[i] # "true"}
<1>1. FirstOther(f) = IF others = {} THEN "true" ELSE f[Min(others)]
  BY DEF FirstOther
<1>2. others # {} => Min(others) \in others
  BY FirstPlace
<1> QED
  BY <1>1, <1>2

\* What a condition can come to.
LEMMA Outcomes ==
  ASSUME NEW cols, NEW tuple, NEW cond, NEW guess
  PROVE  EvaluateCondition(cols, tuple, cond, guess) \in
           {"true", "false", "QL_INVALIDCONDITION", "QL_INCOMPATIBLETYPES"}
<1>1. \A lhs, rhs, op : CompareValues(lhs, rhs, op, guess) \in
           {"true", "false", "QL_INVALIDCONDITION", "QL_INCOMPATIBLETYPES"}
  BY DEF CompareValues
<1> QED
  BY <1>1 DEF EvaluateCondition

\* A tuple comes out of the plan if and only if it satisfies every condition.
LEMMA PassMeansAll ==
  ASSUME NEW S, NEW conditions \in Seq(S), NEW relation, NEW selected,
         NEW cols, NEW tuple, NEW guess
  PROVE  /\ PassTuple(OptimizeQuery(relation, selected, conditions), cols, tuple, guess) = "true"
            <=>
              \A i \in DOMAIN conditions :
                 EvaluateCondition(cols, tuple, conditions[i], guess) = "true"
         /\ PassTuple(OptimizeQuery(relation, selected, conditions), cols, tuple, guess) \in
              {"true", "false", "QL_INVALIDCONDITION", "QL_INCOMPATIBLETYPES"}
         /\ \/ PassTuple(OptimizeQuery(relation, selected, conditions), cols, tuple, guess) = "true"
            \/ \E i \in DOMAIN conditions :
                 PassTuple(OptimizeQuery(relation, selected, conditions), cols, tuple, guess) =
                   EvaluateCondition(cols, tuple, conditions[i], guess)
<1> DEFINE sel == Restrict(conditions, {i \in DOMAIN conditions :
                                           IsSelectionCondition(conditions[i], relation)})
           f   == [i \in DOMAIN sel |-> EvaluateCondition(cols, tuple, sel[i], guess)]
<1>1. OptimizeQuery(relation, selected, conditions).selections = sel
  BY DEF OptimizeQuery
<1>2. \A i \in DOMAIN conditions : IsSelectionCondition(conditions[i], relation)
  BY DEF IsSelectionCondition, GetRelationName
<1>3. DOMAIN sel = DOMAIN conditions /\ \A i \in DOMAIN conditions : sel[i] = conditions[i]
  BY <1>2 DEF Restrict
<1> HIDE DEF sel
<1>4. PassTuple(OptimizeQuery(relation, selected, conditions), cols, tuple, guess) = FirstOther(f)
  BY <1>1 DEF PassTuple
<1>5. DOMAIN f \subseteq Nat
  BY <1>3
<1>6. \A i \in DOMAIN conditions :
        f[i] = EvaluateCondition(cols, tuple, conditions[i], guess)
  BY <1>3
<1>7. DOMAIN f = DOMAIN conditions
  BY <1>3
<1> HIDE DEF f
<1> QED
  BY <1>4, <1>5, <1>6, <1>7, FirstOutcome, Outcomes

\* An UPDATE finds a row only if it satisfies every condition, and every such
\* row unless a column is on the right of a condition.
LEMMA UpdateMeansAll ==
  ASSUME NEW conditions \in Seq(ParsedCondition), NEW cols, NEW tuple, NEW guess
  PROVE  /\ UpdateMatches(cols, tuple, conditions, guess) = "true" =>
              DeleteMatches(cols, tuple, conditions, guess)
         /\ DeleteMatches(cols, tuple, conditions, guess) =>
              \/ UpdateMatches(cols, tuple, conditions, guess) = "true"
              \/ \E i \in DOMAIN conditions : conditions[i].bRhsIsAttr
<1> DEFINE f == [i \in DOMAIN conditions |-> UpdateOutcome(cols, tuple, conditions[i], guess)]
<1>1. UpdateMatches(cols, tuple, conditions, guess) = FirstOther(f)
  BY DEF UpdateMatches
<1>2. DOMAIN f = DOMAIN conditions /\ DOMAIN f \subseteq Nat
  OBVIOUS
<1>3. ASSUME NEW i \in DOMAIN conditions
      PROVE  /\ f[i] = "true" => EvaluateCondition(cols, tuple, conditions[i], guess) = "true"
             /\ EvaluateCondition(cols, tuple, conditions[i], guess) = "true" =>
                  f[i] = "true" \/ conditions[i].bRhsIsAttr
  <2>1. f[i] = UpdateOutcome(cols, tuple, conditions[i], guess)
    BY <1>3
  <2>2. conditions[i] \in ParsedCondition
    BY <1>3
  <2> DEFINE cond == conditions[i]
             j    == FindAttr(cols, cond.lhsAttr)
             e    == EvaluateCondition(cols, tuple, cond, guess)
  <2>3. cond.bRhsIsAttr \in BOOLEAN
    BY <2>2 DEF ParsedCondition
  <2>4. e = "true" => j # 0
    BY DEF EvaluateCondition
  <2>5. /\ j # 0 /\ ~ cond.bRhsIsAttr => UpdateOutcome(cols, tuple, cond, guess) = e
        /\ j = 0 \/ cond.bRhsIsAttr =>
             UpdateOutcome(cols, tuple, cond, guess) \in {"false", "null"}
    <3> HIDE DEF j, e
    <3> QED
      BY <2>3 DEF UpdateOutcome, j, e
  <2> HIDE DEF cond, j, e, f
  <2> QED
    BY <2>1, <2>3, <2>4, <2>5 DEF cond, j, e
<1> HIDE DEF f
<1>4. FirstOther(f) = "true" <=> \A i \in DOMAIN f : f[i] = "true"
  BY <1>2, FirstOutcome
<1> QED
  BY <1>1, <1>2, <1>3, <1>4 DEF DeleteMatches

\* The rows shown are those that DELETE matches.
LEMMA ShownMeansMatched ==
  ASSUME parsed \in ParsedStatement, NEW r \in RID
  PROVE  r \in Shown <=>
           before[r] # NoRow /\ DeleteMatches(columns, before[r], parsed.conditions, 0)
<1>1. parsed.conditions \in Seq(ParsedCondition)
  BY DEF ParsedStatement
<1>2. PassTuple(OptimizeQuery(Table, << <<"*">> >>, parsed.conditions), columns, before[r], 0)
        = "true" <=> DeleteMatches(columns, before[r], parsed.conditions, 0)
  BY <1>1, PassMeansAll DEF DeleteMatches
<1> QED
  BY <1>2 DEF Shown, ShownBy

\* A plan that knows no column lets every row pass if there are no conditions, and
\* otherwise ends with an error at the first.
LEMMA NoColumnsNoConditions ==
  ASSUME parsed \in ParsedStatement, NEW tuple, NEW guess
  PROVE  /\ PassTuple(Plan, << >>, tuple, guess) = "true" => parsed.conditions = << >>
         /\ PassTuple(Plan, << >>, tuple, guess) # "false"
<1>1. parsed.conditions \in Seq(ParsedCondition)
  BY DEF ParsedStatement
<1>2. \A name : FindAttr(<< >>, name) = 0
  <2> SUFFICES ASSUME NEW name PROVE FindAttr(<< >>, name) = 0
    OBVIOUS
  <2>1. << >> \in Seq({1}) /\ DOMAIN << >> = {}
    OBVIOUS
  <2> QED
    BY <2>1, FindAttrPlace
<1>3. \A cond : EvaluateCondition(<< >>, tuple, cond, guess) = "QL_INVALIDCONDITION"
  BY <1>2 DEF EvaluateCondition
<1> DEFINE pass == PassTuple(OptimizeQuery(parsed.tableName, parsed.columnNames,
                                          parsed.conditions), << >>, tuple, guess)
<1>4. /\ pass = "true" <=> \A i \in DOMAIN parsed.conditions :
            EvaluateCondition(<< >>, tuple, parsed.conditions[i], guess) = "true"
      /\ \/ pass = "true"
         \/ \E i \in DOMAIN parsed.conditions :
              pass = EvaluateCondition(<< >>, tuple, parsed.conditions[i], guess)
  BY <1>1, PassMeansAll
<1>5. pass = PassTuple(Plan, << >>, tuple, guess)
  BY DEF Plan
<1> HIDE DEF pass
<1>6. pass # "false"
  BY <1>3, <1>4
<1>7. pass = "true" => DOMAIN parsed.conditions = {}
  BY <1>3, <1>4
<1>8. DOMAIN parsed.conditions = {} => parsed.conditions = << >>
  <2>1. DOMAIN parsed.conditions = 1 .. Len(parsed.conditions) /\ Len(parsed.conditions) \in Nat
    BY <1>1
  <2>2. \A n \in Nat : 1 .. n = {} => n = 0
    OBVIOUS
  <2>3. DOMAIN parsed.conditions = {} => Len(parsed.conditions) = 0
    BY <2>1, <2>2
  <2> QED
    BY <1>1, <2>3, EmptySeq
<1> QED
  BY <1>5, <1>6, <1>7, <1>8

\* What SELECT prints of a row satisfies the conditions, and what it passes over
\* does not; and the error it may end with.
LEMMA PlanPasses ==
  ASSUME StatementsInv, NEW tuple, NEW guess
  PROVE  /\ PassTuple(Plan, attrs, tuple, guess) = "true" =>
              DeleteMatches(columns, tuple, parsed.conditions, guess)
         /\ PassTuple(Plan, attrs, tuple, guess) = "false" =>
              ~ DeleteMatches(columns, tuple, parsed.conditions, guess)
         /\ PassTuple(Plan, attrs, tuple, guess) \in
              {"true", "false", "QL_INVALIDCONDITION", "QL_INCOMPATIBLETYPES"}
<1>1. parsed \in ParsedStatement /\ parsed.conditions \in Seq(ParsedCondition)
  BY DEF StatementsInv, StatementOK, ParsedStatement
<1>2. \A cols : /\ PassTuple(Plan, cols, tuple, guess) = "true" <=>
                     DeleteMatches(cols, tuple, parsed.conditions, guess)
                /\ PassTuple(Plan, cols, tuple, guess) \in
                     {"true", "false", "QL_INVALIDCONDITION", "QL_INCOMPATIBLETYPES"}
  BY <1>1, PassMeansAll DEF DeleteMatches, Plan
<1>3. CASE attrs = columns
  BY <1>2, <1>3
<1>4. CASE attrs = << >>
  <2>1. parsed.conditions = << >> => DeleteMatches(columns, tuple, parsed.conditions, guess)
    BY DEF DeleteMatches
  <2> QED
    BY <1>1, <1>2, <1>4, <2>1, NoColumnsNoConditions
<1> QED
  BY <1>3, <1>4 DEF StatementsInv, TypeOK

-----------------------------------------------------------------------------
(* The scan *)

\* The next record of a scan is as it was when the statement began, the scan has
\* not found it before, and no row between the two is shown.
LEMMA NextRecord ==
  ASSUME StatementsInv, pc = "scan", NEW r \in RID, NextRec(r)
  PROVE  /\ r > at /\ rows[r] = before[r] /\ before[r] # NoRow /\ r \notin found
         /\ \A q \in Shown : q <= r => q <= at \/ q = r
         /\ Typed => Guesses(rows[r]) = {0}
<1>1. r > at /\ rows[r] # NoRow /\ \A q \in RID : q > at /\ rows[q] # NoRow => r <= q
  BY DEF NextRec, Rest
<1>2. \A q \in RID : q > at => rows[q] = before[q]
  BY DEF StatementsInv, ScanSoFar
<1>3. at \in Nat /\ RID \subseteq Nat
  BY BoundsAssumption DEF StatementsInv, TypeOK, RID
<1>4. r \notin found
  BY <1>1, <1>3 DEF StatementsInv, ScanSoFar
<1>5. ASSUME NEW q \in Shown, q <= r PROVE q <= at \/ q = r
  <2>1. q \in RID /\ before[q] # NoRow
    BY DEF Shown, ShownBy
  <2> QED
    BY <1>1, <1>2, <1>3, <1>5, <2>1
<1>6. Typed => Guesses(rows[r]) = {0}
  BY <1>1, <1>2 DEF Typed, Guesses
<1> QED
  BY <1>1, <1>2, <1>4, <1>5, <1>6

\* When the scan is at its end, it has dealt with every row that is shown.
LEMMA NoMoreRecords ==
  ASSUME StatementsInv, pc = "scan", Rest = {}
  PROVE  Shown = {r \in Shown : r <= at}
<1>1. \A r \in RID : r > at => before[r] = NoRow
  BY DEF Rest, StatementsInv, ScanSoFar
<1>2. at \in Nat /\ RID \subseteq Nat
  BY BoundsAssumption DEF StatementsInv, TypeOK, RID
<1>3. ASSUME NEW r \in Shown PROVE r <= at
  <2>1. r \in RID /\ before[r] # NoRow
    BY DEF Shown, ShownBy
  <2> QED
    BY <1>1, <1>2, <2>1
<1> QED
  BY <1>3

\* What a statement shows depends on the statement, the table's columns and the
\* rows there were before.
LEMMA ShownFrame ==
  ASSUME UNCHANGED <<columns, before, parsed>>
  PROVE  /\ UNCHANGED <<Shown, Typed, RightColumn>>
         /\ \A types : OnTable(types)' <=> OnTable(types)
<1>1. Shown' = Shown
  BY DEF Shown, ShownBy
<1>2. Typed' = Typed
  BY DEF Typed, HasForeignBytes
<1>3. RightColumn' = RightColumn
  BY DEF RightColumn
<1>4. \A types : OnTable(types)' <=> OnTable(types)
  BY DEF OnTable, HasTable
<1> QED
  BY <1>1, <1>2, <1>3, <1>4

\* What may come back is as good as it was if the columns are the same.
LEMMA ComesBackFrame ==
  ASSUME StatementsInv, UNCHANGED <<columns, leaked, before>>, retyped \subseteq retyped',
         pc' \in Busy => pc \in Busy
  PROVE  ComesBackOK'
<1>1. \A tuple : Fits(tuple) => Fits(tuple)'
  BY DEF Fits
<1> QED
  BY <1>1 DEF StatementsInv, ComesBackOK, NothingLeaked

\* A fetch fails, or nothing that has to do with failures happens.
LEMMA FaultsStayKept ==
  ASSUME StatementsInv, FetchFails \/ UNCHANGED faultVars
  PROVE  FaultsKept /\ (FetchFails => faulted')
<1>1. faults \in 0 .. MaxFaults /\ MaxFaults \in Nat /\ faulted \in BOOLEAN
  BY BoundsAssumption DEF StatementsInv, TypeOK
<1>2. CASE FetchFails
  BY <1>1, <1>2 DEF FetchFails, FaultsKept
<1>3. CASE UNCHANGED faultVars
  BY <1>1, <1>3 DEF FetchFails, FaultsKept, faultVars
<1> QED
  BY <1>2, <1>3

-----------------------------------------------------------------------------
(* Each step keeps the invariant *)

\* At the beginning nothing is typed and there is no table.
LEMMA InitLemma ==
  Init => StatementsInv
<1> SUFFICES ASSUME Init PROVE StatementsInv
  OBVIOUS
<1> USE DEF Init
<1>1. parsed \in ParsedStatement /\ (parsed.type = "CREATE_TABLE" => parsed.tableName = Table)
  BY WrittenAssumption
<1>2. NoRows \in [RID -> Seq(Value) \union {NoRow}]
  BY DEF NoRows
<1>3. TypeOK
  <2>1. columns \in Seq([name : Seq(STRING), type : ColumnType])
    OBVIOUS
  <2>2. at \in {0} \union RID /\ count \in 0 .. MaxRows /\ faults \in 0 .. MaxFaults
    BY BoundsAssumption
  <2>3. /\ DOMAIN leaked = 1 .. MaxFaults
        /\ \A close \in DOMAIN leaked : DOMAIN leaked[close] = {}
    BY DEF NothingLeaked
  <2> QED
    BY <1>2, <2>1, <2>2, <2>3 DEF TypeOK
<1>4. RowsHaveColumnTypes
  BY DEF RowsHaveColumnTypes, NoRows
<1>5. StatementOK
  BY <1>1, <1>2 DEF StatementOK
<1>6. ScanSoFar /\ DeleteSoFar /\ DoneBeforeClose /\ Reported
  BY DEF ScanSoFar, DeleteSoFar, DoneBeforeClose, Reported, SelectIsCompleteOrFails,
         SameRowsForEveryStatement, OnlyMatchingRowsTouched, CountsReported, InsertAllOrNothing
<1>7. ComesBackOK
  BY DEF ComesBackOK, NothingLeaked, Busy
<1> QED
  BY <1>3, <1>4, <1>5, <1>6, <1>7 DEF StatementsInv

\* A line is typed.
LEMMA TypeKeeps ==
  ASSUME StatementsInv, NEW s \in Written, Type(s)
  PROVE  StatementsInv'
<1> USE DEF Type, tableVars, faultVars
<1>1. parsed' \in ParsedStatement /\ (parsed'.type = "CREATE_TABLE" => parsed'.tableName = Table)
  BY WrittenAssumption
<1>2. TypeOK'
  BY DEF StatementsInv, TypeOK
<1>3. RowsHaveColumnTypes'
  BY DEF StatementsInv, RowsHaveColumnTypes
<1>4. StatementOK'
  BY <1>1 DEF StatementsInv, StatementOK, TypeOK
<1>5. Changed' = {}
  BY DEF Changed
<1>6. ScanSoFar' /\ DeleteSoFar' /\ DoneBeforeClose' /\ Reported'
  BY <1>5 DEF ScanSoFar, DeleteSoFar, DoneBeforeClose, Reported, SelectIsCompleteOrFails,
         SameRowsForEveryStatement, OnlyMatchingRowsTouched, CountsReported, InsertAllOrNothing
<1>7. ComesBackOK'
  <2>1. \A tuple : Fits(tuple)' <=> Fits(tuple)
    BY DEF Fits
  <2>2. \A r \in RID : rows[r] # NoRow => Fits(rows[r])
    BY DEF StatementsInv, RowsHaveColumnTypes, Fits
  <2> QED
    BY <2>1, <2>2 DEF StatementsInv, ComesBackOK, NothingLeaked
<1> QED
  BY <1>2, <1>3, <1>4, <1>6, <1>7 DEF StatementsInv

\* The prompt is back.
LEMMA PromptKeeps ==
  ASSUME StatementsInv, Prompt
  PROVE  StatementsInv'
<1> USE DEF Prompt, tableVars
<1>1. parsed' \in ParsedStatement /\ (parsed'.type = "CREATE_TABLE" => parsed'.tableName = Table)
  BY WrittenAssumption
<1>2. TypeOK'
  <2>1. at' \in {0} \union RID /\ count' \in 0 .. MaxRows
    BY BoundsAssumption
  <2> QED
    BY <2>1 DEF StatementsInv, TypeOK
<1>3. RowsHaveColumnTypes'
  BY DEF StatementsInv, RowsHaveColumnTypes
<1>4. NoRows \in [RID -> Seq(Value) \union {NoRow}]
  BY DEF NoRows
<1>5. StatementOK'
  BY <1>1, <1>4 DEF StatementsInv, StatementOK
<1>6. ScanSoFar' /\ DeleteSoFar' /\ DoneBeforeClose' /\ Reported'
  BY DEF ScanSoFar, DeleteSoFar, DoneBeforeClose, Reported, SelectIsCompleteOrFails,
         SameRowsForEveryStatement, OnlyMatchingRowsTouched, CountsReported, InsertAllOrNothing
<1>7. ComesBackOK'
  <2>1. \A tuple : Fits(tuple)' <=> Fits(tuple)
    BY DEF Fits
  <2> QED
    BY <2>1 DEF StatementsInv, ComesBackOK, NothingLeaked, Busy
<1> QED
  BY <1>2, <1>3, <1>5, <1>6, <1>7 DEF StatementsInv

\* A statement returns before it has done anything to a record.
LEMMA ReturnsAsItWas ==
  ASSUME StatementsInv, pc = "parsed", NEW code, Return(code),
         UNCHANGED <<columns, rows, retyped>>,
         indexed' \subseteq {columns[i].name : i \in DOMAIN columns},
         FaultsKept,
         OnTable(Scanned) \/ parsed.type = "INSERT" => code \notin {"OK", "RM_EOF"}
  PROVE  StatementsInv'
<1> USE DEF Return, typedVars, FaultsKept
<1>1. TypeOK'
  BY DEF StatementsInv, TypeOK
<1>2. RowsHaveColumnTypes'
  BY DEF StatementsInv, RowsHaveColumnTypes
<1>3. StatementOK'
  BY DEF StatementsInv, StatementOK, NoRows
<1>4. Changed' = {} /\ found' = {} /\ count' = 0
  BY DEF StatementsInv, StatementOK, Changed
<1>5. Cardinality({}) = 0
  BY FS_EmptySet
<1>6. \A types : OnTable(types)' <=> OnTable(types)
  BY ShownFrame
<1>7. \A types : types \subseteq Scanned /\ OnTable(types) => OnTable(Scanned)
  BY DEF OnTable
<1>8. SelectIsCompleteOrFails' /\ SameRowsForEveryStatement'
  BY <1>6, <1>7 DEF SelectIsCompleteOrFails, SameRowsForEveryStatement, Scanned
<1>9. OnlyMatchingRowsTouched' /\ CountsReported' /\ InsertAllOrNothing'
  BY <1>4, <1>5 DEF OnlyMatchingRowsTouched, CountsReported, InsertAllOrNothing
<1>10. ScanSoFar' /\ DeleteSoFar' /\ DoneBeforeClose'
  BY DEF ScanSoFar, DeleteSoFar, DoneBeforeClose
<1>11. ComesBackOK'
  BY ComesBackFrame DEF Busy
<1> QED
  BY <1>1, <1>2, <1>3, <1>8, <1>9, <1>10, <1>11 DEF StatementsInv, Reported

\* Statements that do nothing, that are rejected, or whose first fetch fails.
LEMMA EarlyReturnKeeps ==
  ASSUME StatementsInv,
         \/ NothingElse \/ ExecuteDropIndex \/ ExecuteCreateIndex
         \/ InsertRejected \/ InsertFails \/ ScanRejected \/ OpenFails
  PROVE  StatementsInv'
<1> USE DEF tableVars, Running
<1>1. /\ indexed \subseteq {columns[i].name : i \in DOMAIN columns}
      /\ UNCHANGED faultVars => FaultsKept
  BY FaultsStayKept DEF StatementsInv, TypeOK
<1>2. FetchFails => FaultsKept
  BY FaultsStayKept
<1>3. CASE NothingElse
  <2>1. ~ OnTable(Scanned) /\ parsed.type # "INSERT"
    BY <1>3 DEF NothingElse, OnTable, Scanned
  <2> QED
    BY <1>1, <1>3, <2>1, ReturnsAsItWas DEF NothingElse
<1>4. CASE ExecuteDropIndex
  BY <1>1, <1>4, ReturnsAsItWas DEF ExecuteDropIndex
<1>5. CASE ExecuteCreateIndex
  <2>1. ~ OnTable(Scanned) /\ parsed.type # "INSERT" /\ pc = "parsed"
    BY <1>5 DEF ExecuteCreateIndex, OnTable, Scanned
  <2>2. UNCHANGED <<columns, rows, retyped>> /\ FaultsKept
    BY <1>1, <1>5 DEF ExecuteCreateIndex
  <2>3. CASE parsed.columnNames = << >>
    BY <1>1, <1>5, <2>1, <2>2, <2>3, ReturnsAsItWas DEF ExecuteCreateIndex
  <2>4. CASE parsed.columnNames # << >>
    <3> DEFINE name == parsed.columnNames[1]
               code == CreateIndexCode(name)
    <3>1. /\ Return(code)
          /\ indexed' = IF code = "OK" THEN indexed \union {name} ELSE indexed
      BY <1>5, <2>4 DEF ExecuteCreateIndex
    <3>2. code = "OK" => FindAttr(columns, name) # 0
      BY DEF CreateIndexCode
    <3>3. columns \in Seq([name : Seq(STRING), type : ColumnType])
      BY DEF StatementsInv, TypeOK
    <3>4. FindAttr(columns, name) # 0 => name \in {columns[i].name : i \in DOMAIN columns}
      BY <3>3, FindAttrPlace
    <3> HIDE DEF code, name
    <3>5. indexed' \subseteq {columns[i].name : i \in DOMAIN columns}
      BY <1>1, <3>1, <3>2, <3>4
    <3> QED
      BY <1>1, <2>1, <2>2, <3>1, <3>5, ReturnsAsItWas
  <2> QED
    BY <2>3, <2>4
<1>6. CASE InsertRejected
  <2>1. InsertCode \notin {"OK", "RM_EOF"}
    BY <1>6 DEF InsertRejected, InsertCode
  <2> QED
    BY <1>1, <1>6, <2>1, ReturnsAsItWas DEF InsertRejected
<1>7. CASE InsertFails
  BY <1>1, <1>2, <1>7, ReturnsAsItWas DEF InsertFails
<1>8. CASE ScanRejected
  <2>1. parsed.type \in Scanned /\ ScanCode # "scan"
    BY <1>8 DEF ScanRejected
  <2>2. OnTable(Scanned) => ScanCode \notin {"OK", "RM_EOF"}
    BY <2>1 DEF ScanCode, OnTable, HasTable, Table, NoName
  <2>3. parsed.type # "INSERT"
    BY <2>1 DEF Scanned
  <2> QED
    BY <1>1, <1>8, <2>2, <2>3, ReturnsAsItWas DEF ScanRejected
<1>9. CASE OpenFails
  <2>1. PICK code \in {"PF_ERROR", "QL_NOSUCHTABLE"} : Return(code)
    BY <1>9 DEF OpenFails
  <2> QED
    BY <1>1, <1>2, <1>9, <2>1, ReturnsAsItWas DEF OpenFails
<1> QED
  BY <1>3, <1>4, <1>5, <1>6, <1>7, <1>8, <1>9

\* The table is created: there was none, hence no rows and no indexes.
LEMMA CreateTableKeeps ==
  ASSUME StatementsInv, ExecuteCreateTable
  PROVE  StatementsInv'
<1> USE DEF Running
<1>1. /\ pc = "parsed" /\ parsed.type = "CREATE_TABLE" /\ Return(CreateTableCode)
      /\ IF rc' = "OK" THEN columns' = Attributes /\ retyped' = {}
         ELSE UNCHANGED <<columns, retyped>>
      /\ UNCHANGED <<indexed, rows, faultVars>>
  BY DEF ExecuteCreateTable
<1>2. ~ OnTable(Scanned) /\ parsed.type # "INSERT"
  BY <1>1 DEF OnTable, Scanned
<1>3. CASE CreateTableCode # "OK"
  <2>1. rc' # "OK"
    BY <1>1, <1>3 DEF Return
  <2>2. indexed' \subseteq {columns[i].name : i \in DOMAIN columns} /\ FaultsKept
    BY <1>1, FaultsStayKept DEF StatementsInv, TypeOK
  <2> QED
    BY <1>1, <1>2, <2>1, <2>2, ReturnsAsItWas
<1>4. CASE CreateTableCode = "OK"
  <2>1. columns' = Attributes
    BY <1>1, <1>4 DEF Return
  <2>2. Attributes # << >> /\ ~ HasTable(parsed.tableName)
    BY <1>4 DEF CreateTableCode
  <2>3. columns = << >> /\ rows = NoRows
    BY <1>1, <2>2 DEF StatementsInv, StatementOK, HasTable
  <2>4. indexed = {}
    BY <2>3 DEF StatementsInv, TypeOK
  <2>5. Attributes \in Seq([name : Seq(STRING), type : ColumnType])
    <3>1. parsed.columnNames \in Seq(Name) /\ parsed.columnTypes \in Seq(ColumnType)
      BY DEF StatementsInv, StatementOK, ParsedStatement
    <3>2. \A i \in DOMAIN parsed.columnNames :
            Attributes[i] \in [name : Seq(STRING), type : ColumnType]
      BY <3>1 DEF Attributes, Name, ColumnType
    <3>3. DOMAIN Attributes = 1 .. Len(parsed.columnNames) /\ Len(parsed.columnNames) \in Nat
      BY <3>1 DEF Attributes
    <3> DEFINE n == Len(parsed.columnNames)
               S == [name : Seq(STRING), type : ColumnType]
    <3>4. Attributes = [i \in 1 .. n |-> Attributes[i]]
      BY <3>1 DEF Attributes
    <3>5. DOMAIN parsed.columnNames = 1 .. n
      BY <3>1
    <3> HIDE DEF S, n
    <3>6. Attributes \in [1 .. n -> S]
      BY <3>2, <3>3, <3>4, <3>5 DEF S, n
    <3>7. n \in Nat
      BY <3>3 DEF n
    <3> QED
      BY <3>6, <3>7, Zenon, SeqDef DEF S
  <2> USE DEF Return, typedVars, faultVars
  <2>6. TypeOK'
    BY <1>1, <2>1, <2>4, <2>5 DEF StatementsInv, StatementOK, TypeOK
  <2>7. RowsHaveColumnTypes'
    BY <1>1, <2>3 DEF RowsHaveColumnTypes, NoRows
  <2>8. StatementOK'
    BY <1>1, <2>1, <2>2 DEF StatementsInv, StatementOK
  <2>9. ScanSoFar' /\ DeleteSoFar' /\ DoneBeforeClose'
    BY <1>1 DEF ScanSoFar, DeleteSoFar, DoneBeforeClose
  <2>10. Reported'
    BY <1>1 DEF Reported, SelectIsCompleteOrFails, SameRowsForEveryStatement,
         OnlyMatchingRowsTouched, CountsReported, InsertAllOrNothing, OnTable
  <2>11. ComesBackOK'
    <3>1. leaked' = NothingLeaked /\ NothingLeaked' = NothingLeaked /\ pc' \notin Busy
      BY <1>1, <2>3 DEF StatementsInv, ComesBackOK, NothingLeaked, Busy
    <3>2. \A close \in DOMAIN NothingLeaked : DOMAIN NothingLeaked[close] = {}
      BY DEF NothingLeaked
    <3> QED
      BY <3>1, <3>2 DEF ComesBackOK
  <2> QED
    BY <2>6, <2>7, <2>8, <2>9, <2>10, <2>11 DEF StatementsInv
<1> QED
  BY <1>3, <1>4

\* The table is dropped, with its rows and indexes.
LEMMA DropTableKeeps ==
  ASSUME StatementsInv, ExecuteDropTable
  PROVE  StatementsInv'
<1> USE DEF Running, Return, typedVars
<1>1. /\ pc = "parsed" /\ parsed.type = "DROP_TABLE"
      /\ UNCHANGED <<faults, faulted, unclosed, overwritten, retyped>>
  BY DEF ExecuteDropTable
<1>2. CASE ~ HasTable(parsed.tableName)
  <2>1. ~ OnTable(Scanned) /\ parsed.type # "INSERT"
    BY <1>1 DEF OnTable, Scanned
  <2>2. Return("SM_RELNOTFOUND") /\ UNCHANGED <<columns, indexed, rows, leaked>>
    BY <1>2 DEF ExecuteDropTable, tableVars
  <2>3. indexed' \subseteq {columns[i].name : i \in DOMAIN columns} /\ FaultsKept
    BY <1>1, <2>2 DEF StatementsInv, TypeOK, FaultsKept
  <2> HIDE DEF Return
  <2> QED
    BY <1>1, <2>1, <2>2, <2>3, ReturnsAsItWas
<1>3. CASE HasTable(parsed.tableName)
  <2>1. /\ Return("OK") /\ columns' = << >> /\ indexed' = {} /\ rows' = NoRows
        /\ leaked' = NothingLeaked
    BY <1>3 DEF ExecuteDropTable
  <2>2. columns' \in Seq([name : Seq(STRING), type : ColumnType])
    BY <2>1
  <2>3. NoRows \in [RID -> Seq(Value) \union {NoRow}]
    BY DEF NoRows
  <2>4. TypeOK'
    <3>1. /\ DOMAIN leaked' = 1 .. MaxFaults
          /\ \A close \in DOMAIN leaked' : DOMAIN leaked'[close] = {}
      BY <2>1 DEF NothingLeaked
    <3> QED
      BY <1>1, <2>1, <2>2, <2>3, <3>1 DEF StatementsInv, StatementOK, TypeOK
  <2>5. RowsHaveColumnTypes'
    BY <2>1 DEF RowsHaveColumnTypes, NoRows
  <2>6. StatementOK'
    BY <1>1, <2>1 DEF StatementsInv, StatementOK, NoRows
  <2>7. ScanSoFar' /\ DeleteSoFar' /\ DoneBeforeClose'
    BY <2>1 DEF ScanSoFar, DeleteSoFar, DoneBeforeClose
  <2>8. Reported'
    BY <1>1, <2>1 DEF Reported, SelectIsCompleteOrFails, SameRowsForEveryStatement,
         OnlyMatchingRowsTouched, CountsReported, InsertAllOrNothing, OnTable
  <2>9. ComesBackOK'
    <3>1. NothingLeaked' = NothingLeaked /\ pc' \notin Busy
      BY <2>1 DEF NothingLeaked, Busy
    <3>2. \A close \in DOMAIN NothingLeaked : DOMAIN NothingLeaked[close] = {}
      BY DEF NothingLeaked
    <3> QED
      BY <2>1, <3>1, <3>2 DEF ComesBackOK
  <2> QED
    BY <2>4, <2>5, <2>6, <2>7, <2>8, <2>9 DEF StatementsInv
<1> QED
  BY <1>2, <1>3

\* One record is inserted.
LEMMA InsertTupleKeeps ==
  ASSUME StatementsInv, InsertTuple
  PROVE  StatementsInv'
<1> USE DEF Running, Close, typedVars, faultVars
<1>1. /\ pc = "parsed" /\ parsed.type = "INSERT" /\ InsertCode = "OK" /\ Close("OK")
      /\ UNCHANGED <<columns, indexed, faultVars, retyped>>
  BY DEF InsertTuple
<1>2. PICK r \in RID : rows[r] = NoRow /\ rows' = [rows EXCEPT ![r] = parsed.values]
  BY DEF InsertTuple
<1>3. /\ HasTable(parsed.tableName) /\ Len(parsed.values) = Len(columns)
      /\ \A i \in DOMAIN columns : parsed.values[i].type = columns[i].type
  BY <1>1 DEF InsertCode
<1>4. parsed.values \in Seq(Value) /\ parsed.values # NoRow
  BY NoRowAssumption DEF StatementsInv, StatementOK, ParsedStatement
<1>5. rows \in [RID -> Seq(Value) \union {NoRow}] /\ rows = before
  BY <1>1 DEF StatementsInv, StatementOK, TypeOK
<1>6. rows' \in [RID -> Seq(Value) \union {NoRow}]
  BY <1>2, <1>4, <1>5
<1>7. rows'[r] = parsed.values /\ \A q \in RID : q # r => rows'[q] = rows[q]
  BY <1>2, <1>5
<1>8. TypeOK'
  BY <1>1, <1>6 DEF StatementsInv, TypeOK
<1>9. RowsHaveColumnTypes'
  <2> SUFFICES ASSUME NEW q \in RID, rows'[q] # NoRow
               PROVE  /\ Len(rows'[q]) = Len(columns)
                      /\ \A i \in DOMAIN columns :
                           columns[i].name \notin retyped => rows'[q][i].type = columns[i].type
    BY <1>1 DEF RowsHaveColumnTypes
  <2>1. CASE q = r
    BY <1>3, <1>7, <2>1
  <2>2. CASE q # r
    BY <1>7, <2>2 DEF StatementsInv, RowsHaveColumnTypes
  <2> QED
    BY <2>1, <2>2
<1>10. StatementOK'
  BY <1>1, <1>3 DEF StatementsInv, StatementOK, HasTable
<1>11. ScanSoFar' /\ DeleteSoFar'
  BY <1>1 DEF ScanSoFar, DeleteSoFar
<1>12. Changed' = {r} /\ before'[r] = NoRow
  BY <1>1, <1>2, <1>4, <1>5, <1>7 DEF Changed
<1>13. DoneBeforeClose'
  BY <1>1, <1>3, <1>7, <1>12 DEF DoneBeforeClose, HasTable
<1>14. ~ OnTable({"SELECT"})' /\ ~ OnTable({"DELETE", "UPDATE"})'
       /\ ~ OnTable({"SELECT", "DELETE", "UPDATE"})'
  BY <1>1 DEF OnTable
<1>15. Reported'
  BY <1>1, <1>14 DEF Reported, SelectIsCompleteOrFails, SameRowsForEveryStatement,
       OnlyMatchingRowsTouched, CountsReported, InsertAllOrNothing
<1>16. ComesBackOK'
  BY <1>1, ComesBackFrame DEF Busy
<1> QED
  BY <1>8, <1>9, <1>10, <1>11, <1>13, <1>15, <1>16 DEF StatementsInv

\* A scan is opened, by a plan that may know no column.
LEMMA OpenScanKeeps ==
  ASSUME StatementsInv, OpenScan \/ OpenScanWithoutColumns
  PROVE  StatementsInv'
<1> USE DEF tableVars, typedVars
<1>1. /\ pc = "parsed" /\ parsed.type \in Scanned /\ ScanCode = "scan" /\ pc' = "scan"
      /\ attrs' \in {<< >>, columns}
      /\ UNCHANGED <<tableVars, at, found, count, rc, retyped, typedVars>>
  BY DEF OpenScan, OpenScanWithoutColumns, Running, Scanned
<1>2. FaultsKept
  BY FaultsStayKept DEF OpenScan, OpenScanWithoutColumns
<1>3. TypeOK'
  BY <1>1, <1>2 DEF StatementsInv, TypeOK, FaultsKept
<1>4. RowsHaveColumnTypes'
  BY <1>1 DEF StatementsInv, RowsHaveColumnTypes
<1>5. HasTable(parsed.tableName) /\ (parsed.type = "UPDATE" => UpdateColumn # 0)
  BY <1>1 DEF ScanCode, Scanned
<1>6. (HasTable(parsed.tableName) /\ (parsed.type = "UPDATE" => UpdateColumn # 0))'
  BY <1>5, <1>1 DEF HasTable, UpdateColumn
<1>7. StatementOK'
  BY <1>6, <1>1 DEF StatementsInv, StatementOK, NoRows
<1>8. rows' = before' /\ found' = {} /\ count' = 0 /\ at' = 0 /\ Changed' = {}
  BY <1>1 DEF StatementsInv, StatementOK, Changed
<1>9. ScanSoFar'
  <2>1. Cardinality({}) = 0
    BY FS_EmptySet
  <2>2. \A r \in Shown' : r \in RID
    BY DEF Shown, ShownBy
  <2>3. {r \in Shown' : r <= 0} = {}
    BY <2>2, BoundsAssumption DEF RID
  <2> QED
    BY <1>8, <2>1, <2>3 DEF ScanSoFar
<1>10. DeleteSoFar' /\ DoneBeforeClose' /\ Reported'
  BY <1>8, <1>1 DEF DeleteSoFar, DoneBeforeClose, Reported, SelectIsCompleteOrFails,
       SameRowsForEveryStatement, OnlyMatchingRowsTouched, CountsReported, InsertAllOrNothing
<1>11. ComesBackOK'
  BY <1>1, <1>2, ComesBackFrame DEF Busy, FaultsKept
<1> QED
  BY <1>3, <1>4, <1>7, <1>9, <1>10, <1>11 DEF StatementsInv

\* What the scan has dealt with when it passes on to the next record.
LEMMA ShownUpTo ==
  ASSUME StatementsInv, pc = "scan", NEW r \in RID, NextRec(r)
  PROVE  /\ {q \in Shown : q <= r} \subseteq {q \in Shown : q <= at} \union {r}
         /\ \A q \in RID : q <= at => q <= r
         /\ \A q \in RID : q > r => q > at
<1>1. r > at /\ \A q \in Shown : q <= r => q <= at \/ q = r
  BY NextRecord
<1>2. at \in Nat /\ RID \subseteq Nat
  BY BoundsAssumption DEF StatementsInv, TypeOK, RID
<1> QED
  BY <1>1, <1>2

\* A scan goes on and leaves the record as it is.
LEMMA PassOnKeeps ==
  ASSUME StatementsInv, pc = "scan", NEW r \in RID, NextRec(r),
         at' = r, found' \in {found, found \union {r}},
         UNCHANGED <<tableVars, pc, count, attrs, rc, retyped, typedVars>>, FaultsKept,
         parsed.type = "UPDATE" => found' = found,
         Typed /\ r \in found' => r \in Shown,
         Typed /\ r \in Shown => \/ r \in found'
                                 \/ parsed.type = "UPDATE" /\ (faulted' \/ RightColumn)
  PROVE  StatementsInv'
<1> USE DEF tableVars, typedVars, FaultsKept
<1>1. TypeOK'
  BY DEF StatementsInv, TypeOK
<1>2. RowsHaveColumnTypes'
  BY DEF StatementsInv, RowsHaveColumnTypes
<1>3. StatementOK'
  <2>1. HasTable(parsed.tableName)' <=> HasTable(parsed.tableName)
    BY DEF HasTable
  <2>2. UpdateColumn' = UpdateColumn
    BY DEF UpdateColumn
  <2> QED
    BY <2>1, <2>2 DEF StatementsInv, StatementOK, NoRows
<1>4. UNCHANGED <<Shown, Typed, RightColumn>> /\ Changed' = Changed
  BY ShownFrame DEF Changed
<1>5. /\ r > at /\ before[r] # NoRow
      /\ {q \in Shown : q <= r} \subseteq {q \in Shown : q <= at} \union {r}
      /\ \A q \in RID : (q <= at => q <= r) /\ (q > r => q > at)
  BY NextRecord, ShownUpTo
<1>6. at \in Nat /\ r \in Nat /\ r <= r
  BY BoundsAssumption DEF StatementsInv, TypeOK, RID
<1>7. found \subseteq RID
  BY DEF StatementsInv, TypeOK
<1>8. /\ found \subseteq {q \in RID : q <= at}
      /\ \A q \in RID : q > at => rows[q] = before[q]
      /\ Changed \subseteq found
      /\ parsed.type # "UPDATE" => rows = before /\ count = 0
      /\ parsed.type = "UPDATE" => count = Cardinality(found)
      /\ Typed /\ ~ overwritten => found \subseteq Shown
      /\ Typed /\ ~ overwritten /\ ~ (parsed.type = "UPDATE" /\ (faulted \/ RightColumn)) =>
           {q \in Shown : q <= at} \subseteq found
  BY DEF StatementsInv, ScanSoFar
<1>9. found' \subseteq {q \in RID : q <= r}
  BY <1>5, <1>6, <1>8
<1>10. Typed /\ ~ overwritten => found' \subseteq Shown
  BY <1>8
<1>11. Typed /\ ~ overwritten /\ ~ (parsed.type = "UPDATE" /\ (faulted' \/ RightColumn)) =>
         {q \in Shown : q <= r} \subseteq found'
  BY <1>5, <1>8
<1>12. ScanSoFar'
  BY <1>4, <1>5, <1>8, <1>9, <1>10, <1>11 DEF ScanSoFar
<1>13. DeleteSoFar' /\ DoneBeforeClose' /\ ComesBackOK'
  BY ComesBackFrame DEF DeleteSoFar, DoneBeforeClose
<1>14. OnlyMatchingRowsTouched'
  <2>1. Typed /\ ~ overwritten => Changed \subseteq Shown
    BY <1>8
  <2>2. parsed.type = "SELECT" => Changed = {}
    BY <1>8 DEF Changed
  <2>3. Typed' /\ ~ overwritten' => Changed' \subseteq Shown'
    BY <1>4, <2>1
  <2> QED
    BY <1>4, <2>2, <2>3 DEF OnlyMatchingRowsTouched, Shown
<1>15. Reported'
  BY <1>14 DEF Reported, SelectIsCompleteOrFails, SameRowsForEveryStatement,
       CountsReported, InsertAllOrNothing
<1> QED
  BY <1>1, <1>2, <1>3, <1>12, <1>13, <1>15 DEF StatementsInv

\* A query is at its end, and says so with this code.
LEMMA QueryEndKeeps ==
  ASSUME StatementsInv, pc = "scan", parsed.type = "SELECT", NEW code, Return(code),
         UNCHANGED <<tableVars, retyped>>, FaultsKept,
         code \in {"OK", "RM_EOF"} /\ Typed /\ ~ overwritten => Shown \subseteq found
  PROVE  StatementsInv'
<1> USE DEF tableVars, typedVars, Return, FaultsKept
<1>1. TypeOK'
  BY DEF StatementsInv, TypeOK
<1>2. RowsHaveColumnTypes' /\ ComesBackOK'
  BY ComesBackFrame DEF StatementsInv, RowsHaveColumnTypes, Busy
<1>3. StatementOK'
  BY DEF StatementsInv, StatementOK, NoRows
<1>4. ScanSoFar' /\ DeleteSoFar' /\ DoneBeforeClose'
  BY DEF ScanSoFar, DeleteSoFar, DoneBeforeClose
<1>5. /\ UNCHANGED <<Shown, Typed>> /\ Changed' = Changed
      /\ \A types : OnTable(types)' <=> OnTable(types)
  BY ShownFrame DEF Changed
<1>6. Changed = {} /\ (Typed /\ ~ overwritten => found \subseteq Shown)
  BY DEF StatementsInv, ScanSoFar, Changed
<1>7. ~ OnTable({"DELETE", "UPDATE"})
  BY DEF OnTable
<1>8. SelectIsCompleteOrFails'
  <2>1. (rc \in {"OK", "RM_EOF"} /\ Typed /\ ~ overwritten => found = Shown)'
    BY <1>5, <1>6
  <2> QED
    BY <2>1 DEF SelectIsCompleteOrFails, Shown
<1>9. OnlyMatchingRowsTouched'
  BY <1>5, <1>6 DEF OnlyMatchingRowsTouched
<1>10. SameRowsForEveryStatement' /\ CountsReported' /\ InsertAllOrNothing'
  BY <1>5, <1>7 DEF SameRowsForEveryStatement, CountsReported, InsertAllOrNothing
<1> QED
  BY <1>1, <1>2, <1>3, <1>4, <1>8, <1>9, <1>10 DEF StatementsInv, Reported

\* A row comes out of the plan, is dropped, or ends the query with an error.
LEMMA ScanSelectKeeps ==
  ASSUME StatementsInv, NEW r \in RID, ScanSelect(r)
  PROVE  StatementsInv'
<1> USE DEF Scanning
<1>1. /\ pc = "scan" /\ parsed.type = "SELECT" /\ NextRec(r)
      /\ UNCHANGED <<tableVars, faultVars, retyped>>
  BY DEF ScanSelect
<1>2. PICK guess \in Guesses(rows[r]) :
        LET outcome == PassTuple(Plan, attrs, rows[r], guess)
        IN  IF outcome \in {"true", "false"}
            THEN /\ at' = r
                 /\ found' = IF outcome = "true" THEN found \union {r} ELSE found
                 /\ UNCHANGED <<pc, count, attrs, rc, typedVars>>
            ELSE Return(outcome)
  BY DEF ScanSelect
<1> DEFINE outcome == PassTuple(Plan, attrs, rows[r], guess)
<1>3. FaultsKept
  BY <1>1, FaultsStayKept
<1>4. rows[r] = before[r] /\ before[r] # NoRow /\ (Typed => Guesses(rows[r]) = {0})
  BY <1>1, NextRecord
<1>5. Typed => guess = 0
  BY <1>4
<1>6. parsed \in ParsedStatement
  BY DEF StatementsInv, StatementOK
<1>7. outcome \in {"true", "false", "QL_INVALIDCONDITION", "QL_INCOMPATIBLETYPES"}
  BY PlanPasses
<1>8. /\ outcome = "true" => DeleteMatches(columns, rows[r], parsed.conditions, guess)
      /\ outcome = "false" => ~ DeleteMatches(columns, rows[r], parsed.conditions, guess)
  BY PlanPasses
<1>9. Typed => (outcome = "true" => r \in Shown) /\ (outcome = "false" => r \notin Shown)
  <2> HIDE DEF outcome
  <2> QED
    BY <1>4, <1>5, <1>6, <1>8, ShownMeansMatched
<1> HIDE DEF outcome
<1>10. CASE outcome \in {"true", "false"}
  <2>1. /\ at' = r
        /\ found' = IF outcome = "true" THEN found \union {r} ELSE found
        /\ UNCHANGED <<pc, count, attrs, rc, typedVars>>
    BY <1>2, <1>10 DEF outcome
  <2>2. r \notin found
    BY <1>1, NextRecord
  <2>3. found' \in {found, found \union {r}} /\ (r \in found' <=> outcome = "true")
    BY <2>1, <2>2
  <2>4. (Typed /\ r \in found' => r \in Shown) /\ (Typed /\ r \in Shown => r \in found')
    BY <1>9, <1>10, <2>3
  <2>5. UNCHANGED <<tableVars, pc, count, attrs, rc, retyped, typedVars>>
    BY <1>1, <2>1
  <2> QED
    BY <1>1, <1>3, <2>1, <2>3, <2>4, <2>5, PassOnKeeps
<1>11. CASE outcome \notin {"true", "false"}
  <2>1. Return(outcome) /\ outcome \notin {"OK", "RM_EOF"}
    BY <1>2, <1>7, <1>11 DEF outcome
  <2> QED
    BY <1>1, <1>3, <2>1, QueryEndKeeps
<1> QED
  BY <1>10, <1>11

\* A row is put down to be deleted, or not.
LEMMA ScanDeleteKeeps ==
  ASSUME StatementsInv, NEW r \in RID, ScanDelete(r)
  PROVE  StatementsInv'
<1> USE DEF Scanning
<1>1. /\ pc = "scan" /\ parsed.type = "DELETE" /\ NextRec(r) /\ at' = r
      /\ UNCHANGED <<tableVars, pc, count, attrs, rc, faultVars, retyped, typedVars>>
  BY DEF ScanDelete
<1>2. PICK guess \in Guesses(rows[r]) :
        found' = IF DeleteMatches(columns, rows[r], parsed.conditions, guess)
                 THEN found \union {r} ELSE found
  BY DEF ScanDelete
<1>3. FaultsKept
  BY <1>1, FaultsStayKept
<1>4. /\ rows[r] = before[r] /\ before[r] # NoRow /\ r \notin found
      /\ Typed => Guesses(rows[r]) = {0}
  BY <1>1, NextRecord
<1>5. parsed \in ParsedStatement
  BY DEF StatementsInv, StatementOK
<1>6. Typed => (r \in Shown <=> DeleteMatches(columns, rows[r], parsed.conditions, guess))
  BY <1>4, <1>5, ShownMeansMatched
<1>7. /\ found' \in {found, found \union {r}}
      /\ r \in found' <=> DeleteMatches(columns, rows[r], parsed.conditions, guess)
  BY <1>2, <1>4
<1>8. (Typed /\ r \in found' => r \in Shown) /\ (Typed /\ r \in Shown => r \in found')
  BY <1>6, <1>7
<1>9. UNCHANGED <<tableVars, pc, count, attrs, rc, retyped, typedVars>> /\ parsed.type # "UPDATE"
  BY <1>1
<1> QED
  BY <1>1, <1>3, <1>7, <1>8, <1>9, PassOnKeeps

\* What an UPDATE makes of the next record.
LEMMA VerdictMeans ==
  ASSUME StatementsInv, pc = "scan", NEW r \in RID, NextRec(r), NEW guess \in Guesses(rows[r]),
         Typed
  PROVE  /\ UpdateVerdict(r, guess) = "true" => r \in Shown
         /\ r \in Shown => UpdateVerdict(r, guess) = "true" \/ RightColumn
<1>1. parsed \in ParsedStatement /\ parsed.conditions \in Seq(ParsedCondition)
  BY DEF StatementsInv, StatementOK, ParsedStatement
<1>2. rows[r] = before[r] /\ before[r] # NoRow /\ guess = 0
  BY NextRecord
<1>3. r \in Shown <=> DeleteMatches(columns, rows[r], parsed.conditions, guess)
  BY <1>1, <1>2, ShownMeansMatched
<1> QED
  BY <1>1, <1>3, UpdateMeansAll DEF UpdateVerdict, RightColumn

\* A row is passed over by an UPDATE, or its new bytes are not written.
LEMMA ScanPassesKeeps ==
  ASSUME StatementsInv, NEW r \in RID, ScanPasses(r) \/ UpdateRecFails(r)
  PROVE  StatementsInv'
<1> USE DEF Scanning
<1>1. /\ pc = "scan" /\ parsed.type = "UPDATE" /\ NextRec(r) /\ at' = r
      /\ UNCHANGED <<tableVars, pc, found, count, attrs, rc, retyped, typedVars>>
  BY DEF ScanPasses, UpdateRecFails
<1>2. r \notin found
  BY <1>1, NextRecord
<1>3. found' \in {found, found \union {r}} /\ found' = found /\ r \notin found'
  BY <1>1, <1>2
<1>4. CASE ScanPasses(r)
  <2>1. PICK guess \in Guesses(rows[r]) : UpdateVerdict(r, guess) \notin {"true", "null"}
    BY <1>4 DEF ScanPasses
  <2>2. Typed /\ r \in Shown => RightColumn
    BY <1>1, <2>1, VerdictMeans
  <2>3. FaultsKept
    BY <1>4, FaultsStayKept DEF ScanPasses
  <2> QED
    BY <1>1, <1>3, <2>2, <2>3, PassOnKeeps
<1>5. CASE UpdateRecFails(r)
  <2>1. FaultsKept /\ faulted'
    BY <1>5, FaultsStayKept DEF UpdateRecFails
  <2> QED
    BY <1>1, <1>3, <2>1, PassOnKeeps
<1> QED
  BY <1>4, <1>5

\* The record is written with the new value in its column.
LEMMA ScanUpdateKeeps ==
  ASSUME StatementsInv, NEW r \in RID, ScanUpdate(r)
  PROVE  StatementsInv'
<1> USE DEF Scanning, typedVars, faultVars
<1> DEFINE named == columns[UpdateColumn]
<1>1. /\ pc = "scan" /\ parsed.type = "UPDATE" /\ NextRec(r)
      /\ at' = r /\ found' = found \union {r} /\ count' = count + 1
      /\ rows' = [rows EXCEPT ![r][UpdateColumn] = parsed.updateValue]
      /\ retyped' = IF parsed.updateValue.type = named.type THEN retyped
                    ELSE retyped \union {named.name}
      /\ UNCHANGED <<columns, indexed, pc, attrs, rc, faultVars, typedVars>>
  BY DEF ScanUpdate, UpdateColumn
<1>2. PICK guess \in Guesses(rows[r]) : UpdateVerdict(r, guess) = "true"
  BY DEF ScanUpdate
<1>3. Typed => r \in Shown
  BY <1>1, <1>2, VerdictMeans
<1>4. /\ r > at /\ rows[r] = before[r] /\ before[r] # NoRow /\ r \notin found
      /\ {q \in Shown : q <= r} \subseteq {q \in Shown : q <= at} \union {r}
      /\ \A q \in RID : (q <= at => q <= r) /\ (q > r => q > at)
  BY <1>1, NextRecord, ShownUpTo
<1>5. at \in Nat /\ r \in Nat /\ r <= r /\ RID \subseteq Nat
  BY BoundsAssumption DEF StatementsInv, TypeOK, RID
<1>6. /\ columns \in Seq([name : Seq(STRING), type : ColumnType])
      /\ rows \in [RID -> Seq(Value) \union {NoRow}] /\ found \subseteq RID
  BY DEF StatementsInv, TypeOK
<1>7. /\ parsed.updateValue \in Value
      /\ UpdateColumn # 0 /\ HasTable(parsed.tableName)
  BY <1>1 DEF StatementsInv, StatementOK, ParsedStatement
<1>8. UpdateColumn \in DOMAIN columns
  BY <1>6, <1>7, FindAttrPlace DEF UpdateColumn
<1>9. /\ rows[r] \in Seq(Value) /\ Len(rows[r]) = Len(columns)
      /\ \A i \in DOMAIN columns :
           columns[i].name \notin retyped => rows[r][i].type = columns[i].type
  BY <1>4, <1>6 DEF StatementsInv, RowsHaveColumnTypes
<1> DEFINE new == [rows[r] EXCEPT ![UpdateColumn] = parsed.updateValue]
<1>10. rows' = [rows EXCEPT ![r] = new]
  BY <1>1
<1>11. new \in Seq(Value) /\ Len(new) = Len(columns)
  BY <1>6, <1>7, <1>8, <1>9
<1>12. \A i \in DOMAIN columns :
         new[i] = IF i = UpdateColumn THEN parsed.updateValue ELSE rows[r][i]
  BY <1>6, <1>9
<1>13. rows'[r] = new /\ \A q \in RID : q # r => rows'[q] = rows[q]
  BY <1>6, <1>10
<1>14. rows' \in [RID -> Seq(Value) \union {NoRow}]
  BY <1>6, <1>10, <1>11
<1>15. UNCHANGED <<Shown, Typed, RightColumn>>
  BY <1>1, ShownFrame
<1>16. /\ found \subseteq {q \in RID : q <= at}
       /\ \A q \in RID : q > at => rows[q] = before[q]
       /\ Changed \subseteq found
       /\ count = Cardinality(found)
       /\ Typed /\ ~ overwritten => found \subseteq Shown
       /\ Typed /\ ~ overwritten /\ ~ (faulted \/ RightColumn) =>
            {q \in Shown : q <= at} \subseteq found
  BY <1>1 DEF StatementsInv, ScanSoFar
<1>17. count' = Cardinality(found') /\ found' \subseteq RID
  BY <1>1, <1>4, <1>6, <1>16, RowSets
<1>18. count' \in 0 .. MaxRows
  BY <1>17, RowSets
<1>19. TypeOK'
  BY <1>1, <1>14, <1>17, <1>18 DEF StatementsInv, TypeOK
<1>20. RowsHaveColumnTypes'
  <2> SUFFICES ASSUME NEW q \in RID, rows'[q] # NoRow
               PROVE  /\ Len(rows'[q]) = Len(columns)
                      /\ \A i \in DOMAIN columns :
                           columns[i].name \notin retyped' => rows'[q][i].type = columns[i].type
    BY <1>1 DEF RowsHaveColumnTypes
  <2>1. retyped \subseteq retyped'
    BY <1>1
  <2>2. CASE q # r
    BY <1>13, <2>1, <2>2 DEF StatementsInv, RowsHaveColumnTypes
  <2>3. CASE q = r
    <3>1. ASSUME NEW i \in DOMAIN columns, columns[i].name \notin retyped'
          PROVE  new[i].type = columns[i].type
      <4>1. CASE i = UpdateColumn
        BY <1>1, <1>12, <3>1, <4>1
      <4>2. CASE i # UpdateColumn
        BY <1>9, <1>12, <2>1, <3>1, <4>2
      <4> QED
        BY <4>1, <4>2
    <3> HIDE DEF new
    <3> QED
      BY <1>11, <1>13, <2>3, <3>1
  <2> QED
    BY <2>2, <2>3
<1>21. StatementOK'
  <2>1. HasTable(parsed.tableName)' <=> HasTable(parsed.tableName)
    BY <1>1 DEF HasTable
  <2>2. UpdateColumn' = UpdateColumn
    BY <1>1 DEF UpdateColumn
  <2>3. columns # << >>
    BY <1>7 DEF HasTable
  <2> QED
    BY <1>1, <1>7, <2>1, <2>2, <2>3 DEF StatementsInv, StatementOK
<1>22. Changed' \subseteq found'
  BY <1>1, <1>13, <1>16 DEF Changed
<1> HIDE DEF new, named
<1>23. found' \subseteq {q \in RID : q <= r}
  BY <1>1, <1>4, <1>5, <1>16
<1>24. ASSUME NEW q \in RID, q > r PROVE rows'[q] = before[q]
  <2>1. q # r /\ q > at
    BY <1>4, <1>5, <1>24
  <2> QED
    BY <1>13, <1>16, <2>1
<1>25. Typed /\ ~ overwritten => found' \subseteq Shown
  BY <1>1, <1>3, <1>16
<1>26. Typed /\ ~ overwritten /\ ~ (faulted \/ RightColumn) =>
         {q \in Shown : q <= r} \subseteq found'
  BY <1>1, <1>4, <1>16
<1>27. ScanSoFar'
  BY <1>1, <1>15, <1>17, <1>22, <1>23, <1>24, <1>25, <1>26 DEF ScanSoFar
<1>28. OnlyMatchingRowsTouched'
  <2>1. (Typed /\ ~ overwritten => Changed \subseteq Shown)'
    BY <1>1, <1>15, <1>22, <1>25
  <2> QED
    BY <1>1, <2>1 DEF OnlyMatchingRowsTouched, Shown
<1>29. DeleteSoFar' /\ DoneBeforeClose' /\ Reported'
  BY <1>1, <1>28 DEF DeleteSoFar, DoneBeforeClose, Reported, SelectIsCompleteOrFails,
         SameRowsForEveryStatement, CountsReported, InsertAllOrNothing
<1>30. ComesBackOK'
  BY <1>1, ComesBackFrame
<1> QED
  BY <1>19, <1>20, <1>21, <1>27, <1>29, <1>30 DEF StatementsInv

\* An UPDATE compares with a null pointer.
LEMMA ProcessEndsKeeps ==
  ASSUME StatementsInv, NEW r \in RID, ProcessEnds(r)
  PROVE  StatementsInv'
<1> USE DEF Scanning, tableVars, typedVars, faultVars
<1>1. /\ pc = "scan" /\ parsed.type = "UPDATE" /\ pc' = "ended"
      /\ UNCHANGED <<tableVars, at, found, count, attrs, rc, faultVars, retyped, typedVars>>
  BY DEF ProcessEnds
<1>2. TypeOK'
  BY <1>1 DEF StatementsInv, TypeOK
<1>3. RowsHaveColumnTypes'
  BY <1>1 DEF StatementsInv, RowsHaveColumnTypes
<1>4. StatementOK'
  BY <1>1 DEF StatementsInv, StatementOK, NoRows
<1>5. UNCHANGED <<Shown, Typed>> /\ Changed' = Changed
  BY <1>1, ShownFrame DEF Changed
<1>6. (Typed /\ ~ overwritten => Changed \subseteq Shown)'
  BY <1>1, <1>5 DEF StatementsInv, ScanSoFar
<1>7. OnlyMatchingRowsTouched'
  BY <1>1, <1>6 DEF OnlyMatchingRowsTouched, Shown
<1>8. ScanSoFar' /\ DeleteSoFar' /\ DoneBeforeClose' /\ Reported'
  BY <1>1, <1>7 DEF ScanSoFar, DeleteSoFar, DoneBeforeClose, Reported, SelectIsCompleteOrFails,
         SameRowsForEveryStatement, CountsReported, InsertAllOrNothing
<1>9. ComesBackOK'
  BY <1>1, ComesBackFrame DEF Busy
<1> QED
  BY <1>2, <1>3, <1>4, <1>8, <1>9 DEF StatementsInv

\* The scan is at its end, or cannot go on.
LEMMA LoopEndKeeps ==
  ASSUME StatementsInv, ScanEnds \/ ScanFails
  PROVE  StatementsInv'
<1> USE DEF tableVars, typedVars
<1>1. PICK code \in {"RM_EOF", "PF_ERROR"} :
        /\ LoopEnds(code)
        /\ code = "RM_EOF" => Rest = {}
        /\ Rest = {} \/ FetchFails
  BY DEF ScanEnds, ScanFails
<1>2. pc = "scan" /\ UNCHANGED <<tableVars, retyped>>
  BY DEF ScanEnds, ScanFails
<1>3. FaultsKept /\ (Rest = {} \/ faulted')
  BY <1>1, FaultsStayKept DEF ScanEnds, ScanFails
<1>4. Rest = {} => Shown = {r \in Shown : r <= at}
  BY <1>2, NoMoreRecords
<1>5. /\ Typed /\ ~ overwritten /\ Rest = {}
      /\ ~ (parsed.type = "UPDATE" /\ (faulted \/ RightColumn))
      => Shown \subseteq found
  BY <1>2, <1>4 DEF StatementsInv, ScanSoFar
<1>6. CASE parsed.type = "SELECT"
  <2>1. Return(code)
    BY <1>1, <1>6 DEF LoopEnds
  <2>2. code \in {"OK", "RM_EOF"} /\ Typed /\ ~ overwritten => Shown \subseteq found
    BY <1>1, <1>5, <1>6
  <2> QED
    BY <1>2, <1>3, <1>6, <2>1, <2>2, QueryEndKeeps
<1>7. CASE parsed.type # "SELECT"
  <2> USE DEF FaultsKept
  <2>1. /\ parsed.type \in {"DELETE", "UPDATE"} /\ HasTable(parsed.tableName)
        /\ parsed.type = "DELETE" => pc' = "delete" /\ at' = 0 /\ rc' = rc
        /\ parsed.type = "UPDATE" => pc' = "close" /\ at' = at /\ rc' = "OK"
        /\ UNCHANGED <<found, count, attrs, typedVars>>
    BY <1>1, <1>2, <1>7 DEF LoopEnds, Close, StatementsInv, StatementOK, Scanned
  <2>2. TypeOK'
    BY <1>2, <1>3, <2>1 DEF StatementsInv, TypeOK
  <2>3. RowsHaveColumnTypes' /\ ComesBackOK'
    BY <1>2, <1>3, <2>1, ComesBackFrame DEF StatementsInv, RowsHaveColumnTypes, Busy
  <2>4. HasTable(parsed.tableName)'
    BY <1>2, <2>1 DEF HasTable
  <2>5. StatementOK'
    BY <1>2, <2>1, <2>4 DEF StatementsInv, StatementOK, NoRows
  <2>6. UNCHANGED <<Shown, Typed, RightColumn>> /\ Changed' = Changed
    BY <1>2, <2>1, ShownFrame DEF Changed
  <2>7. /\ Changed \subseteq found
        /\ Typed /\ ~ overwritten => found \subseteq Shown
    BY <1>2 DEF StatementsInv, ScanSoFar
  <2>8. Typed /\ ~ overwritten /\ ~ faulted' =>
          found = Shown \/ (parsed.type = "UPDATE" /\ RightColumn)
    BY <1>3, <1>5, <2>7
  <2>9. parsed.type = "DELETE" => Changed = {} /\ count = Cardinality(Changed)
    <3>1. Cardinality({}) = 0
      BY FS_EmptySet
    <3> QED
      BY <1>2, <3>1 DEF StatementsInv, ScanSoFar, Changed
  <2>10. parsed.type = "UPDATE" => count = Cardinality(found)
    BY <1>2 DEF StatementsInv, ScanSoFar
  <2>11. DeleteSoFar'
    BY <1>3, <2>1, <2>6, <2>7, <2>8, <2>9 DEF DeleteSoFar
  <2>12. DoneBeforeClose'
    BY <1>3, <2>1, <2>4, <2>6, <2>7, <2>8, <2>10 DEF DoneBeforeClose
  <2>13. OnlyMatchingRowsTouched'
    <3>1. (Typed /\ ~ overwritten => Changed \subseteq Shown)'
      BY <1>3, <2>6, <2>7
    <3> QED
      BY <2>1, <3>1 DEF OnlyMatchingRowsTouched, Shown
  <2>14. ScanSoFar' /\ Reported'
    BY <2>1, <2>13 DEF ScanSoFar, Reported, SelectIsCompleteOrFails,
           SameRowsForEveryStatement, CountsReported, InsertAllOrNothing
  <2> QED
    BY <2>2, <2>3, <2>5, <2>11, <2>12, <2>14 DEF StatementsInv
<1> QED
  BY <1>6, <1>7

\* A record is deleted and counted, or cannot be and is not.
LEMMA DeleteRecKeeps ==
  ASSUME StatementsInv, NEW r \in RID, DeleteRec(r) \/ DeleteRecFails(r)
  PROVE  StatementsInv'
<1> USE DEF tableVars, typedVars, FaultsKept
<1>1. /\ pc = "delete" /\ r \in found /\ r > at /\ at' = r
      /\ UNCHANGED <<columns, indexed, pc, found, attrs, rc, retyped, typedVars>>
  BY DEF DeleteRec, DeleteRecFails, NextToDelete, ToDelete
<1>2. /\ Changed \subseteq {q \in found : q <= at}
      /\ count = Cardinality(Changed)
      /\ Typed /\ ~ overwritten => found \subseteq Shown
      /\ Typed /\ ~ overwritten /\ ~ faulted => found = Shown
  BY <1>1 DEF StatementsInv, DeleteSoFar
<1>3. parsed.type = "DELETE" /\ HasTable(parsed.tableName)
  BY <1>1 DEF StatementsInv, StatementOK
<1>4. at \in Nat /\ RID \subseteq Nat
  BY BoundsAssumption DEF StatementsInv, TypeOK, RID
<1>5. r \notin Changed /\ Changed \subseteq RID
  BY <1>1, <1>2, <1>4 DEF Changed
<1>6. rows \in [RID -> Seq(Value) \union {NoRow}]
  BY DEF StatementsInv, TypeOK
<1>7. FaultsKept
  BY FaultsStayKept DEF DeleteRec, DeleteRecFails
<1>8. \/ rows[r] # NoRow /\ rows' = [rows EXCEPT ![r] = NoRow] /\ count' = count + 1
      \/ rows' = rows /\ count' = count
  BY DEF DeleteRec, DeleteRecFails
<1>9. rows' \in [RID -> Seq(Value) \union {NoRow}]
  BY <1>6, <1>8
<1>10. \/ Changed' = Changed \union {r} /\ count' = count + 1
       \/ Changed' = Changed /\ count' = count
  <2>1. CASE rows' = rows /\ count' = count
    BY <1>1, <2>1 DEF Changed
  <2>2. CASE rows[r] # NoRow /\ rows' = [rows EXCEPT ![r] = NoRow] /\ count' = count + 1
    <3>1. rows'[r] = NoRow /\ \A q \in RID : q # r => rows'[q] = rows[q]
      BY <1>6, <2>2
    <3>2. before[r] # NoRow
      BY <1>5, <2>2 DEF Changed
    <3> QED
      BY <1>1, <2>2, <3>1, <3>2 DEF Changed
  <2> QED
    BY <1>8, <2>1, <2>2
<1>11. Cardinality(Changed \union {r}) = Cardinality(Changed) + 1
  BY <1>5, RowSets
<1>12. count' = Cardinality(Changed') /\ Changed' \subseteq RID
  BY <1>2, <1>5, <1>10, <1>11
<1>13. count' \in 0 .. MaxRows
  BY <1>12, RowSets
<1>14. Changed' \subseteq {q \in found : q <= r}
  <2>1. \A q \in RID : (q <= at => q <= r) /\ r <= r
    BY <1>1, <1>4
  <2> QED
    BY <1>1, <1>2, <1>5, <1>10, <2>1
<1>15. TypeOK'
  BY <1>1, <1>7, <1>9, <1>13 DEF StatementsInv, TypeOK
<1>16. RowsHaveColumnTypes'
  <2>1. \A q \in RID : rows'[q] # NoRow => rows'[q] = rows[q]
    BY <1>6, <1>8
  <2> QED
    BY <1>1, <2>1 DEF StatementsInv, RowsHaveColumnTypes
<1>17. StatementOK' /\ ComesBackOK'
  BY <1>1, <1>3, <1>7, ComesBackFrame DEF StatementsInv, StatementOK, HasTable
<1>18. UNCHANGED <<Shown, Typed>>
  BY <1>1, ShownFrame
<1>19. DeleteSoFar'
  BY <1>1, <1>2, <1>7, <1>12, <1>14, <1>18 DEF DeleteSoFar
<1>20. OnlyMatchingRowsTouched'
  <2>1. (Typed /\ ~ overwritten => Changed \subseteq Shown)'
    BY <1>2, <1>7, <1>14, <1>18
  <2> QED
    BY <1>1, <1>3, <2>1 DEF OnlyMatchingRowsTouched, Shown
<1>21. ScanSoFar' /\ DoneBeforeClose' /\ Reported'
  BY <1>1, <1>20 DEF ScanSoFar, DoneBeforeClose, Reported, SelectIsCompleteOrFails,
         SameRowsForEveryStatement, CountsReported, InsertAllOrNothing
<1> QED
  BY <1>15, <1>16, <1>17, <1>19, <1>21 DEF StatementsInv

\* DELETE has gone through what it found.
LEMMA DeleteEndsKeeps ==
  ASSUME StatementsInv, DeleteEnds
  PROVE  StatementsInv'
<1> USE DEF DeleteEnds, Close, tableVars, typedVars, faultVars
<1>1. TypeOK'
  BY DEF StatementsInv, TypeOK
<1>2. RowsHaveColumnTypes' /\ ComesBackOK'
  BY ComesBackFrame DEF StatementsInv, RowsHaveColumnTypes, Busy
<1>3. StatementOK'
  BY DEF StatementsInv, StatementOK, NoRows
<1>4. UNCHANGED <<Shown, Typed>> /\ Changed' = Changed
  BY ShownFrame DEF Changed
<1>5. parsed.type = "DELETE" /\ HasTable(parsed.tableName) /\ HasTable(parsed.tableName)'
  BY DEF StatementsInv, StatementOK, HasTable
<1>6. /\ Changed \subseteq found /\ count = Cardinality(Changed)
      /\ Typed /\ ~ overwritten => found \subseteq Shown
      /\ Typed /\ ~ overwritten /\ ~ faulted => found = Shown
  BY DEF StatementsInv, DeleteSoFar
<1>7. DoneBeforeClose'
  BY <1>4, <1>5, <1>6 DEF DoneBeforeClose
<1>8. OnlyMatchingRowsTouched'
  <2>1. (Typed /\ ~ overwritten => Changed \subseteq Shown)'
    BY <1>4, <1>6
  <2> QED
    BY <1>5, <2>1 DEF OnlyMatchingRowsTouched, Shown
<1>9. ScanSoFar' /\ DeleteSoFar' /\ Reported'
  BY <1>8 DEF ScanSoFar, DeleteSoFar, Reported, SelectIsCompleteOrFails,
       SameRowsForEveryStatement, CountsReported, InsertAllOrNothing
<1> QED
  BY <1>1, <1>2, <1>3, <1>7, <1>9 DEF StatementsInv

\* What a statement has done when it closes the file it still has done if the file
\* is closed, and if it is not, a part of it has come to the file.
LEMMA AfterClose ==
  ASSUME StatementsInv, pc = "close", Return(rc), UNCHANGED <<columns, faulted, overwritten>>,
         Changed' \subseteq Changed, \A r \in Changed' : rows'[r] = rows[r],
         unclosed' = TRUE \/ Changed' = Changed
  PROVE  ScanSoFar' /\ DeleteSoFar' /\ DoneBeforeClose' /\ Reported'
<1> USE DEF Return, typedVars
<1>1. /\ parsed.type \in {"INSERT", "DELETE", "UPDATE"} /\ rc = "OK"
      /\ parsed.type = "INSERT" =>
           \E r \in RID : Changed = {r} /\ before[r] = NoRow /\ rows[r] = parsed.values
      /\ parsed.type # "INSERT" =>
           /\ Changed \subseteq found
           /\ count = Cardinality(IF parsed.type = "DELETE" THEN Changed ELSE found)
           /\ Typed /\ ~ overwritten =>
                /\ found \subseteq Shown
                /\ ~ faulted => found = Shown \/ (parsed.type = "UPDATE" /\ RightColumn)
  BY DEF StatementsInv, DoneBeforeClose
<1>2. /\ UNCHANGED <<Shown, Typed, RightColumn>>
      /\ \A types : OnTable(types)' <=> OnTable(types)
  BY ShownFrame
<1>3. /\ SelectIsCompleteOrFails' /\ ScanSoFar' /\ DeleteSoFar' /\ DoneBeforeClose'
      /\ ~ OnTable({"SELECT"})
  BY <1>1 DEF SelectIsCompleteOrFails, ScanSoFar, DeleteSoFar, DoneBeforeClose, OnTable
<1>4. InsertAllOrNothing'
  <2> SUFFICES ASSUME parsed.type = "INSERT" PROVE InsertAllOrNothing'
    BY DEF InsertAllOrNothing
  <2>1. PICK r \in RID : Changed = {r} /\ before[r] = NoRow /\ rows[r] = parsed.values
    BY <1>1
  <2>2. CASE Changed' = {}
    BY <2>1, <2>2 DEF InsertAllOrNothing
  <2>3. CASE Changed' # {}
    <3>1. Changed' = {r}
      BY <2>1, <2>3
    <3> QED
      BY <1>1, <2>1, <3>1 DEF InsertAllOrNothing
  <2> QED
    BY <2>2, <2>3
<1>5. CountsReported'
  <2> SUFFICES ASSUME OnTable({"DELETE", "UPDATE"}) PROVE CountsReported'
    BY <1>2 DEF CountsReported
  <2>1. parsed.type \in {"DELETE", "UPDATE"}
    BY DEF OnTable
  <2>2. Changed \subseteq RID
    BY DEF Changed
  <2>3. Cardinality(Changed') <= Cardinality(Changed)
    BY <2>2, RowSets, FS_Subset
  <2>4. Cardinality(Changed') \in Nat /\ Cardinality(Changed) \in Nat
    <3>1. Changed' \subseteq RID
      BY <2>2
    <3> QED
      BY <2>2, <3>1, RowSets
  <2>5. parsed.type = "DELETE" =>
          count = Cardinality(Changed') \/ (unclosed' /\ count > Cardinality(Changed'))
    BY <1>1, <2>3, <2>4
  <2> QED
    BY <1>1, <2>1, <2>5 DEF CountsReported
<1>6. SameRowsForEveryStatement'
  <2>1. (parsed.type \in {"DELETE", "UPDATE"} /\ Typed /\ ~ faulted /\ ~ overwritten =>
           found = Shown \/ (parsed.type = "UPDATE" /\ RightColumn))'
    BY <1>1, <1>2
  <2> QED
    BY <2>1 DEF SameRowsForEveryStatement, OnTable, Shown, RightColumn
<1>7. OnlyMatchingRowsTouched'
  <2>1. (parsed.type \in {"DELETE", "UPDATE"} /\ Typed /\ ~ overwritten =>
           Changed \subseteq Shown)'
    BY <1>1, <1>2
  <2> QED
    BY <1>1, <2>1 DEF OnlyMatchingRowsTouched, OnTable, Shown
<1> QED
  BY <1>3, <1>4, <1>5, <1>6, <1>7 DEF Reported

\* The file is closed.
LEMMA CloseFileKeeps ==
  ASSUME StatementsInv, CloseFile
  PROVE  StatementsInv'
<1> USE DEF CloseFile, Return, tableVars, typedVars, faultVars
<1>1. TypeOK'
  BY DEF StatementsInv, TypeOK
<1>2. RowsHaveColumnTypes' /\ ComesBackOK'
  BY ComesBackFrame DEF StatementsInv, RowsHaveColumnTypes, Busy
<1>3. StatementOK'
  BY DEF StatementsInv, StatementOK, NoRows
<1>4. Changed' = Changed
  BY DEF Changed
<1>5. ScanSoFar' /\ DeleteSoFar' /\ DoneBeforeClose' /\ Reported'
  BY <1>4, AfterClose
<1> QED
  BY <1>1, <1>2, <1>3, <1>5 DEF StatementsInv

\* The file cannot be closed, and frames are left.
LEMMA CloseFileFailsKeeps ==
  ASSUME StatementsInv, CloseFileFails
  PROVE  StatementsInv'
<1>1. /\ pc = "close" /\ Return(rc) /\ faults > 0 /\ faults' = faults - 1 /\ unclosed' = TRUE
      /\ UNCHANGED <<columns, indexed, faulted, overwritten, retyped>>
  BY DEF CloseFileFails
<1>2. PICK written \in SUBSET Changed, left \in SUBSET RID :
        /\ Changed \subseteq written \union left
        /\ rows' = [r \in RID |-> IF r \in written THEN rows[r] ELSE before[r]]
        /\ leaked' = [leaked EXCEPT ![faults] = [r \in left |-> rows[r]]]
  BY DEF CloseFileFails
<1> USE DEF Return, typedVars
<1>3. rows \in [RID -> Seq(Value) \union {NoRow}] /\ before \in [RID -> Seq(Value) \union {NoRow}]
  BY DEF StatementsInv, TypeOK, StatementOK
<1>4. rows' \in [RID -> Seq(Value) \union {NoRow}]
  BY <1>2, <1>3
<1>5. faults \in 1 .. MaxFaults /\ faults' \in 0 .. MaxFaults /\ DOMAIN leaked = 1 .. MaxFaults
  BY <1>1, BoundsAssumption DEF StatementsInv, TypeOK
<1>6. /\ DOMAIN leaked' = 1 .. MaxFaults
      /\ leaked'[faults] = [r \in left |-> rows[r]]
      /\ \A close \in 1 .. MaxFaults : close # faults => leaked'[close] = leaked[close]
  BY <1>2, <1>5
<1>7. TypeOK'
  <2>1. \A close \in DOMAIN leaked' : \A r \in DOMAIN leaked'[close] :
          r \in RID /\ leaked'[close][r] \in Seq(Value) \union {NoRow}
    <3> SUFFICES ASSUME NEW close \in 1 .. MaxFaults, NEW r \in DOMAIN leaked'[close]
                 PROVE  r \in RID /\ leaked'[close][r] \in Seq(Value) \union {NoRow}
      BY <1>6
    <3>1. CASE close = faults
      BY <1>3, <1>6, <3>1
    <3>2. CASE close # faults
      BY <1>5, <1>6, <3>2 DEF StatementsInv, TypeOK
    <3> QED
      BY <3>1, <3>2
  <2> QED
    BY <1>1, <1>4, <1>5, <1>6, <2>1 DEF StatementsInv, TypeOK
<1>8. \A tuple : Fits(tuple)' <=> Fits(tuple)
  BY <1>1 DEF Fits
<1>9. \A r \in RID : /\ rows[r] # NoRow => Fits(rows[r])
                     /\ before[r] # NoRow => Fits(before[r])
  BY <1>1 DEF StatementsInv, RowsHaveColumnTypes, ComesBackOK, Fits, Busy
<1>10. RowsHaveColumnTypes'
  <2>1. \A r \in RID : rows'[r] = rows[r] \/ rows'[r] = before[r]
    BY <1>2
  <2>2. \A r \in RID : rows'[r] # NoRow => Fits(rows'[r])
    BY <1>9, <2>1
  <2> QED
    BY <1>1, <2>2 DEF RowsHaveColumnTypes, Fits
<1>11. columns # << >>
  BY <1>1 DEF StatementsInv, DoneBeforeClose, HasTable
<1>12. ComesBackOK'
  <2>1. \A close \in DOMAIN leaked' : \A r \in DOMAIN leaked'[close] :
          leaked'[close][r] # NoRow => Fits(leaked'[close][r])
    <3> SUFFICES ASSUME NEW close \in 1 .. MaxFaults, NEW r \in DOMAIN leaked'[close],
                        leaked'[close][r] # NoRow
                 PROVE  Fits(leaked'[close][r])
      BY <1>6
    <3>1. CASE close = faults
      BY <1>6, <1>9, <3>1
    <3>2. CASE close # faults
      BY <1>5, <1>6, <3>2 DEF StatementsInv, ComesBackOK
    <3> QED
      BY <3>1, <3>2
  <2> QED
    BY <1>1, <1>8, <1>11, <2>1 DEF ComesBackOK, Busy
<1>13. StatementOK'
  BY <1>1, <1>11 DEF StatementsInv, StatementOK
<1>14. Changed' \subseteq written /\ written \subseteq Changed /\ written \subseteq RID
  BY <1>1, <1>2 DEF Changed
<1>15. Changed' \subseteq Changed /\ \A r \in Changed' : rows'[r] = rows[r]
  BY <1>2, <1>14
<1>16. ScanSoFar' /\ DeleteSoFar' /\ DoneBeforeClose' /\ Reported'
  BY <1>1, <1>15, AfterClose
<1> QED
  BY <1>7, <1>10, <1>12, <1>13, <1>16 DEF StatementsInv

\* Frames that were left come to the file, before a statement has done anything
\* or in its midst.
LEMMA WriteLeakedKeeps ==
  ASSUME StatementsInv, WriteLeaked
  PROVE  StatementsInv'
<1>1. /\ pc \in {"parsed", "scan", "delete"}
      /\ overwritten' = (overwritten \/ pc # "parsed")
      /\ UNCHANGED <<columns, indexed, pc, at, found, count, attrs, rc, stmt, parsed,
                     faults, faulted, unclosed, retyped>>
  BY DEF WriteLeaked
<1> PICK close \in DOMAIN leaked :
        \E S \in (SUBSET (DOMAIN leaked[close] \ Changed)) \ {{}} :
           LET image == leaked[close]
           IN  /\ rows'   = [r \in RID |-> IF r \in S THEN image[r] ELSE rows[r]]
               /\ before' = [r \in RID |-> IF r \in S THEN image[r] ELSE before[r]]
               /\ leaked' = [leaked EXCEPT ![close] = Restrict(image, DOMAIN image \ S)]
  BY DEF WriteLeaked
<1>2. PICK S \in (SUBSET (DOMAIN leaked[close] \ Changed)) \ {{}} :
        /\ rows'   = [r \in RID |-> IF r \in S THEN leaked[close][r] ELSE rows[r]]
        /\ before' = [r \in RID |-> IF r \in S THEN leaked[close][r] ELSE before[r]]
        /\ leaked' = [leaked EXCEPT ![close] = Restrict(leaked[close], DOMAIN leaked[close] \ S)]
  OBVIOUS
<1>3. /\ rows \in [RID -> Seq(Value) \union {NoRow}]
      /\ before \in [RID -> Seq(Value) \union {NoRow}]
      /\ DOMAIN leaked = 1 .. MaxFaults
      /\ \A c \in DOMAIN leaked : \A r \in DOMAIN leaked[c] :
           r \in RID /\ leaked[c][r] \in Seq(Value) \union {NoRow}
  BY DEF StatementsInv, TypeOK, StatementOK
<1>4. S # {} /\ S \subseteq DOMAIN leaked[close] /\ S \cap Changed = {}
  BY <1>2
<1>5. /\ rows' \in [RID -> Seq(Value) \union {NoRow}]
      /\ before' \in [RID -> Seq(Value) \union {NoRow}]
  BY <1>2, <1>3, <1>4
<1>6. /\ DOMAIN leaked' = DOMAIN leaked
      /\ \A c \in DOMAIN leaked : /\ DOMAIN leaked'[c] \subseteq DOMAIN leaked[c]
                                  /\ \A r \in DOMAIN leaked'[c] : leaked'[c][r] = leaked[c][r]
  <2>1. /\ DOMAIN Restrict(leaked[close], DOMAIN leaked[close] \ S) \subseteq DOMAIN leaked[close]
        /\ \A r \in DOMAIN Restrict(leaked[close], DOMAIN leaked[close] \ S) :
             Restrict(leaked[close], DOMAIN leaked[close] \ S)[r] = leaked[close][r]
    BY DEF Restrict
  <2> DEFINE rest == Restrict(leaked[close], DOMAIN leaked[close] \ S)
  <2> HIDE DEF rest
  <2>2. leaked' = [leaked EXCEPT ![close] = rest]
    BY <1>2 DEF rest
  <2>3. /\ DOMAIN rest \subseteq DOMAIN leaked[close]
        /\ \A r \in DOMAIN rest : rest[r] = leaked[close][r]
    BY <2>1 DEF rest
  <2> QED
    BY <2>2, <2>3
<1>7. TypeOK'
  <2>1. overwritten' \in BOOLEAN
    BY <1>1
  <2>2. \A c \in DOMAIN leaked' : \A r \in DOMAIN leaked'[c] :
          r \in RID /\ leaked'[c][r] \in Seq(Value) \union {NoRow}
    BY <1>3, <1>6
  <2>3. DOMAIN leaked' = 1 .. MaxFaults /\ rows' \in [RID -> Seq(Value) \union {NoRow}]
    BY <1>3, <1>5, <1>6
  <2>4. /\ columns' \in Seq([name : Seq(STRING), type : ColumnType])
        /\ indexed' \subseteq {columns'[i].name : i \in DOMAIN columns'}
        /\ at' \in {0} \union RID /\ found' \subseteq RID /\ count' \in 0 .. MaxRows
        /\ attrs' \in {<< >>, columns'} /\ faults' \in 0 .. MaxFaults
        /\ faulted' \in BOOLEAN /\ unclosed' \in BOOLEAN
        /\ pc' \in {"ready", "parsed", "scan", "delete", "close", "returned", "ended"}
    BY <1>1 DEF StatementsInv, TypeOK
  <2> QED
    BY <2>1, <2>2, <2>3, <2>4 DEF TypeOK
<1>8. \A tuple : Fits(tuple)' <=> Fits(tuple)
  BY <1>1 DEF Fits
<1>9. \A r \in RID : /\ rows[r] # NoRow => Fits(rows[r])
                     /\ before[r] # NoRow => Fits(before[r])
  BY <1>1 DEF StatementsInv, RowsHaveColumnTypes, ComesBackOK, Fits, Busy
<1>10. \A c \in DOMAIN leaked : \A r \in DOMAIN leaked[c] :
         leaked[c][r] # NoRow => Fits(leaked[c][r])
  BY DEF StatementsInv, ComesBackOK
<1>11. \A r \in RID : /\ rows'[r] # NoRow => Fits(rows'[r])
                      /\ before'[r] # NoRow => Fits(before'[r])
  <2> SUFFICES ASSUME NEW r \in RID
               PROVE  /\ rows'[r] # NoRow => Fits(rows'[r])
                      /\ before'[r] # NoRow => Fits(before'[r])
    OBVIOUS
  <2>1. CASE r \in S
    BY <1>2, <1>4, <1>10, <2>1
  <2>2. CASE r \notin S
    BY <1>2, <1>9, <2>2
  <2> QED
    BY <2>1, <2>2
<1>12. RowsHaveColumnTypes'
  BY <1>1, <1>11 DEF RowsHaveColumnTypes, Fits
<1>13. columns # << >>
  <2>1. leaked = NothingLeaked => DOMAIN leaked[close] = {}
    BY <1>3 DEF NothingLeaked
  <2>2. columns = << >> => leaked = NothingLeaked
    BY DEF StatementsInv, ComesBackOK
  <2> QED
    BY <1>4, <2>1, <2>2
<1>14. ComesBackOK'
  BY <1>1, <1>6, <1>8, <1>10, <1>11, <1>13 DEF ComesBackOK
<1>15. Changed' = Changed
  BY <1>2, <1>4 DEF Changed
<1>16. rows = before => rows' = before'
  BY <1>2
<1>17. StatementOK'
  BY <1>1, <1>5, <1>13, <1>16 DEF StatementsInv, StatementOK, HasTable, UpdateColumn
<1>18. ScanSoFar'
  <2>1. \A r \in RID : rows[r] = before[r] => rows'[r] = before'[r]
    BY <1>2
  <2> QED
    BY <1>1, <1>15, <1>16, <2>1 DEF StatementsInv, ScanSoFar
<1>19. DeleteSoFar' /\ DoneBeforeClose'
  BY <1>1, <1>15 DEF StatementsInv, DeleteSoFar, DoneBeforeClose
<1>20. OnlyMatchingRowsTouched'
  <2>1. pc = "parsed" => Changed' = {}
    BY <1>15 DEF StatementsInv, StatementOK, Changed
  <2> QED
    BY <1>1, <2>1 DEF OnlyMatchingRowsTouched
<1>21. Reported'
  BY <1>1, <1>20 DEF Reported, SelectIsCompleteOrFails, SameRowsForEveryStatement,
       CountsReported, InsertAllOrNothing
<1> QED
  BY <1>7, <1>12, <1>14, <1>17, <1>18, <1>19, <1>21 DEF StatementsInv

\* Nothing happens.
LEMMA StutterKeeps ==
  ASSUME StatementsInv, UNCHANGED vars
  PROVE  StatementsInv'
<1> USE DEF vars, tableVars, typedVars, faultVars
<1>1. UNCHANGED <<Shown, Typed, RightColumn>> /\ Changed' = Changed
  BY ShownFrame DEF Changed
<1>2. \A types : OnTable(types)' <=> OnTable(types)
  BY ShownFrame
<1>3. TypeOK' /\ RowsHaveColumnTypes' /\ ComesBackOK'
  BY ComesBackFrame DEF StatementsInv, TypeOK, RowsHaveColumnTypes
<1>4. StatementOK'
  BY DEF StatementsInv, StatementOK, HasTable, UpdateColumn, NoRows
<1>5. ScanSoFar' /\ DeleteSoFar' /\ DoneBeforeClose'
  BY <1>1 DEF StatementsInv, ScanSoFar, DeleteSoFar, DoneBeforeClose, HasTable
<1>6. Reported
  BY DEF StatementsInv
<1>7. SelectIsCompleteOrFails' /\ SameRowsForEveryStatement' /\ OnlyMatchingRowsTouched'
  BY <1>1, <1>2, <1>6 DEF Reported, SelectIsCompleteOrFails, SameRowsForEveryStatement,
       OnlyMatchingRowsTouched, Shown
<1>8. CountsReported' /\ InsertAllOrNothing'
  BY <1>1, <1>2, <1>6 DEF Reported, CountsReported, InsertAllOrNothing
<1> QED
  BY <1>3, <1>4, <1>5, <1>7, <1>8 DEF StatementsInv, Reported

\* Every step keeps the invariant.
LEMMA NextLemma ==
  ASSUME StatementsInv, [Next]_vars
  PROVE  StatementsInv'
<1>1. CASE UNCHANGED vars
  BY <1>1, StutterKeeps
<1>2. CASE \E s \in Written : Type(s)
  BY <1>2, TypeKeeps
<1>3. CASE WriteLeaked
  BY <1>3, WriteLeakedKeeps
<1>4. CASE Step
  <2>1. CASE Prompt
    BY <2>1, PromptKeeps
  <2>2. CASE \/ NothingElse \/ ExecuteDropIndex \/ ExecuteCreateIndex
             \/ InsertRejected \/ InsertFails \/ ScanRejected \/ OpenFails
    BY <2>2, EarlyReturnKeeps
  <2>3. CASE ExecuteCreateTable
    BY <2>3, CreateTableKeeps
  <2>4. CASE ExecuteDropTable
    BY <2>4, DropTableKeeps
  <2>5. CASE InsertTuple
    BY <2>5, InsertTupleKeeps
  <2>6. CASE OpenScan \/ OpenScanWithoutColumns
    BY <2>6, OpenScanKeeps
  <2>7. CASE \E r \in RID : ScanSelect(r)
    BY <2>7, ScanSelectKeeps
  <2>8. CASE \E r \in RID : ScanDelete(r)
    BY <2>8, ScanDeleteKeeps
  <2>9. CASE \E r \in RID : ScanPasses(r) \/ UpdateRecFails(r)
    BY <2>9, ScanPassesKeeps
  <2>10. CASE \E r \in RID : ScanUpdate(r)
    BY <2>10, ScanUpdateKeeps
  <2>11. CASE \E r \in RID : ProcessEnds(r)
    BY <2>11, ProcessEndsKeeps
  <2>12. CASE \E r \in RID : DeleteRec(r) \/ DeleteRecFails(r)
    BY <2>12, DeleteRecKeeps
  <2>13. CASE ScanEnds \/ ScanFails
    BY <2>13, LoopEndKeeps
  <2>14. CASE DeleteEnds
    BY <2>14, DeleteEndsKeeps
  <2>15. CASE CloseFile
    BY <2>15, CloseFileKeeps
  <2>16. CASE CloseFileFails
    BY <2>16, CloseFileFailsKeeps
  <2> QED
    BY <1>4, <2>1, <2>2, <2>3, <2>4, <2>5, <2>6, <2>7, <2>8, <2>9, <2>10, <2>11, <2>12,
       <2>13, <2>14, <2>15, <2>16 DEF Step
<1> QED
  BY <1>1, <1>2, <1>3, <1>4 DEF Next

-----------------------------------------------------------------------------
(* The theorems *)

\* In every reachable state the statement is where StatementOK says, what the
\* scan (ScanSoFar) and the second loop of DELETE (DeleteSoFar) have found and
\* changed so far, and what is done when the file is closed (DoneBeforeClose),
\* is a part of the rows that satisfy the conditions, what frames of a failed close
\* may bring back fits the table (ComesBackOK), and what is promised of a statement
\* that has returned (Reported) holds.
THEOREM StatementsInvariant == Spec => []StatementsInv
<1>1. Init => StatementsInv
  BY InitLemma
<1>2. StatementsInv /\ [Next]_vars => StatementsInv'
  BY NextLemma
<1> QED
  BY <1>1, <1>2, PTL DEF Spec

\* The variables keep their types, and only a column of the table has an index.
THEOREM StatementsTypes == Spec => []TypeOK
<1>1. StatementsInv => TypeOK
  BY DEF StatementsInv
<1> QED
  BY <1>1, StatementsInvariant, PTL

\* QL_Manager::Select: a query that main does not report as failed has printed
\* every row that satisfies its conditions, and no other, when the constructor of
\* ScanNode could not read the columns too; unless frames that a failed close has
\* left are written while it scans.
THEOREM SelectIsAlwaysCompleteOrFails == Spec => []SelectIsCompleteOrFails
<1>1. StatementsInv => SelectIsCompleteOrFails
  BY DEF StatementsInv, Reported
<1> QED
  BY <1>1, StatementsInvariant, PTL

\* The three readings of a WHERE, by the plan of SELECT and by the loops of
\* DELETE and UPDATE, find the same rows, but for a column on the right in UPDATE,
\* and but for frames of a failed close that are written while they scan.
THEOREM SameRowsAlways == Spec => []SameRowsForEveryStatement
<1>1. StatementsInv => SameRowsForEveryStatement
  BY DEF StatementsInv, Reported
<1> QED
  BY <1>1, StatementsInvariant, PTL

\* Whatever fails, closing the file included, and wherever DELETE and UPDATE stop, a
\* row that did not satisfy the conditions is as it was before, and SELECT changes
\* none; unless frames that a failed close has left are written meanwhile.
THEOREM OthersAreNeverTouched == Spec => []OnlyMatchingRowsTouched
<1>1. StatementsInv => OnlyMatchingRowsTouched
  BY DEF StatementsInv, Reported
<1> QED
  BY <1>1, StatementsInvariant, PTL

\* The number that DELETE prints is the number of tuples that are gone, and UPDATE
\* counts each tuple it wrote, when some of the calls to RM have failed too.  QL
\* does not look at the result of closing the file: when that fails DELETE prints
\* at least the number of tuples that are gone, and it may print more.
THEOREM CountsAlwaysReported == Spec => []CountsReported
<1>1. StatementsInv => CountsReported
  BY DEF StatementsInv, Reported
<1> QED
  BY <1>1, StatementsInvariant, PTL

\* QL_Manager::Insert adds the record it was given and returns OK, or changes
\* nothing and returns an error; but when the file cannot be closed, which it does
\* not look at, it may return OK and have changed nothing a later statement reads.
THEOREM InsertIsAllOrNothing == Spec => []InsertAllOrNothing
<1>1. StatementsInv => InsertAllOrNothing
  BY DEF StatementsInv, Reported
<1> QED
  BY <1>1, StatementsInvariant, PTL

\* Through CREATE and DROP TABLE, INSERT, DELETE and UPDATE every tuple has one
\* value for each column, of its type unless an UPDATE gave the column another.
THEOREM RowsAlwaysHaveColumnTypes == Spec => []RowsHaveColumnTypes
<1>1. StatementsInv => RowsHaveColumnTypes
  BY DEF StatementsInv
<1> QED
  BY <1>1, StatementsInvariant, PTL
=============================================================================
