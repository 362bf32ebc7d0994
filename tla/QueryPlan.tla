-------------------------------- MODULE QueryPlan --------------------------------
(***************************************************************************)
(* Queries on one table: the plan QueryOptimizer makes of the conditions   *)
(* (QL/src/ql_optimizer.cc), what its nodes do with one tuple              *)
(* (QL/src/ql_plannode.cc), and how DELETE and UPDATE, which have no plan, *)
(* test the same conditions for themselves (QL/src/ql_manager.cc).         *)
(*                                                                         *)
(* A column is a record of name and type, a value one of type and data.    *)
(* What a tuple has in a column need not be of the column's type: UPDATE   *)
(* copies the bytes of whatever it is given.  Such bytes compare in a way  *)
(* that is not modelled: the caller passes a guess.                        *)
(*                                                                         *)
(* A definition marked (fault) is no part of the model: it is a way the    *)
(* definition after it could be wrong, which a property has to notice.     *)
(***************************************************************************)
EXTENDS Integers, SequencesExt

\* The place of a column of this name, 0 if there is none.
FindAttr(columns, name) == SelectInSeq(columns, LAMBDA c : c.name = name)

\* What a column of this type makes of the bytes.
Operand(type, bytes) == [type |-> type, bytes |-> bytes]
InColumn(columns, tuple, name) ==
  LET i == FindAttr(columns, name) IN Operand(columns[i].type, tuple[i])

Order(lhs, rhs, guess) ==
  IF lhs.bytes.type # lhs.type \/ rhs.bytes.type # rhs.type THEN guess
  ELSE CASE lhs.bytes.data < rhs.bytes.data -> -1
         [] lhs.bytes.data > rhs.bytes.data -> 1
         [] OTHER                           -> 0

Satisfied(cmp) ==
  CASE cmp < 0 -> {"LT_OP", "LE_OP", "NE_OP"}
    [] cmp = 0 -> {"EQ_OP", "LE_OP", "GE_OP"}
    [] OTHER   -> {"GT_OP", "GE_OP", "NE_OP"}

\* true, false, or the error.
CompareValues(lhs, rhs, op, guess) ==
  CASE lhs.type # rhs.type -> "QL_INCOMPATIBLETYPES"
    [] op = "NO_OP"        -> "QL_INVALIDCONDITION"
    [] OTHER -> IF op \in Satisfied(Order(lhs, rhs, guess)) THEN "true" ELSE "false"

-----------------------------------------------------------------------------
(* SELECT *)

\* The parser never names the table of a column, so both sides of a condition
\* belong to the one table scanned.
GetRelationName(attr, relation) == relation

IsSelectionCondition(cond, relation) ==
  \/ ~ cond.bRhsIsAttr
  \/ GetRelationName(cond.lhsAttr, relation) = GetRelationName(cond.rhsAttr, relation)

\* Projection is wanted unless a * is among the columns.
NeedProjection(selectAttrs) ==
  selectAttrs # << >> /\ ~ Contains(selectAttrs, <<"*">>)

\* A scan of the table below one filter for each selection, the first of them
\* nearest to the scan, below the projection.  No rule reorders or replaces them.
OptimizeQuery(relation, selectAttrs, conditions) ==
  [relation   |-> relation,
   selections |-> Restrict(conditions, {i \in DOMAIN conditions :
                                           IsSelectionCondition(conditions[i], relation)}),
   projection |-> IF NeedProjection(selectAttrs) THEN selectAttrs ELSE << >>]

EvaluateCondition(columns, tuple, cond, guess) ==
  IF \/ FindAttr(columns, cond.lhsAttr) = 0
     \/ cond.bRhsIsAttr /\ FindAttr(columns, cond.rhsAttr) = 0
  THEN "QL_INVALIDCONDITION"
  ELSE CompareValues(InColumn(columns, tuple, cond.lhsAttr),
                     IF cond.bRhsIsAttr THEN InColumn(columns, tuple, cond.rhsAttr)
                     ELSE Operand(cond.rhsValue.type, cond.rhsValue),
                     cond.op, guess)

\* The first outcome that is not true: the conditions after it are not looked at.
FirstOther(outcomes) ==
  LET others == {i \in DOMAIN outcomes : outcomes[i] # "true"}
  IN  IF others = {} THEN "true" ELSE outcomes[Min(others)]

\* What becomes of a tuple on its way up: it comes out (true), a filter drops it
\* (false), or the query ends with the error of a filter.
PassTuple(plan, columns, tuple, guess) ==
  FirstOther([i \in DOMAIN plan.selections |->
                EvaluateCondition(columns, tuple, plan.selections[i], guess)])

-----------------------------------------------------------------------------
(* DELETE and UPDATE *)

\* (fault) A column there is not is passed over.
DeleteMatchesUnknown(columns, tuple, conditions, guess) ==
  \A i \in DOMAIN conditions :
     \/ FindAttr(columns, conditions[i].lhsAttr) = 0
     \/ EvaluateCondition(columns, tuple, conditions[i], guess) = "true"

\* An unknown column, two types or an unknown operator make a condition false.
DeleteMatches(columns, tuple, conditions, guess) ==
  \A i \in DOMAIN conditions :
     EvaluateCondition(columns, tuple, conditions[i], guess) = "true"

\* A column on the right is not looked up: the value is the null pointer of
\* Value(), an INT, and comparing with it is the end of the process.
UpdateOutcome(columns, tuple, cond, guess) ==
  LET i == FindAttr(columns, cond.lhsAttr)
  IN  CASE i = 0 -> "false"
        [] i # 0 /\ cond.bRhsIsAttr /\ columns[i].type = cond.rhsValue.type -> "null"
        [] i # 0 /\ cond.bRhsIsAttr /\ columns[i].type # cond.rhsValue.type -> "false"
        [] OTHER -> EvaluateCondition(columns, tuple, cond, guess)

\* (fault) One condition that holds is enough.
UpdateMatchesAny(columns, tuple, conditions, guess) ==
  IF \E i \in DOMAIN conditions : UpdateOutcome(columns, tuple, conditions[i], guess) = "true"
  THEN "true"
  ELSE FirstOther([i \in DOMAIN conditions |->
                     UpdateOutcome(columns, tuple, conditions[i], guess)])

UpdateMatches(columns, tuple, conditions, guess) ==
  FirstOther([i \in DOMAIN conditions |->
                UpdateOutcome(columns, tuple, conditions[i], guess)])
=============================================================================
