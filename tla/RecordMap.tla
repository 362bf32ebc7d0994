------------------------------- MODULE RecordMap -------------------------------
(***************************************************************************)
(* What the RM component promises: a file is a map from record identifiers *)
(* to records.  A restart of the process may take each record back to any  *)
(* value it has had since the file was last closed, and no further: it     *)
(* never invents a record, mixes two, or touches one left alone since.     *)
(***************************************************************************)
CONSTANTS RIDs, Values, NoValue

VARIABLES records,    \* RID |-> its value, or NoValue
          possible    \* RID |-> the values a restart may leave it with

mapVars == <<records, possible>>

Init ==
  /\ records  = [rid \in RIDs |-> NoValue]
  /\ possible = [rid \in RIDs |-> {NoValue}]

\* The record rid now has the value v.
Set(rid, v) ==
  /\ records'  = [records EXCEPT ![rid] = v]
  /\ possible' = [possible EXCEPT ![rid] = @ \union {v}]

\* The file chooses the identifier of a new record among the unused ones.
Insert(v) == \E rid \in RIDs : records[rid] = NoValue /\ Set(rid, v)

Update(rid, v) == records[rid] # NoValue /\ Set(rid, v)

Delete(rid) == records[rid] # NoValue /\ Set(rid, NoValue)

\* The file is closed: a restart cannot lose what it holds now.
Save ==
  /\ possible' = [rid \in RIDs |-> {records[rid]}]
  /\ UNCHANGED records

Restart ==
  /\ DOMAIN records' = RIDs
  /\ \A rid \in RIDs : records'[rid] \in possible[rid]
  /\ possible' = [rid \in RIDs |-> {records'[rid]}]

Next ==
  \/ \E v \in Values : Insert(v)
  \/ \E rid \in RIDs, v \in Values : Update(rid, v)
  \/ \E rid \in RIDs : Delete(rid)
  \/ Save
  \/ Restart

Spec == Init /\ [][Next]_mapVars
=============================================================================
