------------------------------ MODULE History ------------------------------
(***************************************************************************)
(* internal/state/manager.go: the table of executions, a sequence of rows  *)
(* in the order of their insertion.  A row's start_time is the text that   *)
(* the driver makes of the local time: "text" is its place in the order of *)
(* texts, "start" the moment it means.                                     *)
(***************************************************************************)
EXTENDS Naturals, Sequences, FiniteSets

Statuses == {"success", "failed", "partial"}

(* an INSERT; a status that is none is refused                             *)
SaveExecution(rows, row) == IF row.status \in Statuses THEN Append(rows, row) ELSE rows

(* ORDER BY start_time DESC; of rows of one time the first inserted leads. *)
Later(rows, i, j) ==
  \/ rows[i].text > rows[j].text
  \/ rows[i].text = rows[j].text /\ i < j

(* the row at place k among the selected ones *)
Ranked(rows, selected, k) ==
  rows[CHOOSE i \in selected : Cardinality({j \in selected : Later(rows, j, i)}) = k - 1]

(* LIMIT n, over the rows that a query selects                             *)
Query(rows, selected, n) ==
  [k \in 1..(IF n < Cardinality(selected) THEN n ELSE Cardinality(selected)) |->
     Ranked(rows, selected, k)]

GetHistory(rows, rule, limit) == Query(rows, {i \in DOMAIN rows : rows[i].rule = rule}, limit)

GetAllHistory(rows, limit) == Query(rows, DOMAIN rows, limit)

(* at most one row *)
GetLastSuccess(rows, rule) ==
  Query(rows, {i \in DOMAIN rows : rows[i].rule = rule /\ rows[i].status = "success"}, 1)
=============================================================================
