------------------------------ MODULE Progress ------------------------------
(***************************************************************************)
(* internal/progress as ExecuteSync drives it: the totals calculateStats   *)
(* gives a plan, and the counters a CallbackReporter keeps while the plan  *)
(* is carried out.  Only what touches the counters is modelled: what the   *)
(* actions do to the trees is SyncService's.                               *)
(***************************************************************************)
EXTENDS Planner, FiniteSetsExt

CONSTANTS
  Rules,       \* the rules that are run
  Pairs,       \* the pairs of trees a run may find
  MaxRuns      \* bound: runs of one service

ASSUME ProgressAssumption ==
  /\ Rules \subseteq [mode : Modes, conflict : Strategies]
  /\ \A t \in Pairs, side \in {"source", "target"} :
       /\ t[side] \in [Path -> Entry]
       /\ \A p \in Path : t[side][p].type = "file" => t[side][p].content \in Content
  /\ MaxRuns \in Nat

VARIABLES
  rule, info,  \* the rule of the run, and the listings its plan is made from
  plan,        \* the actions still to take
  pc,          \* "idle", "exec", "reading", "copied"
  reporter,    \* the CallbackReporter: totals, completed, size of the current file
  overall,     \* filesCompleted and bytesCompleted of ExecuteSync
  length,      \* what the open file holds
  transferred, \* what its ProgressReader has read
  shown,       \* the last Update of the run the callback was given
  outcome,     \* how the last run ended
  runs,        \* runs so far
  base,        \* history: the reporter's counts when the run began
  exact        \* history: every file held what had been announced

vars == <<rule, info, plan, pc, reporter, overall, length, transferred, shown, outcome,
          runs, base, exact>>

Sizes == {SizeOf[c] : c \in Content}

Counts == [files : Nat, bytes : Nat]
NoCounts == [files |-> 0, bytes |-> 0]
Plus(m, files, bytes) == [files |-> m.files + files, bytes |-> m.bytes + bytes]

NewReporter == [total |-> NoCounts, completed |-> NoCounts, current |-> 0]
NoUpdate == [type |-> "none", completed |-> NoCounts]

TypeOK ==
  /\ rule \in Rules
  /\ plan \subseteq Action
  /\ pc \in {"idle", "exec", "reading", "copied"}
  /\ reporter \in [total : Counts, completed : Counts, current : Nat]
  /\ overall \in Counts /\ base \in Counts
  /\ length \in Sizes \cup {0} /\ transferred \in 0..length
  /\ shown \in [type : {"none", "start", "progress", "complete", "error", "overall"},
                completed : Counts]
  /\ outcome \in {"none", "ok", "failed"} /\ runs \in 0..MaxRuns /\ exact \in BOOLEAN

-----------------------------------------------------------------------------
(* An action's SourceInfo: the origin in a one-way plan, the source's file *)
(* in a two-way plan, even where the target's is the one to be copied.     *)
SourceInfo(r, i, a) ==
  IF r.mode = "one-way-pull" THEN i["target"][a.path] ELSE i["source"][a.path]

(* The size a copy is announced with, in the plan and at its start.        *)
FileSize(r, i, a) ==
  IF Listed(SourceInfo(r, i, a)) THEN SourceInfo(r, i, a).size
                                 ELSE i["target"][a.path].size

Copies(actions) == {a \in actions : a.type = "copy"}

(* Slip: a file that only the target has counts no bytes. *)
StatsOfSource(r, i, actions) ==
  [files |-> Cardinality(Copies(actions)),
   bytes |-> MapThenSumSet(LAMBDA a : SourceInfo(r, i, a).size, Copies(actions))]

(* calculateStats: FilesToCopy and BytesToSync.                            *)
Stats(r, i, actions) ==
  [files |-> Cardinality(Copies(actions)),
   bytes |-> MapThenSumSet(LAMBDA a : FileSize(r, i, a), Copies(actions))]

(* A callback sees the counts c beside the totals.                         *)
Show(type, c) == shown' = [type |-> type, completed |-> c]

-----------------------------------------------------------------------------
(* A run begins, with a reporter of its own or the one of the run before.  *)
SetTotal ==
  /\ pc = "idle" /\ runs < MaxRuns
  /\ \E r \in Rules, t \in Pairs, mine \in {reporter, NewReporter} :
       LET i == [source |-> Listing("local", t["source"]),
                 target |-> Listing("local", t["target"])] IN
       /\ rule' = r /\ info' = i
       /\ plan' = Plan(r, i["source"], i["target"])
       /\ reporter' = [mine EXCEPT !.total = Stats(r, i, plan')]
       /\ base' = mine.completed
  /\ pc' = "exec" /\ runs' = runs + 1
  /\ overall' = NoCounts /\ shown' = NoUpdate /\ outcome' = "none" /\ exact' = TRUE
  /\ UNCHANGED <<length, transferred>>

(* Slip: the reader goes on counting where the last one stopped. *)
StartKeepingCount(a) ==
  /\ pc = "exec" /\ plan # {} /\ a = First(plan) /\ a.type = "copy"
  /\ reporter' = [reporter EXCEPT !.current = FileSize(rule, info, a)]
  /\ Show("start", reporter.completed)
  /\ length' \in Sizes
  /\ exact' = (exact /\ length' = FileSize(rule, info, a))
  /\ pc' = "reading"
  /\ UNCHANGED <<rule, info, plan, overall, transferred, outcome, runs, base>>

(* The file may have changed its size since it was listed.                 *)
StartCopy(a) ==
  /\ pc = "exec" /\ plan # {} /\ a = First(plan) /\ a.type = "copy"
  /\ reporter' = [reporter EXCEPT !.current = FileSize(rule, info, a)]
  /\ Show("start", reporter.completed)
  /\ length' \in Sizes /\ transferred' = 0
  /\ exact' = (exact /\ length' = FileSize(rule, info, a))
  /\ pc' = "reading"
  /\ UNCHANGED <<rule, info, plan, overall, outcome, runs, base>>

(* Slip: only the current file's bytes are shown. *)
UpdateOfFile ==
  /\ pc = "reading" /\ transferred < length
  /\ transferred' \in (transferred + 1)..length
  /\ Show("progress", [reporter.completed EXCEPT !.bytes = transferred'])
  /\ UNCHANGED <<rule, info, plan, pc, reporter, overall, length, outcome, runs, base,
                 exact>>

(* A read of the ProgressReader, as many bytes as it happens to give.      *)
Update ==
  /\ pc = "reading" /\ transferred < length
  /\ transferred' \in (transferred + 1)..length
  /\ Show("progress", Plus(reporter.completed, 0, transferred'))
  /\ UNCHANGED <<rule, info, plan, pc, reporter, overall, length, outcome, runs, base,
                 exact>>

(* Slip: what was read is counted, not what was announced. *)
CompleteAsRead ==
  /\ pc = "reading" /\ transferred = length
  /\ reporter' = [reporter EXCEPT !.completed = Plus(@, 1, transferred)]
  /\ Show("complete", reporter'.completed)
  /\ pc' = "copied"
  /\ UNCHANGED <<rule, info, plan, overall, length, transferred, outcome, runs, base,
                 exact>>

Complete ==
  /\ pc = "reading" /\ transferred = length
  /\ reporter' = [reporter EXCEPT !.completed = Plus(@, 1, reporter.current)]
  /\ Show("complete", reporter'.completed)
  /\ pc' = "copied"
  /\ UNCHANGED <<rule, info, plan, overall, length, transferred, outcome, runs, base,
                 exact>>

(* ExecuteSync keeps counts of its own for the next update.                *)
OverallProgress ==
  /\ pc = "copied"
  /\ overall' = Plus(overall, 1, FileSize(rule, info, First(plan)))
  /\ Show("overall", overall')
  /\ plan' = plan \ {First(plan)}
  /\ pc' = "exec"
  /\ UNCHANGED <<rule, info, reporter, length, transferred, outcome, runs, base, exact>>

(* The other actions tell the reporter nothing.                            *)
OtherAction ==
  /\ pc = "exec" /\ plan # {} /\ First(plan).type # "copy"
  /\ plan' = plan \ {First(plan)}
  /\ UNCHANGED <<rule, info, pc, reporter, overall, length, transferred, shown, outcome,
                 runs, base, exact>>

(* An action fails, or the context is cancelled between two: the run ends. *)
Error ==
  /\ \/ pc = "exec" /\ plan # {} /\ shown' = shown             \* cancelled
     \/ /\ \/ pc = "exec" /\ plan # {} /\ First(plan).type \in {"mkdir", "delete"}
           \/ pc = "reading"
        /\ Show("error", reporter.completed)
  /\ outcome' = "failed" /\ pc' = "idle" /\ plan' = {} /\ length' = 0 /\ transferred' = 0
  /\ UNCHANGED <<rule, info, reporter, overall, runs, base, exact>>

Finish ==
  /\ pc = "exec" /\ plan = {}
  /\ outcome' = "ok" /\ pc' = "idle" /\ length' = 0 /\ transferred' = 0
  /\ UNCHANGED <<rule, info, plan, reporter, overall, shown, runs, base, exact>>

Init ==
  /\ rule \in Rules /\ info = [side \in {"source", "target"} |-> [p \in Path |-> NoInfo]]
  /\ plan = {} /\ pc = "idle"
  /\ reporter = NewReporter /\ overall = NoCounts
  /\ length = 0 /\ transferred = 0
  /\ shown = NoUpdate /\ outcome = "none" /\ runs = 0
  /\ base = NoCounts /\ exact = TRUE

Next ==
  \/ SetTotal \/ (\E a \in plan : StartCopy(a)) \/ Update \/ Complete \/ OverallProgress
  \/ OtherAction \/ Error \/ Finish

Spec == Init /\ [][Next]_vars

-----------------------------------------------------------------------------
AtMost(m, n) == m.files <= n.files /\ m.bytes <= n.bytes

(* The two sets of books agree between two actions, the reporter's and     *)
(* ExecuteSync's (sync.go:216-239), and at the end of a good run they      *)
(* agree with the plan's statistics, whatever the files really held.       *)
BooksAgree ==
  /\ pc = "exec" \/ outcome = "ok" =>
       reporter.completed = Plus(base, overall.files, overall.bytes)
  /\ outcome = "ok" => overall = reporter.total

(* As long as files hold what was announced, no update of a new reporter   *)
(* shows more than the totals of planner.calculateStats ...                *)
WithinTotals ==
  exact /\ base = NoCounts => AtMost(shown.completed, reporter.total)

(* ... and progress never goes back within a run, but for the bytes of a   *)
(* copy that fails.                                                        *)
NeverBack ==
  [][exact' /\ base' = NoCounts /\ pc # "idle" /\ shown'.type # "error" =>
       AtMost(shown.completed, shown'.completed)]_vars
=============================================================================
