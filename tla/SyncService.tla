----------------------------- MODULE SyncService -----------------------------
(***************************************************************************)
(* internal/service/sync.go: processes (the daemon, the command line) that *)
(* plan and execute the synchronisation of one rule, while users change    *)
(* both trees.  PlanSync lists one side, then the other, without a lock;   *)
(* ExecuteSync takes the lock, carries out the plan action by action and   *)
(* gives the lock back whatever happens.  The lock is the one of           *)
(* SyncMutex; FileLock says when the lock file provides it.                *)
(***************************************************************************)
EXTENDS Planner

CONSTANTS
  Proc,        \* processes that synchronise
  NoProc,
  Rules,       \* the configured rule is one of these
  KindOf,      \* KindOf[side]: "local" or "drive"
  Start,       \* the pairs of trees the processes may find at first
  Now,         \* the time then
  UserPath,    \* the paths users work on
  MaxEdits,    \* bound: how often users change something
  MaxMishaps   \* bound: crashes, cancellations and I/O errors

Side == {"source", "target"}

(* what there may be at first *)
Found == {Nothing, Directory} \cup {File(c, m) : c \in Content \cup {Partial}, m \in 0..Now}

ASSUME ServiceAssumption ==
  /\ NoProc \notin Proc
  /\ Rules \subseteq [mode : Modes, conflict : Strategies]
  /\ KindOf \in [Side -> {"local", "drive"}]
  /\ UserPath \subseteq Path
  /\ MaxEdits \in Nat /\ MaxMishaps \in Nat
  /\ Now \in Nat
  /\ Start \subseteq [Side -> [Path -> Found]]
  /\ \A t \in Start, s \in Side : WellFormed(t[s])

VARIABLES
  rule,        \* the rule the processes run
  tree,        \* tree[side]: what is stored there
  clock,       \* time stamps: every write gets a later one
  lock,        \* the process that holds the sync lock, or NoProc
  pc,          \* pc[p]: "idle", "listing", "planned", "exec", "copying"
  listed,      \* listed[p]: the listing of the source, while p plans
  plan,        \* plan[p]: the actions p still has to take
  buffer,      \* buffer[p]: the content p is copying
  outcome,     \* outcome[p]: how p's last run ended
  edits,       \* user changes so far
  mishaps,     \* mishaps so far
  quiet,       \* history: quiet[p] when nobody but p changed a tree, and
               \* nothing went wrong in p, since p's run began
  origin       \* history: the trees at first

vars == <<rule, tree, clock, lock, pc, listed, plan, buffer, outcome, edits, mishaps,
          quiet, origin>>

(* what belongs to the environment and to the history *)
outside == <<rule, edits, mishaps, origin>>

Empty == [p \in Path |-> NoInfo]

TypeOK ==
  /\ rule \in Rules
  /\ DOMAIN tree = Side
  /\ \A s \in Side : DOMAIN tree[s] = Path /\ \A x \in Path :
       /\ tree[s][x].type \in {"none", "dir", "file"}
       /\ tree[s][x].content \in (IF tree[s][x].type = "file" THEN Content \cup {Partial}
                                  ELSE {NoContent})
       /\ tree[s][x].mtime <= clock
  /\ \A s \in Side : WellFormed(tree[s])
  /\ clock \in Nat
  /\ lock \in Proc \cup {NoProc}
  /\ pc \in [Proc -> {"idle", "listing", "planned", "exec", "copying"}]
  /\ \A p \in Proc : plan[p] \subseteq Action
  /\ buffer \in [Proc -> Content \cup {NoContent, Partial}]
  /\ outcome \in [Proc -> {"none", "ok", "failed", "refused", "cancelled"}]
  /\ edits \in 0..MaxEdits /\ mishaps \in 0..MaxMishaps
  /\ quiet \in [Proc -> BOOLEAN]

Origin(a) == IF a.direction = ToTarget THEN "source" ELSE "target"
Destination(a) == IF a.direction = ToTarget THEN "target" ELSE "source"

(* p changes a tree, which ends the quiet of every other run *)
Put(p, side, t) ==
  /\ tree' = [tree EXCEPT ![side] = t]
  /\ quiet' = [q \in Proc |-> quiet[q] /\ (q = p \/ t = tree[side])]

Goto(p, label) == pc' = [pc EXCEPT ![p] = label]

(* The run of p ends; the deferred Release frees the lock.                 *)
End(p, result) ==
  /\ Goto(p, "idle")
  /\ lock' = IF lock = p THEN NoProc ELSE lock
  /\ outcome' = [outcome EXCEPT ![p] = result]
  /\ plan' = [plan EXCEPT ![p] = {}]
  /\ buffer' = [buffer EXCEPT ![p] = NoContent]
  /\ listed' = [listed EXCEPT ![p] = Empty]

-----------------------------------------------------------------------------
(* PlanSync: the source is listed, then the target, and the plan made.     *)
PlanSync(p) ==
  /\ pc[p] = "idle"
  /\ Goto(p, "listing")
  /\ listed' = [listed EXCEPT ![p] = Listing(KindOf["source"], tree["source"])]
  /\ quiet' = [quiet EXCEPT ![p] = TRUE]
  /\ outcome' = [outcome EXCEPT ![p] = "none"]
  /\ UNCHANGED <<tree, clock, lock, plan, buffer, outside>>

ListTarget(p) ==
  /\ pc[p] = "listing"
  /\ Goto(p, "planned")
  /\ plan' = [plan EXCEPT ![p] =
                Plan(rule, listed[p], Listing(KindOf["target"], tree["target"]))]
  /\ listed' = [listed EXCEPT ![p] = Empty]
  /\ UNCHANGED <<tree, clock, lock, buffer, outcome, quiet, outside>>

(* ExecuteSync begins with the lock, or is refused; whoever has the lock    *)
(* already gets it.                                                        *)
AcquireLock(p) ==
  /\ pc[p] = "planned"
  /\ IF lock \in {NoProc, p}
       THEN /\ lock' = p
            /\ Goto(p, "exec")
            /\ UNCHANGED <<plan, buffer, listed, outcome>>
       ELSE End(p, "refused")
  /\ UNCHANGED <<tree, clock, quiet, outside>>

(* p is to take action a next *)
Executes(p, a) == pc[p] = "exec" /\ plan[p] # {} /\ a = First(plan[p])

Done(p, a) == plan' = [plan EXCEPT ![p] = @ \ {a}]

(* The first error ends the run; nothing is undone.                        *)
Fail(p) == End(p, "failed") /\ UNCHANGED <<tree, clock, quiet>>

CanRead(a) == tree[Origin(a)][a.path].type = "file"

(* Copy: the origin is opened, the temporary file created ...              *)
BeginCopy(p, a) ==
  LET to == Destination(a) IN
  /\ Executes(p, a) /\ a.type = "copy"
  /\ IF CanRead(a) /\ (KindOf[to] = "local" => CanBeginWrite(tree[to], a.path))
       THEN /\ buffer' = [buffer EXCEPT ![p] = tree[Origin(a)][a.path].content]
            /\ Goto(p, "copying")
            /\ IF KindOf[to] = "local" THEN Put(p, to, BeginWrite(tree[to], a.path, clock))
               ELSE UNCHANGED <<tree, quiet>>
            /\ UNCHANGED <<clock, lock, listed, plan, outcome>>
       ELSE Fail(p)
  /\ UNCHANGED outside

(* Slip: the bytes are written in place, and a failure leaves them. *)
FinishCopyInPlace(p) ==
  LET a == First(plan[p])
      to == Destination(a) IN
  /\ pc[p] = "copying" /\ tree[to][a.path].type # "dir"
  /\ clock' = clock + 1
  /\ \/ /\ tree[to][a.path].content # Partial
        /\ Put(p, to, [tree[to] EXCEPT ![a.path] = File(Partial, clock')])
        /\ UNCHANGED <<pc, lock, buffer, listed, plan, outcome>>
     \/ /\ tree[to][a.path].content = Partial
        /\ Put(p, to, FinishWrite(tree[to], a.path, buffer[p], clock'))
        /\ Done(p, a) /\ Goto(p, "exec")
        /\ buffer' = [buffer EXCEPT ![p] = NoContent]
        /\ UNCHANGED <<lock, listed, outcome>>
  /\ UNCHANGED outside

(* ... the bytes copied and the temporary file renamed over the path.      *)
FinishCopy(p) ==
  LET a == First(plan[p])
      to == Destination(a)
      new == IF KindOf[to] = "local" THEN FinishWrite(tree[to], a.path, buffer[p], clock')
             ELSE Upload(tree[to], a.path, buffer[p], clock')
      possible == IF KindOf[to] = "local" THEN CanFinishWrite(tree[to], a.path)
                  ELSE CanUpload(tree[to], a.path) IN
  /\ pc[p] = "copying"
  /\ IF possible
       THEN /\ clock' = clock + 1
            /\ Put(p, to, new)
            /\ Done(p, a)
            /\ buffer' = [buffer EXCEPT ![p] = NoContent]
            /\ Goto(p, "exec")
            /\ UNCHANGED <<lock, listed, outcome>>
       ELSE /\ End(p, "failed")
            /\ Put(p, to, IF KindOf[to] = "local" THEN DropTmp(tree[to], a.path) ELSE tree[to])
            /\ UNCHANGED clock
  /\ UNCHANGED outside

Mkdir(p, a) ==
  LET to == Destination(a)
      dirs == Ancestors[a.path] \cup {a.path} IN
  /\ Executes(p, a) /\ a.type = "mkdir"
  /\ IF CanMkdirAll(tree[to], dirs)
       THEN /\ Put(p, to, MkdirAll(tree[to], dirs))
            /\ Done(p, a)
            /\ UNCHANGED <<clock, lock, pc, listed, buffer, outcome>>
       ELSE Fail(p)
  /\ UNCHANGED outside

Remove(p, a) ==
  LET to == Destination(a) IN
  /\ Executes(p, a) /\ a.type = "delete"
  /\ IF CanDelete(KindOf[to], tree[to], a.path)
       THEN /\ Put(p, to, Delete(tree[to], a.path))
            /\ Done(p, a)
            /\ UNCHANGED <<clock, lock, pc, listed, buffer, outcome>>
       ELSE Fail(p)
  /\ UNCHANGED outside

Pass(p, a) ==
  /\ Executes(p, a) /\ a.type \in {"conflict", "skip"}
  /\ Done(p, a)
  /\ UNCHANGED <<tree, clock, lock, pc, listed, buffer, outcome, quiet, outside>>

Finish(p) ==
  /\ pc[p] = "exec" /\ plan[p] = {}
  /\ End(p, "ok")
  /\ UNCHANGED <<tree, clock, quiet, outside>>

ExecuteAction(p, a) == BeginCopy(p, a) \/ Mkdir(p, a) \/ Remove(p, a) \/ Pass(p, a)

Step(p) ==
  \/ PlanSync(p) \/ ListTarget(p) \/ AcquireLock(p)
  \/ \E a \in plan[p] : ExecuteAction(p, a)
  \/ FinishCopy(p) \/ Finish(p)

-----------------------------------------------------------------------------
(* What goes wrong.                                                        *)

Mishap(p) ==
  /\ mishaps < MaxMishaps
  /\ mishaps' = mishaps + 1
  /\ quiet' = [q \in Proc |-> quiet[q] /\ q # p /\ tree' = tree]
  /\ UNCHANGED <<rule, edits, origin, clock>>

(* The context is cancelled: seen between two actions.                     *)
Cancel(p) ==
  /\ pc[p] = "exec" /\ plan[p] # {}
  /\ End(p, "cancelled")
  /\ UNCHANGED tree
  /\ Mishap(p)

(* A listing fails, or an action does, at its first system call or while   *)
(* the bytes go over; the temporary file is removed then.                  *)
IOError(p) ==
  /\ \/ pc[p] \in {"listing", "copying"}
     \/ \E a \in plan[p] : Executes(p, a) /\ a.type \in {"copy", "mkdir", "delete"}
  /\ End(p, "failed")
  /\ tree' = IF pc[p] # "copying" THEN tree
             ELSE LET a == First(plan[p]) IN
                  [tree EXCEPT ![Destination(a)] =
                     IF KindOf[Destination(a)] = "local" THEN DropTmp(@, a.path) ELSE @]
  /\ Mishap(p)

(* The process dies.  Assumed here: its lock is free at once, and from     *)
(* then on one process at a time has it.  The lock file gives less when    *)
(* processes end (FileLock, run lock_exit).                                *)
Crash(p) ==
  /\ pc[p] # "idle"
  /\ End(p, "none")
  /\ UNCHANGED tree
  /\ Mishap(p)

(* A copy and a new directory first get the directories on their way, one  *)
(* after the other: after any of them an error or the end of the process   *)
(* may come.                                                               *)
BreakOff(p) ==
  \E a \in plan[p] : \E q \in Ancestors[a.path] :
    LET to == Destination(a)
        dirs == Ancestors[q] \cup {q} IN
    /\ a = First(plan[p])
    /\ \/ pc[p] = "exec" /\ a.type = "mkdir"
       \/ pc[p] = "exec" /\ a.type = "copy" /\ KindOf[to] = "local" /\ CanRead(a)
       \/ pc[p] = "copying" /\ KindOf[to] # "local"
    /\ CanMkdirAll(tree[to], dirs)
    /\ tree' = [tree EXCEPT ![to] = MkdirAll(@, dirs)]
    /\ \E result \in {"failed", "none"} : End(p, result)
    /\ Mishap(p)

(* A user writes, removes or makes something.                              *)
UserEdit(side, x) ==
  /\ edits < MaxEdits
  /\ edits' = edits + 1
  /\ clock' = clock + 1
  /\ \A q \in Ancestors[x] : tree[side][q].type = "dir"
  /\ \/ /\ tree[side][x].type # "dir"
        /\ \E c \in Content : tree' = [tree EXCEPT ![side][x] = File(c, clock')]
     \/ /\ Present(tree[side], x) /\ ~Occupied(tree[side], x)
        /\ tree' = [tree EXCEPT ![side][x] = Nothing]
     \/ /\ ~Present(tree[side], x)
        /\ tree' = [tree EXCEPT ![side][x] = Directory]
  /\ quiet' = [p \in Proc |-> FALSE]
  /\ UNCHANGED <<rule, lock, pc, listed, plan, buffer, outcome, mishaps, origin>>

-----------------------------------------------------------------------------
Init ==
  /\ rule \in Rules
  /\ tree \in Start
  /\ clock = Now
  /\ lock = NoProc
  /\ pc = [p \in Proc |-> "idle"]
  /\ listed = [p \in Proc |-> Empty]
  /\ plan = [p \in Proc |-> {}]
  /\ buffer = [p \in Proc |-> NoContent]
  /\ outcome = [p \in Proc |-> "none"]
  /\ edits = 0 /\ mishaps = 0
  /\ quiet = [p \in Proc |-> FALSE]
  /\ origin = tree

Next ==
  \/ \E p \in Proc : Step(p) \/ Cancel(p) \/ IOError(p) \/ Crash(p) \/ BreakOff(p)
  \/ \E side \in Side, x \in UserPath : UserEdit(side, x)

Spec == Init /\ [][Next]_vars

(* The scheduler, or the user, runs the rule again and again.              *)
FairSpec == Spec /\ \A p \in Proc : WF_vars(Step(p))
-----------------------------------------------------------------------------
(* the paths on which the two sides differ *)
Differing == {x \in Path \ Ignored : ~Same(tree["source"][x], tree["target"][x])}

(* A path that is a file here and a directory there: planned as a conflict *)
(* and left alone, and what lies below it with it.                         *)
Mismatched(x) ==
  /\ Present(tree["source"], x) /\ Present(tree["target"], x)
  /\ tree["source"][x].type # tree["target"][x].type

(* A directory to be deleted that holds an ignored entry, which no listing *)
(* shows: os.Remove refuses it.                                            *)
Pinned(side, x) ==
  /\ tree[side][x].type = "dir"
  /\ \E y \in Ignored : x \in Ancestors[y] /\ Present(tree[side], y)

Obstructed(x) ==
  \/ Mismatched(x)
  \/ \E y \in Ancestors[x] : Mismatched(y)
  \/ \E side \in Side : Pinned(side, x)

(* A one-way run that ends well, with nobody interfering, leaves a mirror: *)
(* docs/usage.md:301.  Only type conflicts may remain.                     *)
OneWayMirrors ==
  \A p \in Proc : outcome[p] = "ok" /\ quiet[p] /\ rule.mode # "two-way" =>
    \A x \in Differing : Mismatched(x)

(* A run that nobody interferes with does not fail, the obstacles the plan *)
(* cannot clear aside, as long as no earlier run was cut short: the order  *)
(* of the actions never makes a parent missing or a directory full, which  *)
(* planner.go:220 promises.                                                *)
OrderedRunSucceeds ==
  mishaps = 0 =>
    \A p \in Proc : outcome[p] = "failed" /\ quiet[p] => \E x \in Path : Obstructed(x)

(* A file is whole or absent under its own name, whatever crashes: local.go*)
(* 163-183 writes to a temporary file and renames it.                      *)
NoTornFile ==
  \A side \in Side, x \in UserPath : tree[side][x].content # Partial

(* The processes leave alone what the rule ignores.                        *)
IgnoredUntouched ==
  [][edits' = edits => \A side \in Side, x \in Ignored : tree'[side][x] = tree[side][x]]_vars

(* Once users and mishaps have stopped, a rule that is run again and again *)
(* brings the sides together and cleans up what a crash left behind, if    *)
(* nothing obstructs it.                                                   *)
EventuallyMirrored ==
  rule.mode # "two-way" => <>[](Differing = {} \/ \E x \in Path : Obstructed(x))

(* A two-way run that ends well, with nobody interfering, leaves nothing   *)
(* to do: the next plan only holds conflicts and skips.                    *)
Converged ==
  \A p \in Proc : outcome[p] = "ok" /\ quiet[p] =>
    \A a \in Plan(rule, Listing(KindOf["source"], tree["source"]),
                         Listing(KindOf["target"], tree["target"])) :
      a.type \in {"conflict", "skip"}

Other(side) == IF side = "source" THEN "target" ELSE "source"

(* may the conflict strategy replace side's version of x?                  *)
MayLose(side, x) ==
  /\ origin[Other(side)][x].type = "file"
  /\ \/ rule.conflict = "keep_remote" /\ side = "target"
     \/ rule.conflict = "keep_newest" /\ origin[Other(side)][x].mtime > origin[side][x].mtime

(* Two-way runs, however many processes interleave theirs and crash, keep  *)
(* every file the users had, except that the strategy's winner may replace *)
(* the loser: docs/usage.md:326-335.                                       *)
StrategyHonoured ==
  rule.mode = "two-way" =>
    \A side \in Side, x \in UserPath :
      origin[side][x].type = "file" =>
        \/ Same(tree[side][x], origin[side][x])
        \/ MayLose(side, x) /\ Same(tree[side][x], origin[Other(side)][x])
=============================================================================
