------------------------------- MODULE Planner -------------------------------
(***************************************************************************)
(* internal/core: diff.Compare, conflict.Resolve, and the planner's two    *)
(* plans.  A plan is the set of its actions; sortActions gives the order   *)
(* in which ExecuteSync takes them.                                        *)
(***************************************************************************)
EXTENDS Tree

Modes == {"one-way-push", "one-way-pull", "two-way"}
Strategies == {"keep_local", "keep_remote", "keep_newest", "manual"}

ToTarget == "source-to-target"
ToSource == "target-to-source"

Action == [type : {"mkdir", "copy", "delete", "conflict", "skip"},
           direction : {ToTarget, ToSource}, path : Path]

Act(type, direction, p) == [type |-> type, direction |-> direction, path |-> p]

IsFile(i) == i.type = "file"
Listed(i) == i.type # "none"

-----------------------------------------------------------------------------
(* Slip: equal sizes are taken for equal contents. *)
FileModifiedBySize(s, t) == s.size # t.size

(* Slip: checksums are not consulted. *)
FileModifiedByTime(s, t) == s.size # t.size \/ s.mtime # t.mtime

(* Compare of two files: sizes, then modification times, and where these   *)
(* differ the checksums.  Two files without a checksum count as identical, *)
(* one checksum against none as modified.                                  *)
FileModified(s, t) ==
  s.size # t.size \/ (s.mtime # t.mtime /\ s.checksum # t.checksum)

(* Slip: the newer file is overwritten by the older one. *)
ResolveBackwards(strategy, p, s, t) ==
  IF s.mtime > t.mtime THEN Act("copy", ToSource, p) ELSE Act("copy", ToTarget, p)

(* Resolve, for two files that differ.                                     *)
Resolve(strategy, p, s, t) ==
  CASE strategy = "keep_local"  -> Act("skip", ToTarget, p)
    [] strategy = "keep_remote" -> Act("copy", ToTarget, p)
    [] strategy = "keep_newest" ->
         IF s.checksum[1] # "" /\ s.checksum = t.checksum THEN Act("skip", ToTarget, p)
         ELSE IF s.mtime > t.mtime THEN Act("copy", ToTarget, p)
         ELSE IF t.mtime > s.mtime THEN Act("copy", ToSource, p)
         ELSE IF s.size = t.size THEN Act("skip", ToTarget, p)
         ELSE Act("conflict", ToTarget, p)
    [] OTHER -> Act("conflict", ToTarget, p)

(* The action that brings a path that only one side has to the other side. *)
Transfer(i, direction, p) == Act(IF i.type = "dir" THEN "mkdir" ELSE "copy", direction, p)

PlanOneWay(from, to, direction) ==
  LET Mismatch(p) == from[p].type # to[p].type IN
  {Transfer(from[p], direction, p) : p \in {q \in Path : Listed(from[q]) /\ ~Listed(to[q])}}
  \cup {Act("conflict", direction, p) :
          p \in {q \in Path : Listed(from[q]) /\ Listed(to[q]) /\ Mismatch(q)}}
  \cup {Act("copy", direction, p) :
          p \in {q \in Path : IsFile(from[q]) /\ IsFile(to[q]) /\ FileModified(from[q], to[q])}}
  \cup {Act("delete", direction, p) : p \in {q \in Path : Listed(to[q]) /\ ~Listed(from[q])}}

PlanTwoWay(s, t, strategy) ==
  {Transfer(s[p], ToTarget, p) : p \in {q \in Path : Listed(s[q]) /\ ~Listed(t[q])}}
  \cup {Transfer(t[p], ToSource, p) : p \in {q \in Path : Listed(t[q]) /\ ~Listed(s[q])}}
  \cup {Act("conflict", ToTarget, p) :
          p \in {q \in Path : Listed(s[q]) /\ Listed(t[q]) /\ s[q].type # t[q].type}}
  \cup {Resolve(strategy, p, s[p], t[p]) :
          p \in {q \in Path : IsFile(s[q]) /\ IsFile(t[q]) /\ FileModified(s[q], t[q])}}

(* DefaultExecutor.Plan: the plan of the rule's mode.                      *)
Plan(rule, s, t) ==
  CASE rule.mode = "one-way-push" -> PlanOneWay(s, t, ToTarget)
    [] rule.mode = "one-way-pull" -> PlanOneWay(t, s, ToSource)
    [] rule.mode = "two-way"      -> PlanTwoWay(s, t, rule.conflict)

-----------------------------------------------------------------------------
Depth(p) == Cardinality(Ancestors[p])

TypeOrder == [mkdir |-> 1, copy |-> 2, delete |-> 3, conflict |-> 4, skip |-> 5]

(* Slip: deletes go from the shallow to the deep like everything else. *)
BeforeShallowFirst(a, b) ==
  \/ TypeOrder[a.type] < TypeOrder[b.type]
  \/ /\ a.type = b.type
     /\ \/ Depth(a.path) < Depth(b.path)
        \/ Depth(a.path) = Depth(b.path) /\ Rank[a.path] < Rank[b.path]

(* sortActions: by type, then by depth (deletes from the deep to the       *)
(* shallow), then by path.                                                 *)
Before(a, b) ==
  \/ TypeOrder[a.type] < TypeOrder[b.type]
  \/ /\ a.type = b.type
     /\ \/ IF a.type = "delete" THEN Depth(a.path) > Depth(b.path)
                                ELSE Depth(a.path) < Depth(b.path)
        \/ Depth(a.path) = Depth(b.path) /\ Rank[a.path] < Rank[b.path]

(* the action of a plan that comes first *)
First(plan) == CHOOSE a \in plan : \A b \in plan \ {a} : Before(a, b)
=============================================================================
