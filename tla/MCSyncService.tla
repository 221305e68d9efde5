---------------------------- MODULE MCSyncService ----------------------------
(***************************************************************************)
(* Instances of SyncService for TLC: a directory d with a file df and an   *)
(* ignored entry di in it, a file f beside it, and the temporary siblings  *)
(* of df and f.                                                            *)
(***************************************************************************)
EXTENDS SyncService, TLC

CONSTANTS d, df, dt, di, f, ft, c1, c2, p1, p2

InD == {df, dt, di}
MCAncestors == [x \in Path |-> IF x \in InD THEN {d} ELSE {}]
MCRank == [x \in Path |->
  CASE x = d -> 1 [] x = df -> 2 [] x = dt -> 3 [] x = di -> 4 [] x = f -> 5 [] x = ft -> 6]
MCTmpOf == [x \in Path |-> IF x = df THEN dt ELSE IF x = f THEN ft ELSE NoPath]

(* two contents of one size *)
MCSizeOf == [c \in Content \cup {Partial} |-> IF c = Partial THEN 0 ELSE 7]

Local == [side \in Side |-> "local"]
DriveTarget == [side \in Side |-> IF side = "target" THEN "drive" ELSE "local"]

(* the trees over some paths, with the entries es for files               *)
Trees(paths, es) ==
  LET Choices(x) == {Nothing} \cup es \cup (IF x = d THEN {Directory} ELSE {}) IN
  {t \in [Path -> {Nothing, Directory} \cup es] :
     /\ WellFormed(t)
     /\ \A x \in Path : IF x \in paths THEN t[x] \in Choices(x) ELSE t[x] = Nothing}

(* One way: the source's files are older than the target's.                *)
OneWayStart ==
  {[side \in Side |-> IF side = "source" THEN s ELSE t] :
     s \in Trees({d, df, f}, {File(c1, 1)}),
     t \in Trees({d, df, di, f}, {File(c2, 2)})}

OneWay == {[mode |-> m, conflict |-> "manual"] : m \in Modes \ {"two-way"}}
TwoWay == {[mode |-> "two-way", conflict |-> c] : c \in Strategies}

(* Two ways: either side may have the newer file.                          *)
TwoWayStart ==
  {[side \in Side |-> IF side = "source" THEN s ELSE t] :
     s \in Trees({d, df, f}, {File(c1, 1)}),
     t \in Trees({d, df, f}, {File(c2, 0), File(c2, 2)})}

(* ... and Drive has no file where the other side has a directory.         *)
DriveStart == {trees \in TwoWayStart : trees["target"][d].type # "file"}
=============================================================================
