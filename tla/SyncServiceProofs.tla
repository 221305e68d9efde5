--------------------------- MODULE SyncServiceProofs ---------------------------
(***************************************************************************)
(* Whatever crashes, is cancelled or changed by users, for any number of   *)
(* processes, rules, trees and patterns: files are whole or absent under   *)
(* their own names, and what a rule ignores is left alone.  Two-way runs   *)
(* keep the users' files, but for what the strategy lets the other side    *)
(* replace; a one-way run that nobody disturbs makes a mirror if it ends   *)
(* well.  A run of any rule that nobody disturbs only fails for what its   *)
(* plan cannot clear away, and leaves nothing to do if it ends well.       *)
(***************************************************************************)
EXTENDS SyncService, FiniteSetTheorems, WellFoundedInduction, TLAPS

(* A set of naturals has a least member.                                   *)
LEMMA LeastOf ==
  ASSUME NEW N, N \subseteq Nat, N # {}
  PROVE  \E m \in N : \A k \in N : m <= k
<1> DEFINE R == {ss \in Nat \X Nat : ss[1] < ss[2]}
<1>1. OpToRel(<, Nat) = R
  BY Zenon DEF OpToRel
<1>2. IsWellFoundedOn(R, Nat)
  BY <1>1, NatLessThanWellFounded, Zenon
<1> HIDE DEF R
<1>3. PICK m \in N : \A k \in N : ~(<<k, m>> \in R)
  BY <1>2, WFMin, Zenon
<1>4. \A k \in N : ~(k < m)
  BY <1>3 DEF R
<1> QED
  BY <1>4

USE TreeAssumption, ServiceAssumption

(* the entries there may be *)
Proper == {e \in Entry : /\ e.type = "none" => e = Nothing
                         /\ e.type = "dir" => e = Directory
                         /\ e.type = "file" => e.content # NoContent}
ATree == [Path -> Proper]

(* the actions on what a rule does not ignore *)
Sound == {a \in Action : a.path \notin Ignored}

-----------------------------------------------------------------------------
(* Lemmas about trees.                                                     *)

LEMMA EntriesProper ==
  /\ Nothing \in Proper /\ Directory \in Proper
  /\ \A c \in Content \cup {Partial}, m \in Nat : File(c, m) \in Proper
BY DEF Proper, Entry, Nothing, Directory, File

LEMMA ProperFields ==
  ASSUME NEW e \in Proper
  PROVE  /\ e.type \in {"none", "dir", "file"} /\ e.mtime \in Nat
         /\ e.type = "none" => e = Nothing
         /\ e.type = "dir" => e = Directory
         /\ e.type = "file" => e.content \in Content \cup {Partial}
<1>1. e \in Entry /\ (e.type = "file" => e.content # NoContent)
  BY DEF Proper
<1>2. e.type \in {"none", "dir", "file"} /\ e.mtime \in Nat /\ e.content \in Content \cup {NoContent, Partial}
  BY <1>1 DEF Entry
<1>3. (e.type = "none" => e = Nothing) /\ (e.type = "dir" => e = Directory)
  BY DEF Proper
<1> QED
  BY <1>1, <1>2, <1>3

(* What is not ignored lies in nothing that is.                            *)
LEMMA AncestorsNotIgnored ==
  ASSUME NEW x \in Path, x \notin Ignored
  PROVE  \A y \in Ancestors[x] : y \in Path /\ y \notin Ignored
BY DEF Ignored

LEMMA MkdirAllTree ==
  ASSUME NEW t \in ATree, NEW dirs \in SUBSET Path
  PROVE  /\ MkdirAll(t, dirs) \in ATree
         /\ \A x \in Path : \/ MkdirAll(t, dirs)[x] = t[x]
                            \/ x \in dirs /\ t[x].type = "none" /\ MkdirAll(t, dirs)[x] = Directory
BY EntriesProper DEF MkdirAll, ATree

LEMMA BeginWriteTree ==
  ASSUME NEW t \in ATree, NEW x \in Path, NEW m \in Nat
  PROVE  /\ BeginWrite(t, x, m) \in ATree
         /\ \A y \in Path : \/ BeginWrite(t, x, m)[y] = t[y]
                            \/ /\ y \in Ancestors[x] /\ t[y].type = "none"
                               /\ BeginWrite(t, x, m)[y] = Directory
                            \/ y = TmpOf[x] /\ BeginWrite(t, x, m)[y] = File(Partial, m)
<1> DEFINE u == MkdirAll(t, Ancestors[x])
<1>1. /\ u \in ATree
      /\ \A y \in Path : u[y] = t[y] \/ (y \in Ancestors[x] /\ t[y].type = "none" /\ u[y] = Directory)
  BY MkdirAllTree
<1>2. BeginWrite(t, x, m) = [y \in Path |-> IF y = TmpOf[x] THEN File(Partial, m) ELSE u[y]]
  BY DEF BeginWrite
<1> HIDE DEF u
<1> QED
  BY <1>1, <1>2, EntriesProper DEF ATree

LEMMA DropTmpTree ==
  ASSUME NEW t \in ATree, NEW x \in Path
  PROVE  /\ DropTmp(t, x) \in ATree
         /\ \A y \in Path : \/ DropTmp(t, x)[y] = t[y]
                            \/ y = TmpOf[x] /\ DropTmp(t, x)[y] = Nothing
BY EntriesProper DEF DropTmp, ATree

LEMMA FinishWriteTree ==
  ASSUME NEW t \in ATree, NEW x \in Path, NEW m \in Nat, NEW c \in Content \cup {Partial}
  PROVE  /\ FinishWrite(t, x, c, m) \in ATree
         /\ \A y \in Path : \/ FinishWrite(t, x, c, m)[y] = t[y]
                            \/ y = TmpOf[x] /\ FinishWrite(t, x, c, m)[y] = Nothing
                            \/ y = x /\ FinishWrite(t, x, c, m)[y] = File(c, m)
<1>1. FinishWrite(t, x, c, m) = [DropTmp(t, x) EXCEPT ![x] = File(c, m)]
  BY DEF FinishWrite
<1> QED
  BY <1>1, DropTmpTree, EntriesProper DEF ATree

LEMMA UploadTree ==
  ASSUME NEW t \in ATree, NEW x \in Path, NEW m \in Nat, NEW c \in Content \cup {Partial}
  PROVE  /\ Upload(t, x, c, m) \in ATree
         /\ \A y \in Path : \/ Upload(t, x, c, m)[y] = t[y]
                            \/ /\ y \in Ancestors[x] /\ t[y].type = "none"
                               /\ Upload(t, x, c, m)[y] = Directory
                            \/ y = x /\ Upload(t, x, c, m)[y] = File(c, m)
<1>1. Upload(t, x, c, m) = [MkdirAll(t, Ancestors[x]) EXCEPT ![x] = File(c, m)]
  BY DEF Upload
<1> QED
  BY <1>1, MkdirAllTree, EntriesProper DEF ATree

(* What none of them touches.                                              *)
LEMMA BeginWriteElsewhere ==
  ASSUME NEW t, NEW x, NEW m, NEW y \in Path,
         y # TmpOf[x], y \notin Ancestors[x] \/ t[y].type # "none"
  PROVE  BeginWrite(t, x, m)[y] = t[y]
BY DEF BeginWrite, MkdirAll

LEMMA FinishWriteElsewhere ==
  ASSUME NEW t, NEW x, NEW c, NEW m, NEW y \in Path, y # TmpOf[x], y # x
  PROVE  FinishWrite(t, x, c, m)[y] = t[y]
BY DEF FinishWrite, DropTmp

LEMMA UploadElsewhere ==
  ASSUME NEW t, NEW x, NEW c, NEW m, NEW y \in Path, y # x, y \notin Ancestors[x] \/ t[y].type # "none"
  PROVE  Upload(t, x, c, m)[y] = t[y]
BY DEF Upload, MkdirAll

LEMMA DeleteTree ==
  ASSUME NEW t \in ATree, NEW x \in Path
  PROVE  /\ Delete(t, x) \in ATree
         /\ \A y \in Path : Delete(t, x)[y] = t[y] \/ Delete(t, x)[y] = Nothing
         /\ ~Occupied(t, x) => \A y \in Path \ {x} : Delete(t, x)[y] = t[y]
<1>1. \A y \in Path : t[y] \in Proper /\ (t[y].type = "none" => t[y] = Nothing)
  BY ProperFields DEF ATree
<1>2. Delete(t, x) = [y \in Path |-> IF y = x \/ x \in Ancestors[y] THEN Nothing ELSE t[y]]
  BY DEF Delete
<1>3. Delete(t, x) \in ATree
  BY <1>1, <1>2, EntriesProper DEF ATree
<1>4. ~Occupied(t, x) => \A y \in Path : x \in Ancestors[y] => t[y] = Nothing
  BY <1>1 DEF Occupied, Present
<1> QED
  BY <1>2, <1>3, <1>4

-----------------------------------------------------------------------------
(* Lemmas about plans.                                                     *)

(* What a listing leaves out is not in it.                                 *)
LEMMA ListingHides ==
  ASSUME NEW kind, NEW t, NEW x \in Ignored
  PROVE  ~Listed(Listing(kind, t)[x])
BY DEF Listing, Ignored, Listed, NoInfo

(* A plan is about what has been listed.                                   *)
LEMMA PlanIsSound ==
  ASSUME NEW r \in [mode : Modes, conflict : Strategies], NEW s, NEW t,
         \A x \in Ignored : ~Listed(s[x]) /\ ~Listed(t[x])
  PROVE  Plan(r, s, t) \subseteq Sound
<1>1. ASSUME NEW from, NEW to, NEW direction \in {ToTarget, ToSource},
             \A x \in Ignored : ~Listed(from[x]) /\ ~Listed(to[x])
      PROVE  PlanOneWay(from, to, direction) \subseteq Sound
  BY <1>1 DEF PlanOneWay, Transfer, Act, Sound, Action, IsFile, Listed
<1>2. \A x : Resolve(r.conflict, x, s[x], t[x]) \in
               [type : {"copy", "skip", "conflict"}, direction : {ToTarget, ToSource}, path : {x}]
  BY DEF Resolve, Act
<1>3. PlanTwoWay(s, t, r.conflict) \subseteq Sound
  BY <1>2 DEF PlanTwoWay, Transfer, Act, Sound, Action, IsFile, Listed
<1> QED
  BY <1>1, <1>3 DEF Plan, Modes

-----------------------------------------------------------------------------
(* The variables the arguments need: plans are sound, listings show        *)
(* nothing that is ignored, and whoever copies has its action still to do. *)
ServiceInv ==
  /\ rule \in Rules
  /\ tree \in [Side -> ATree]
  /\ clock \in Nat
  /\ pc \in [Proc -> {"idle", "listing", "planned", "exec", "copying"}]
  /\ buffer \in [Proc -> Content \cup {NoContent, Partial}]
  /\ plan \in [Proc -> SUBSET Sound]
  /\ DOMAIN listed = Proc
  /\ \A p \in Proc, x \in Ignored : ~Listed(listed[p][x])
  /\ \A p \in Proc : pc[p] = "copying" => First(plan[p]) \in plan[p] /\ buffer[p] # NoContent

LEMMA EmptyHides == \A x \in Ignored : ~Listed(Empty[x])
BY Zenon DEF Empty, Ignored, Listed, NoInfo

LEMMA EmptyLists == \A x \in Path : ~Listed(Empty[x])
BY Zenon DEF Empty, Listed, NoInfo

LEMMA DestinationIsSide == \A a : Destination(a) \in Side /\ Origin(a) \in Side
BY DEF Destination, Origin, Side

LEMMA InitServiceInv == Init => ServiceInv
<1> SUFFICES ASSUME Init PROVE ServiceInv
  OBVIOUS
<1>1. tree \in [Side -> ATree]
  <2>1. Found \subseteq Proper
    BY EntriesProper DEF Found
  <2>2. tree \in [Side -> [Path -> Found]]
    BY DEF Init
  <2> HIDE DEF Proper, Found
  <2> QED
    BY <2>1, <2>2 DEF ATree
<1> QED
  BY <1>1, EmptyHides DEF Init, ServiceInv

(* The end of a run keeps its part.                                        *)
LEMMA EndKeeps ==
  ASSUME ServiceInv, NEW p \in Proc, NEW result, End(p, result),
         rule' = rule, tree' \in [Side -> ATree], clock' \in Nat
  PROVE  ServiceInv'
BY EmptyHides DEF ServiceInv, End, Goto

(* What a run that breaks off on the way to an entry does to a tree        *)
LEMMA BrokenOff ==
  ASSUME ServiceInv, NEW p \in Proc, BreakOff(p)
  PROVE  /\ \E result \in {"failed", "none"} : End(p, result)
         /\ Mishap(p)
         /\ \E a \in plan[p], dirs \in SUBSET Path :
              /\ a = First(plan[p]) /\ dirs \subseteq Ancestors[a.path]
              /\ \A x \in dirs : Ancestors[x] \subseteq dirs
              /\ CanMkdirAll(tree[Destination(a)], dirs)
              /\ tree' = [tree EXCEPT ![Destination(a)] = MkdirAll(tree[Destination(a)], dirs)]
         /\ tree' \in [Side -> ATree]
<1>1. /\ \E result \in {"failed", "none"} : End(p, result)
      /\ Mishap(p)
  BY DEF BreakOff
<1> DEFINE At(a, q) ==
             /\ a = First(plan[p])
             /\ CanMkdirAll(tree[Destination(a)], Ancestors[q] \cup {q})
             /\ tree' = [tree EXCEPT ![Destination(a)] =
                           MkdirAll(tree[Destination(a)], Ancestors[q] \cup {q})]
<1>a. PICK a \in plan[p] : \E q \in Ancestors[a.path] : At(a, q)
  BY DEF BreakOff
<1>2. PICK q \in Ancestors[a.path] : At(a, q)
  BY <1>a
<1> DEFINE dirs == Ancestors[q] \cup {q}
<1>3. /\ a \in plan[p] /\ a.path \in Path /\ Destination(a) \in Side
      /\ tree[Destination(a)] \in ATree
  BY DestinationIsSide DEF ServiceInv, Sound, Action
<1>4. /\ dirs \in SUBSET Path /\ dirs \subseteq Ancestors[a.path]
      /\ \A x \in dirs : Ancestors[x] \subseteq dirs
  BY <1>3
<1> HIDE DEF dirs
<1>5. MkdirAll(tree[Destination(a)], dirs) \in ATree
  BY <1>3, <1>4, MkdirAllTree
<1>6. /\ a = First(plan[p]) /\ CanMkdirAll(tree[Destination(a)], dirs)
      /\ tree' = [tree EXCEPT ![Destination(a)] = MkdirAll(tree[Destination(a)], dirs)]
  BY <1>2 DEF dirs
<1>7. tree' \in [Side -> ATree]
  BY <1>5, <1>6 DEF ServiceInv
<1> QED
  BY <1>1, <1>3, <1>4, <1>6, <1>7

(* No step disturbs it.                                                    *)
LEMMA NextServiceInv ==
  ASSUME ServiceInv, [Next]_vars
  PROVE  ServiceInv'
<1>1. ASSUME NEW p \in Proc, PlanSync(p) PROVE ServiceInv'
  BY <1>1, ListingHides DEF PlanSync, ServiceInv, Goto, outside
<1>2. ASSUME NEW p \in Proc, ListTarget(p) PROVE ServiceInv'
  <2> DEFINE new == Plan(rule, listed[p], Listing(KindOf["target"], tree["target"]))
  <2>1. rule \in [mode : Modes, conflict : Strategies]
    BY DEF ServiceInv
  <2>2. new \subseteq Sound
    BY <2>1, ListingHides, PlanIsSound DEF ServiceInv
  <2>3. /\ plan' = [plan EXCEPT ![p] = new] /\ listed' = [listed EXCEPT ![p] = Empty]
        /\ pc' = [pc EXCEPT ![p] = "planned"]
        /\ UNCHANGED <<rule, tree, clock, buffer>>
    BY <1>2 DEF ListTarget, Goto, outside
  <2> HIDE DEF new
  <2> QED
    BY <2>2, <2>3, EmptyHides DEF ServiceInv
<1>3. ASSUME NEW p \in Proc, AcquireLock(p) PROVE ServiceInv'
  <2>1. CASE lock \in {NoProc, p}
    <3>1. pc' = [pc EXCEPT ![p] = "exec"] /\ UNCHANGED <<rule, tree, clock, buffer, plan, listed>>
      BY <1>3, <2>1 DEF AcquireLock, Goto, outside
    <3> QED
      BY <3>1 DEF ServiceInv
  <2>2. CASE lock \notin {NoProc, p}
    BY <1>3, <2>2, EndKeeps DEF AcquireLock, ServiceInv, outside
  <2> QED
    BY <2>1, <2>2
<1>4. ASSUME NEW p \in Proc, NEW a \in plan[p], BeginCopy(p, a) PROVE ServiceInv'
  <2> DEFINE to == Destination(a)
  <2>1. a \in Sound /\ a = First(plan[p]) /\ a.path \in Path /\ to \in Side
    BY <1>4, DestinationIsSide DEF BeginCopy, Executes, ServiceInv, Sound, Action
  <2>2. CASE CanRead(a) /\ (KindOf[to] = "local" => CanBeginWrite(tree[to], a.path))
    <3>1. tree[to] \in ATree /\ clock \in Nat
      BY <2>1 DEF ServiceInv
    <3>2. tree' \in [Side -> ATree]
      <4>1. BeginWrite(tree[to], a.path, clock) \in ATree
        BY <2>1, <3>1, BeginWriteTree
      <4>2. tree' = tree \/ tree' = [tree EXCEPT ![to] = BeginWrite(tree[to], a.path, clock)]
        BY <1>4, <2>2 DEF BeginCopy, Put
      <4> QED
        BY <4>1, <4>2 DEF ServiceInv
    <3>3. tree[Origin(a)][a.path].content \in Content \cup {Partial}
      <4>1. tree[Origin(a)][a.path] \in Proper /\ tree[Origin(a)][a.path].type = "file"
        BY <2>1, <2>2, DestinationIsSide DEF ServiceInv, ATree, CanRead
      <4> QED
        BY <4>1, ProperFields
    <3>4. /\ buffer' = [buffer EXCEPT ![p] = tree[Origin(a)][a.path].content]
          /\ pc' = [pc EXCEPT ![p] = "copying"]
          /\ UNCHANGED <<rule, clock, listed, plan>>
      BY <1>4, <2>2 DEF BeginCopy, Goto, outside
    <3> QED
      BY <2>1, <3>2, <3>3, <3>4 DEF ServiceInv
  <2>3. CASE ~(CanRead(a) /\ (KindOf[to] = "local" => CanBeginWrite(tree[to], a.path)))
    BY <1>4, <2>3, EndKeeps DEF BeginCopy, Fail, ServiceInv, outside
  <2> QED
    BY <2>2, <2>3
<1>5. ASSUME NEW p \in Proc, NEW a \in plan[p], Mkdir(p, a) PROVE ServiceInv'
  <2> DEFINE to == Destination(a)
             dirs == Ancestors[a.path] \cup {a.path}
  <2>1. a.path \in Path /\ to \in Side /\ dirs \subseteq Path
    BY DestinationIsSide DEF ServiceInv, Sound, Action
  <2>2. CASE CanMkdirAll(tree[to], dirs)
    <3>1. tree' \in [Side -> ATree]
      BY <1>5, <2>1, <2>2, MkdirAllTree DEF Mkdir, Put, ServiceInv
    <3> QED
      BY <1>5, <2>2, <3>1 DEF Mkdir, Done, Executes, ServiceInv, outside
  <2>3. CASE ~CanMkdirAll(tree[to], dirs)
    BY <1>5, <2>3, EndKeeps DEF Mkdir, Fail, ServiceInv, outside
  <2> QED
    BY <2>2, <2>3
<1>6. ASSUME NEW p \in Proc, NEW a \in plan[p], Remove(p, a) PROVE ServiceInv'
  <2> DEFINE to == Destination(a)
  <2>1. a.path \in Path /\ to \in Side
    BY DestinationIsSide DEF ServiceInv, Sound, Action
  <2>2. CASE CanDelete(KindOf[to], tree[to], a.path)
    <3>1. tree' \in [Side -> ATree]
      <4>1. Delete(tree[to], a.path) \in ATree
        BY <2>1, DeleteTree DEF ServiceInv
      <4>2. tree' = [tree EXCEPT ![to] = Delete(tree[to], a.path)]
        BY <1>6, <2>2 DEF Remove, Put
      <4> QED
        BY <4>1, <4>2 DEF ServiceInv
    <3>2. plan' = [plan EXCEPT ![p] = @ \ {a}] /\ pc[p] = "exec"
          /\ UNCHANGED <<rule, clock, pc, listed, buffer>>
      BY <1>6, <2>2 DEF Remove, Done, Executes, outside
    <3> QED
      BY <3>1, <3>2 DEF ServiceInv
  <2>3. CASE ~CanDelete(KindOf[to], tree[to], a.path)
    BY <1>6, <2>3, EndKeeps DEF Remove, Fail, ServiceInv, outside
  <2> QED
    BY <2>2, <2>3
<1>7. ASSUME NEW p \in Proc, NEW a \in plan[p], Pass(p, a) PROVE ServiceInv'
  BY <1>7 DEF Pass, Done, Executes, ServiceInv, outside
<1>8. ASSUME NEW p \in Proc, FinishCopy(p) PROVE ServiceInv'
  <2> DEFINE a == First(plan[p])
             to == Destination(a)
  <2>1. a \in plan[p] /\ a.path \in Path /\ to \in Side
    BY <1>8, DestinationIsSide DEF FinishCopy, ServiceInv, Sound, Action
  <2>2. tree[to] \in ATree /\ buffer[p] \in Content \cup {Partial} /\ clock + 1 \in Nat
    BY <1>8, <2>1 DEF FinishCopy, ServiceInv
  <2> HIDE DEF a, to
  <2>3. CASE /\ clock' = clock + 1 /\ Done(p, a) /\ Goto(p, "exec")
             /\ Put(p, to, IF KindOf[to] = "local" THEN FinishWrite(tree[to], a.path, buffer[p], clock')
                            ELSE Upload(tree[to], a.path, buffer[p], clock'))
             /\ buffer' = [buffer EXCEPT ![p] = NoContent]
             /\ UNCHANGED <<rule, listed>>
    <3>1. tree' \in [Side -> ATree]
      BY <2>1, <2>2, <2>3, FinishWriteTree, UploadTree DEF Put, ServiceInv
    <3> QED
      BY <2>2, <2>3, <3>1 DEF Done, Goto, ServiceInv
  <2>4. CASE /\ End(p, "failed") /\ UNCHANGED <<rule, clock>>
             /\ Put(p, to, IF KindOf[to] = "local" THEN DropTmp(tree[to], a.path) ELSE tree[to])
    <3>1. tree' \in [Side -> ATree]
      BY <2>1, <2>2, <2>4, DropTmpTree DEF Put, ServiceInv
    <3> QED
      BY <2>4, <3>1, EndKeeps DEF ServiceInv
  <2> QED
    BY <1>8, <2>3, <2>4 DEF FinishCopy, outside, a, to
<1>9. ASSUME NEW p \in Proc, Finish(p) \/ Cancel(p) \/ Crash(p) PROVE ServiceInv'
  BY <1>9, EndKeeps DEF Finish, Cancel, Crash, Mishap, ServiceInv, outside
<1>10. ASSUME NEW p \in Proc, IOError(p) PROVE ServiceInv'
  <2> DEFINE a == First(plan[p])
             to == Destination(a)
  <2>1. CASE pc[p] # "copying"
    BY <1>10, <2>1, EndKeeps DEF IOError, Mishap, ServiceInv
  <2>2. CASE pc[p] = "copying"
    <3>1. a.path \in Path /\ to \in Side /\ tree[to] \in ATree
      BY <2>2, DestinationIsSide DEF ServiceInv, Sound, Action
    <3>2. tree' = [tree EXCEPT ![to] = IF KindOf[to] = "local" THEN DropTmp(tree[to], a.path) ELSE tree[to]]
      BY <1>10, <2>2, <3>1 DEF IOError, ServiceInv
    <3>3. tree' \in [Side -> ATree]
      BY <3>1, <3>2, DropTmpTree DEF ServiceInv
    <3> QED
      BY <1>10, <3>3, EndKeeps DEF IOError, Mishap, ServiceInv
  <2> QED
    BY <2>1, <2>2
<1>11. ASSUME NEW side \in Side, NEW x \in UserPath, UserEdit(side, x) PROVE ServiceInv'
  <2>1. clock + 1 \in Nat /\ x \in Path
    BY DEF ServiceInv
  <2>2. \E e \in Proper : tree' = [tree EXCEPT ![side][x] = e]
    BY <1>11, <2>1, EntriesProper DEF UserEdit
  <2>3. tree' \in [Side -> ATree]
    BY <2>1, <2>2 DEF ServiceInv, ATree
  <2> QED
    BY <1>11, <2>1, <2>3 DEF UserEdit, ServiceInv
<1>12. ASSUME NEW p \in Proc, BreakOff(p) PROVE ServiceInv'
  <2>1. clock' \in Nat /\ rule' = rule
    BY <1>12, BrokenOff DEF Mishap, ServiceInv
  <2> QED
    BY <1>12, <2>1, BrokenOff, EndKeeps
<1>13. CASE UNCHANGED vars
  BY <1>13 DEF vars, ServiceInv
<1> QED
  BY <1>1, <1>2, <1>3, <1>4, <1>5, <1>6, <1>7, <1>8, <1>9, <1>10, <1>11, <1>12, <1>13
     DEF Next, Step, ExecuteAction

-----------------------------------------------------------------------------
(* The tree u of one side is what a step of p for a may make of the one    *)
(* there: directories a needs, its temporary file, the path removed, or    *)
(* what was read.                                                          *)
Within(p, a, to, u) ==
  \A y \in Path :
    \/ u[y] = tree[to][y]
    \/ /\ y \in Ancestors[a.path] \cup {a.path} /\ tree[to][y].type = "none"
       /\ u[y] = Directory
    \/ y = TmpOf[a.path]
    \/ a.type = "delete" /\ u[y] = Nothing /\ (y = a.path \/ KindOf[to] # "local")
    \/ /\ y = a.path /\ pc[p] = "copying" /\ a = First(plan[p])
       /\ u[y] = File(buffer[p], clock + 1)

UserStep ==
  \E side \in Side, x \in UserPath, e \in Proper :
    /\ e.content # Partial /\ (e.type = "file" => e.mtime = clock + 1)
    /\ tree' = [tree EXCEPT ![side][x] = e] /\ edits' = edits + 1

(* The trees change on one side, within an action of p's plan. *)
ProcStep ==
  \E p \in Proc : \E a \in plan[p] :
    /\ \A side \in Side \ {Destination(a)} : tree'[side] = tree[side]
    /\ Within(p, a, Destination(a), tree'[Destination(a)])

LEMMA PutWithin ==
  ASSUME ServiceInv, NEW p \in Proc, NEW a \in plan[p], NEW u,
         tree' = [tree EXCEPT ![Destination(a)] = u], Within(p, a, Destination(a), u)
  PROVE  ProcStep
<1> DEFINE to == Destination(a)
<1>1. to \in Side
  BY DestinationIsSide
<1>2. tree'[to] = u /\ \A side \in Side \ {to} : tree'[side] = tree[side]
  BY <1>1 DEF ServiceInv
<1> QED
  BY <1>2 DEF ProcStep

(* What the adapters make of a tree stays within the action.               *)
LEMMA AdaptersWithin ==
  ASSUME NEW p \in Proc, NEW a \in Sound, NEW to \in Side, tree[to] \in ATree
  PROVE  /\ \A m \in Nat : Within(p, a, to, BeginWrite(tree[to], a.path, m))
         /\ \A dirs \in SUBSET (Ancestors[a.path] \cup {a.path}) :
              Within(p, a, to, MkdirAll(tree[to], dirs))
         /\ a.type = "delete" /\ (KindOf[to] = "local" => ~Occupied(tree[to], a.path))
               => Within(p, a, to, Delete(tree[to], a.path))
         /\ Within(p, a, to, DropTmp(tree[to], a.path))
         /\ (/\ pc[p] = "copying" /\ a = First(plan[p]) /\ clock \in Nat
             /\ buffer[p] \in Content \cup {Partial})
               => /\ Within(p, a, to, FinishWrite(tree[to], a.path, buffer[p], clock + 1))
                  /\ Within(p, a, to, Upload(tree[to], a.path, buffer[p], clock + 1))
<1> DEFINE t == tree[to]
           x == a.path
<1>1. x \in Path /\ t \in ATree /\ Ancestors[x] \cup {x} \in SUBSET Path
  BY DEF Sound, Action
<1> HIDE DEF t, x
<1>3. ASSUME NEW m \in Nat PROVE Within(p, a, to, BeginWrite(t, x, m))
  <2> DEFINE u == BeginWrite(t, x, m)
  <2>1. ASSUME NEW y \in Path
        PROVE  \/ u[y] = t[y]
               \/ y \in Ancestors[x] /\ t[y].type = "none" /\ u[y] = Directory
               \/ y = TmpOf[x]
    BY DEF BeginWrite, MkdirAll
  <2> HIDE DEF u
  <2>2. Within(p, a, to, u)
    BY <2>1, Zenon DEF Within, t, x
  <2> QED
    BY <2>2 DEF u
<1>4. ASSUME NEW dirs \in SUBSET (Ancestors[x] \cup {x})
      PROVE  Within(p, a, to, MkdirAll(t, dirs))
  <2> DEFINE u == MkdirAll(t, dirs)
  <2>1. \A y \in Path : \/ u[y] = t[y]
                        \/ y \in Ancestors[x] \cup {x} /\ t[y].type = "none" /\ u[y] = Directory
    BY <1>1, MkdirAllTree
  <2> QED
    BY <2>1 DEF Within, t, x
<1>5. ASSUME a.type = "delete", KindOf[to] = "local" => ~Occupied(t, x)
      PROVE  Within(p, a, to, Delete(t, x))
  <2> DEFINE u == Delete(t, x)
  <2>1. \A y \in Path : u[y] = t[y] \/ (u[y] = Nothing /\ (y = x \/ KindOf[to] # "local"))
    BY <1>1, <1>5, DeleteTree
  <2> QED
    BY <1>5, <2>1 DEF Within, t, x
<1>6. Within(p, a, to, DropTmp(t, x))
  <2> DEFINE u == DropTmp(t, x)
  <2>1. \A y \in Path : u[y] = t[y] \/ y = TmpOf[x]
    BY <1>1, DropTmpTree
  <2> QED
    BY <2>1 DEF Within, t, x
<1>7. ASSUME NEW c \in Content \cup {Partial}, NEW m \in Nat,
             pc[p] = "copying", a = First(plan[p]), buffer[p] = c, clock + 1 = m
      PROVE  Within(p, a, to, FinishWrite(t, x, c, m))
  <2> DEFINE u == FinishWrite(t, x, c, m)
  <2>1. ASSUME NEW y \in Path
        PROVE  u[y] = t[y] \/ y = TmpOf[x] \/ (y = x /\ u[y] = File(c, m))
    BY <1>1 DEF FinishWrite, DropTmp
  <2> HIDE DEF u
  <2> QED
    BY <1>7, <2>1 DEF Within, t, x, u
<1>8. ASSUME NEW c \in Content \cup {Partial}, NEW m \in Nat,
             pc[p] = "copying", a = First(plan[p]), buffer[p] = c, clock + 1 = m
      PROVE  Within(p, a, to, Upload(t, x, c, m))
  <2> DEFINE u == Upload(t, x, c, m)
  <2>1. ASSUME NEW y \in Path
        PROVE  \/ u[y] = t[y]
               \/ y \in Ancestors[x] /\ t[y].type = "none" /\ u[y] = Directory
               \/ y = x /\ u[y] = File(c, m)
    BY <1>1 DEF Upload, MkdirAll
  <2> HIDE DEF u
  <2> QED
    BY <1>8, <2>1 DEF Within, t, x, u
<1>9. \A dirs \in SUBSET (Ancestors[a.path] \cup {a.path}) : Within(p, a, to, MkdirAll(tree[to], dirs))
  BY <1>4 DEF t, x
<1>10. \A m \in Nat : Within(p, a, to, BeginWrite(tree[to], a.path, m))
  BY <1>3 DEF t, x
<1> QED
  BY <1>5, <1>6, <1>7, <1>8, <1>9, <1>10 DEF t, x

(* The trees change by an edit, or by an action of a plan.                 *)
LEMMA TreeStep ==
  ASSUME ServiceInv, [Next]_vars
  PROVE  tree' = tree \/ UserStep \/ ProcStep
<1>1. ASSUME NEW p \in Proc, NEW a \in plan[p], BeginCopy(p, a) \/ Mkdir(p, a) \/ Remove(p, a)
      PROVE  tree' = tree \/ ProcStep
  <2> DEFINE to == Destination(a)
  <2>1. a \in Sound /\ to \in Side /\ tree[to] \in ATree /\ clock \in Nat
    BY DestinationIsSide DEF ServiceInv
  <2>2. CASE BeginCopy(p, a)
    <3> DEFINE u == BeginWrite(tree[to], a.path, clock)
    <3>1. Within(p, a, to, u)
      BY <2>1, AdaptersWithin
    <3>2. tree' = tree \/ tree' = [tree EXCEPT ![to] = u]
      BY <2>2 DEF BeginCopy, Put, Fail
    <3> HIDE DEF u
    <3> QED
      BY <2>1, <3>1, <3>2, PutWithin
  <2>3. CASE Mkdir(p, a)
    <3> DEFINE dirs == Ancestors[a.path] \cup {a.path}
               u == MkdirAll(tree[to], dirs)
    <3>1. Within(p, a, to, u)
      <4>1. dirs \in SUBSET (Ancestors[a.path] \cup {a.path})
        OBVIOUS
      <4> HIDE DEF dirs
      <4> QED
        BY <2>1, <4>1, AdaptersWithin
    <3>2. tree' = tree \/ tree' = [tree EXCEPT ![to] = u]
      BY <2>3 DEF Mkdir, Put, Fail
    <3> HIDE DEF u
    <3> QED
      BY <2>1, <3>1, <3>2, PutWithin
  <2>4. CASE Remove(p, a)
    <3> DEFINE u == Delete(tree[to], a.path)
    <3>1. tree' = tree \/ /\ tree' = [tree EXCEPT ![to] = u]
                          /\ KindOf[to] = "local" => ~Occupied(tree[to], a.path)
                          /\ a.type = "delete"
      BY <2>4 DEF Remove, Put, Fail, CanDelete
    <3>2. tree' = tree \/ Within(p, a, to, u)
      BY <2>1, <3>1, AdaptersWithin
    <3> HIDE DEF u
    <3> QED
      BY <2>1, <3>1, <3>2, PutWithin
  <2> QED
    BY <1>1, <2>2, <2>3, <2>4
<1>2. ASSUME NEW p \in Proc, pc[p] = "copying", FinishCopy(p) \/ IOError(p)
      PROVE  tree' = tree \/ ProcStep
  <2> DEFINE a == First(plan[p])
             to == Destination(a)
             file == FinishWrite(tree[to], a.path, buffer[p], clock + 1)
             upload == Upload(tree[to], a.path, buffer[p], clock + 1)
             drop == DropTmp(tree[to], a.path)
  <2>1. /\ a \in plan[p] /\ a \in Sound /\ to \in Side /\ tree[to] \in ATree
        /\ clock \in Nat /\ buffer[p] \in Content \cup {Partial}
    <3>2. a \in plan[p] /\ to \in Side /\ buffer[p] \in Content \cup {Partial}
      BY <1>2, DestinationIsSide DEF ServiceInv
    <3> HIDE DEF a, to
    <3> QED
      BY <3>2 DEF ServiceInv
  <2>2. Within(p, a, to, file) /\ Within(p, a, to, upload) /\ Within(p, a, to, drop)
    BY <1>2, <2>1, AdaptersWithin
  <2>3. \/ tree' = tree
        \/ tree' = [tree EXCEPT ![to] = file]
        \/ tree' = [tree EXCEPT ![to] = upload]
        \/ tree' = [tree EXCEPT ![to] = drop]
    <3>1. tree = [tree EXCEPT ![to] = tree[to]]
      BY <2>1 DEF ServiceInv
    <3>2. CASE FinishCopy(p)
      <4>1. \E u \in {file, upload, drop, tree[to]} : Put(p, to, u)
        BY <3>2 DEF FinishCopy
      <4> HIDE DEF a, to, file, upload, drop
      <4> QED
        BY <3>1, <4>1 DEF Put
    <3>3. CASE IOError(p)
      BY <1>2, <3>1, <3>3 DEF IOError
    <3> QED
      BY <1>2, <3>2, <3>3
  <2> HIDE DEF a, file, upload, drop
  <2> QED
    BY <2>1, <2>2, <2>3, PutWithin
<1>3. ASSUME NEW side \in Side, NEW x \in UserPath, UserEdit(side, x) PROVE UserStep
  <2>1. clock + 1 \in Nat
    BY DEF ServiceInv
  <2>2. /\ Nothing.content # Partial /\ Directory.content # Partial
        /\ Nothing.type = "none" /\ Directory.type = "dir"
        /\ \A c \in Content, m \in Nat : File(c, m).content # Partial /\ File(c, m).mtime = m
    BY DEF Nothing, Directory, File
  <2>3. \E e \in Proper : /\ e.content # Partial /\ (e.type = "file" => e.mtime = clock + 1)
                          /\ tree' = [tree EXCEPT ![side][x] = e]
    BY <1>3, <2>1, <2>2, EntriesProper DEF UserEdit
  <2> QED
    BY <1>3, <2>3 DEF UserEdit, UserStep
<1>4. ASSUME NEW p \in Proc,
             \/ PlanSync(p) \/ ListTarget(p) \/ AcquireLock(p) \/ (\E a \in plan[p] : Pass(p, a))
             \/ Finish(p) \/ Cancel(p) \/ Crash(p) \/ (pc[p] # "copying" /\ IOError(p))
      PROVE  tree' = tree
  BY <1>4 DEF PlanSync, ListTarget, AcquireLock, Pass, Finish, Cancel, Crash, IOError
<1>5. ASSUME NEW p \in Proc, BreakOff(p) PROVE ProcStep
  <2>1. PICK a \in plan[p] : \E dirs \in SUBSET Ancestors[a.path] :
          tree' = [tree EXCEPT ![Destination(a)] = MkdirAll(tree[Destination(a)], dirs)]
    BY <1>5, BrokenOff
  <2>2. PICK dirs \in SUBSET Ancestors[a.path] :
          tree' = [tree EXCEPT ![Destination(a)] = MkdirAll(tree[Destination(a)], dirs)]
    BY <2>1
  <2>3. a \in Sound /\ Destination(a) \in Side /\ tree[Destination(a)] \in ATree
    BY DestinationIsSide DEF ServiceInv
  <2>4. Within(p, a, Destination(a), MkdirAll(tree[Destination(a)], dirs))
    <3>1. dirs \in SUBSET (Ancestors[a.path] \cup {a.path})
      OBVIOUS
    <3> QED
      BY <2>3, <3>1, AdaptersWithin
  <2> DEFINE u == MkdirAll(tree[Destination(a)], dirs)
  <2>5. tree' = [tree EXCEPT ![Destination(a)] = u] /\ Within(p, a, Destination(a), u)
    BY <2>2, <2>4
  <2> HIDE DEF u
  <2> QED
    BY <2>5, PutWithin
<1>6. CASE UNCHANGED vars
  BY <1>6 DEF vars
<1>7. \A p \in Proc : FinishCopy(p) => pc[p] = "copying"
  BY DEF FinishCopy
<1> QED
  BY <1>1, <1>2, <1>3, <1>4, <1>5, <1>6, <1>7 DEF Next, Step, ExecuteAction

-----------------------------------------------------------------------------
(* The names of temporary files are none a user works on, and no file is   *)
(* torn at first.                                                          *)
OwnNames ==
  /\ \A x \in Path : TmpOf[x] \notin UserPath
  /\ \A t \in Start, side \in Side, x \in UserPath : t[side][x].content # Partial

(* What is read whole is written whole.                                    *)
TornInv ==
  /\ NoTornFile
  /\ \A p \in Proc : pc[p] = "copying" /\ First(plan[p]).path \in UserPath => buffer[p] # Partial

(* The steps of one run, and those of everything else, which leave it be.  *)
Moves(q) == Step(q) \/ Cancel(q) \/ IOError(q) \/ Crash(q) \/ BreakOff(q)
Stays(q) == pc'[q] = pc[q] /\ plan'[q] = plan[q] /\ buffer'[q] = buffer[q] /\ listed'[q] = listed[q]

LEMMA EndOfOthers ==
  ASSUME ServiceInv, NEW p \in Proc, NEW q \in Proc \ {p}, NEW result, End(p, result)
  PROVE  Stays(q)
BY DEF End, Goto, ServiceInv, Stays

LEMMA RunsApart ==
  ASSUME ServiceInv, [Next]_vars, NEW q \in Proc
  PROVE  Moves(q) \/ Stays(q)
<1>1. ASSUME NEW p \in Proc \ {q}, PlanSync(p) \/ ListTarget(p) PROVE Stays(q)
  BY <1>1 DEF PlanSync, ListTarget, Goto, ServiceInv, Stays
<1>2. ASSUME NEW p \in Proc \ {q}, AcquireLock(p) PROVE Stays(q)
  BY <1>2, EndOfOthers DEF AcquireLock, Goto, ServiceInv, Stays
<1>3. ASSUME NEW p \in Proc \ {q}, NEW a \in plan[p], ExecuteAction(p, a) PROVE Stays(q)
  <2>1. CASE Fail(p)
    BY <2>1, EndOfOthers DEF Fail
  <2>2. CASE /\ pc' = pc \/ Goto(p, "copying")
             /\ plan' = plan \/ Done(p, a)
             /\ buffer' = buffer \/ \E c : buffer' = [buffer EXCEPT ![p] = c]
             /\ listed' = listed
    BY <2>2 DEF Goto, Done, ServiceInv, Stays
  <2> QED
    BY <1>3, <2>1, <2>2 DEF ExecuteAction, BeginCopy, Mkdir, Remove, Pass
<1>4. ASSUME NEW p \in Proc \ {q}, FinishCopy(p) PROVE Stays(q)
  <2>1. CASE End(p, "failed")
    BY <2>1, EndOfOthers
  <2>2. CASE /\ plan' = [plan EXCEPT ![p] = @ \ {First(plan[p])}] /\ listed' = listed
             /\ buffer' = [buffer EXCEPT ![p] = NoContent] /\ pc' = [pc EXCEPT ![p] = "exec"]
    BY <2>2 DEF ServiceInv, Stays
  <2> QED
    BY <1>4, <2>1, <2>2 DEF FinishCopy, Done, Goto
<1>5. ASSUME NEW p \in Proc \ {q}, Finish(p) \/ Cancel(p) \/ IOError(p) \/ Crash(p) \/ BreakOff(p) PROVE Stays(q)
  BY <1>5, EndOfOthers DEF Finish, Cancel, IOError, Crash, BreakOff
<1>6. ASSUME NEW side \in Side, NEW x \in UserPath, UserEdit(side, x) PROVE Stays(q)
  BY <1>6 DEF UserEdit, Stays
<1>7. CASE UNCHANGED vars
  BY <1>7 DEF vars, Stays
<1> QED
  BY <1>1, <1>2, <1>3, <1>4, <1>5, <1>6, <1>7 DEF Next, Step, Moves

(* Who copies after a step has copied before it, or has just opened the    *)
(* file.                                                                   *)
LEMMA CopyStep ==
  ASSUME ServiceInv, [Next]_vars, NEW q \in Proc, pc'[q] = "copying"
  PROVE  \/ Stays(q)
         \/ /\ plan'[q] = plan[q] /\ pc[q] = "exec"
            /\ LET a == First(plan[q]) IN
                 /\ a \in plan[q] /\ a.type = "copy" /\ CanRead(a)
                 /\ buffer'[q] = tree[Origin(a)][a.path].content
                 /\ tree'[Origin(a)] = tree[Origin(a)]
<1>1. ASSUME NEW result, End(q, result) PROVE FALSE
  BY <1>1 DEF End, Goto, ServiceInv
<1>2. ASSUME Step(q)
      PROVE  \E a \in plan[q] : BeginCopy(q, a) /\ pc'[q] = "copying"
  <2>1. ~PlanSync(q) /\ ~ListTarget(q) /\ ~AcquireLock(q) /\ ~Finish(q)
    BY <1>1 DEF PlanSync, ListTarget, AcquireLock, Finish, Goto, ServiceInv
  <2>2. \A a \in plan[q] : ~Mkdir(q, a) /\ ~Remove(q, a) /\ ~Pass(q, a)
    BY <1>1 DEF Mkdir, Remove, Pass, Fail, Executes
  <2>3. ~FinishCopy(q)
    BY <1>1 DEF FinishCopy, Goto, ServiceInv
  <2> QED
    BY <1>2, <2>1, <2>2, <2>3 DEF Step, ExecuteAction
<1>3. ASSUME NEW a \in plan[q], BeginCopy(q, a)
      PROVE  /\ a = First(plan[q]) /\ a.type = "copy" /\ CanRead(a) /\ pc[q] = "exec"
             /\ plan' = plan /\ buffer'[q] = tree[Origin(a)][a.path].content
             /\ tree'[Origin(a)] = tree[Origin(a)]
  <2> DEFINE to == Destination(a)
             read == tree[Origin(a)][a.path].content
  <2>1. CanRead(a) /\ (KindOf[to] = "local" => CanBeginWrite(tree[to], a.path))
    BY <1>1, <1>3 DEF BeginCopy, Fail
  <2>2. /\ a = First(plan[q]) /\ a.type = "copy" /\ pc[q] = "exec"
        /\ buffer' = [buffer EXCEPT ![q] = read] /\ plan' = plan
        /\ tree' = tree \/ tree' = [tree EXCEPT ![to] = BeginWrite(tree[to], a.path, clock)]
    BY <1>3, <2>1 DEF BeginCopy, Executes, Put
  <2>3. Origin(a) # to /\ Origin(a) \in Side
    BY DEF Origin, Destination, Side
  <2>4. tree'[Origin(a)] = tree[Origin(a)] /\ buffer'[q] = read
    BY <2>2, <2>3 DEF ServiceInv
  <2> QED
    BY <2>1, <2>2, <2>4
<1>4. ~Cancel(q) /\ ~IOError(q) /\ ~Crash(q) /\ ~BreakOff(q)
  BY <1>1 DEF Cancel, IOError, Crash, BreakOff
<1> QED
  BY <1>2, <1>3, <1>4, RunsApart DEF Moves

LEMMA NextTornInv ==
  ASSUME OwnNames, ServiceInv, TornInv, [Next]_vars
  PROVE  TornInv'
<1>1. ASSUME NEW side \in Side, NEW x \in UserPath PROVE tree'[side][x].content # Partial
  <2>1. x \in Path /\ tree[side][x].content # Partial /\ \A y \in Path : x # TmpOf[y]
    BY DEF OwnNames, TornInv, NoTornFile
  <2>2. CASE UserStep
    BY <2>1, <2>2 DEF UserStep, ServiceInv, ATree
  <2>3. CASE ProcStep
    <3>1. PICK p \in Proc : \E a \in plan[p] :
              /\ \A s \in Side \ {Destination(a)} : tree'[s] = tree[s]
              /\ Within(p, a, Destination(a), tree'[Destination(a)])
      BY <2>3 DEF ProcStep
    <3>2. PICK a \in plan[p] : tree'[side] = tree[side] \/ Within(p, a, side, tree'[side])
      BY <3>1
    <3>3. a.path \in Path
      BY DEF ServiceInv, Sound, Action
    <3>4. /\ Nothing.content # Partial /\ Directory.content # Partial
          /\ File(buffer[p], clock + 1).content = buffer[p]
      BY DEF Nothing, Directory, File
    <3> QED
      BY <2>1, <3>2, <3>3, <3>4 DEF Within, TornInv
  <2> QED
    BY <2>1, <2>2, <2>3, TreeStep
<1>2. ASSUME NEW q \in Proc, pc'[q] = "copying", First(plan'[q]).path \in UserPath
      PROVE  buffer'[q] # Partial
  <2> DEFINE a == First(plan[q])
  <2>1. CASE Stays(q)
    BY <1>2, <2>1 DEF Stays, TornInv
  <2>2. CASE plan'[q] = plan[q] /\ buffer'[q] = tree[Origin(a)][a.path].content
    BY <1>2, <2>2, DestinationIsSide DEF TornInv, NoTornFile
  <2> QED
    BY <1>2, <2>1, <2>2, CopyStep
<1> QED
  BY <1>1, <1>2 DEF TornInv, NoTornFile

(* A file is whole or absent under its own name, in every run of any       *)
(* number of processes and users, with crashes, cancellations and I/O      *)
(* errors anywhere: local.Write copies to p.syncrules.tmp and renames it   *)
(* (local.go:163-183), and no plan copies a temporary file to another name.*)
THEOREM FilesWhole ==
  ASSUME OwnNames
  PROVE  Spec => []NoTornFile
<1>1. Init => ServiceInv /\ TornInv
  BY InitServiceInv DEF Init, OwnNames, TornInv, NoTornFile
<1>2. ServiceInv /\ TornInv /\ [Next]_vars => ServiceInv' /\ TornInv'
  BY NextServiceInv, NextTornInv
<1>3. TornInv => NoTornFile
  BY DEF TornInv
<1> QED
  BY <1>1, <1>2, <1>3, PTL DEF Spec

-----------------------------------------------------------------------------
(* Both sides are local, and no pattern matches the temporary file of a    *)
(* path that is not ignored.                                               *)
LocalAndHidden ==
  /\ \A side \in Side : KindOf[side] = "local"
  /\ \A x \in Path \ Ignored : TmpOf[x] \notin Ignored

(* No step of a process touches what belongs to the environment.           *)
LEMMA StepOutside ==
  ASSUME NEW p \in Proc, Step(p)
  PROVE  UNCHANGED outside
<1>1. PlanSync(p) => UNCHANGED outside
  BY DEF PlanSync
<1>2. ListTarget(p) => UNCHANGED outside
  BY DEF ListTarget
<1>3. AcquireLock(p) => UNCHANGED outside
  BY DEF AcquireLock
<1>4. \A a : BeginCopy(p, a) => UNCHANGED outside
  BY DEF BeginCopy
<1>5. \A a : Mkdir(p, a) => UNCHANGED outside
  BY DEF Mkdir
<1>6. \A a : Remove(p, a) => UNCHANGED outside
  BY DEF Remove
<1>7. \A a : Pass(p, a) => UNCHANGED outside
  BY DEF Pass
<1>8. FinishCopy(p) => UNCHANGED outside
  BY DEF FinishCopy
<1>9. Finish(p) => UNCHANGED outside
  BY DEF Finish
<1> QED
  BY <1>1, <1>2, <1>3, <1>4, <1>5, <1>6, <1>7, <1>8, <1>9, Zenon DEF Step, ExecuteAction

(* The processes leave alone what the rule ignores: PlanSync leaves it out *)
(* of both listings (rule.listAllFiles), os.Remove takes no directory that *)
(* holds it, and MkdirAll makes no parent that is ignored.                 *)
THEOREM IgnoredLeftAlone ==
  ASSUME LocalAndHidden
  PROVE  Spec => IgnoredUntouched
<1> DEFINE Inv == ServiceInv /\ edits \in Nat
           Untouched == edits' = edits => \A side \in Side, x \in Ignored : tree'[side][x] = tree[side][x]
<1>1. Init => Inv
  BY InitServiceInv DEF Init
<1>2. Inv /\ [Next]_vars => Inv'
  <2> SUFFICES ASSUME ServiceInv, edits \in Nat, [Next]_vars PROVE edits' \in Nat
    BY NextServiceInv
  <2>1. \A p \in Proc : Step(p) => edits' = edits
    BY StepOutside DEF outside
  <2>2. \A p \in Proc : Cancel(p) \/ IOError(p) \/ Crash(p) \/ BreakOff(p) => edits' = edits
    BY DEF Cancel, IOError, Crash, BreakOff, Mishap
  <2>3. \A side \in Side, x \in UserPath : UserEdit(side, x) => edits' = edits + 1
    BY DEF UserEdit
  <2>4. UNCHANGED vars => edits' = edits
    BY DEF vars
  <2>5. edits' = edits \/ edits' = edits + 1
    BY <2>1, <2>2, <2>3, <2>4 DEF Next
  <2> QED
    BY <2>5
<1>3. Inv /\ [Next]_vars => [Untouched]_vars
  <2> SUFFICES ASSUME ServiceInv, edits \in Nat, [Next]_vars, edits' = edits,
                      NEW side \in Side, NEW x \in Ignored
               PROVE  tree'[side][x] = tree[side][x]
    OBVIOUS
  <2>1. CASE ProcStep
    <3>1. x \in Path
      BY DEF Ignored
    <3>2. PICK p \in Proc : \E a \in plan[p] :
              /\ \A s \in Side \ {Destination(a)} : tree'[s] = tree[s]
              /\ Within(p, a, Destination(a), tree'[Destination(a)])
      BY <2>1 DEF ProcStep
    <3>3. PICK a \in plan[p] : tree'[side] = tree[side] \/ Within(p, a, side, tree'[side])
      BY <3>2
    <3>4. a.path \in Path /\ a.path \notin Ignored
      BY DEF ServiceInv, Sound, Action
    <3>5. x \notin Ancestors[a.path] \cup {a.path} /\ x # TmpOf[a.path] /\ KindOf[side] = "local"
      BY <3>4, AncestorsNotIgnored DEF LocalAndHidden
    <3> QED
      BY <3>1, <3>3, <3>5 DEF Within
  <2>2. CASE UserStep
    BY <2>2 DEF UserStep
  <2> QED
    BY <2>1, <2>2, TreeStep
<1>4. Spec => [][Untouched]_vars
  <2> HIDE DEF Inv, Untouched
  <2> QED
    BY <1>1, <1>2, <1>3, PTL DEF Spec
<1> QED
  BY <1>4 DEF IgnoredUntouched
-----------------------------------------------------------------------------
(* Trees keep their shape: what is there lies in directories, and nothing  *)
(* is from the future.                                                     *)
Shaped(t, now) == WellFormed(t) /\ \A x \in Path : t[x].mtime <= now

LEMMA EntryTypes ==
  /\ Nothing.type = "none" /\ Directory.type = "dir" /\ Nothing.mtime = 0 /\ Directory.mtime = 0
  /\ \A c, m : File(c, m).type = "file" /\ File(c, m).content = c /\ File(c, m).mtime = m
BY DEF Nothing, Directory, File

LEMMA MkdirAllShape ==
  ASSUME NEW t \in ATree, NEW now \in Nat, Shaped(t, now), NEW dirs \in SUBSET Path,
         CanMkdirAll(t, dirs), \A x \in dirs : Ancestors[x] \subseteq dirs
  PROVE  /\ Shaped(MkdirAll(t, dirs), now)
         /\ \A x \in dirs : MkdirAll(t, dirs)[x].type = "dir"
<1> DEFINE u == MkdirAll(t, dirs)
<1>1. \A x \in Path : u[x] = IF x \in dirs /\ t[x].type = "none" THEN Directory ELSE t[x]
  BY DEF MkdirAll
<1>2. \A x \in dirs : u[x].type = "dir"
  BY <1>1, EntryTypes, ProperFields DEF CanMkdirAll, ATree
<1>3. \A x \in Path : u[x].mtime <= now
  BY <1>1, EntryTypes DEF Shaped
<1>4. ASSUME NEW x \in Path, u[x].type # "none", NEW y \in Ancestors[x] PROVE u[y].type = "dir"
  <2>1. CASE x \in dirs
    BY <1>2, <2>1
  <2>2. CASE x \notin dirs
    BY <1>1, <1>4, <2>2 DEF Shaped, WellFormed, Present
  <2> QED
    BY <2>1, <2>2
<1> HIDE DEF u
<1> QED
  BY <1>2, <1>3, <1>4 DEF Shaped, WellFormed, Present, u

(* Putting a file where no directory is, into a directory that is there.   *)
LEMMA FileShape ==
  ASSUME NEW t \in ATree, NEW now \in Nat, Shaped(t, now), NEW x \in Path, NEW c, NEW m \in 0..now,
         t[x].type # "dir", \A y \in Ancestors[x] : t[y].type = "dir",
         NEW u, \A y \in Path : u[y] = IF y = x THEN File(c, m) ELSE t[y]
  PROVE  Shaped(u, now)
<1>1. \A y \in Path : u[y].mtime <= now
  BY EntryTypes DEF Shaped
<1>2. ASSUME NEW y \in Path, u[y].type # "none", NEW z \in Ancestors[y] PROVE u[z].type = "dir"
  <2>1. t[z].type = "dir"
    BY <1>2 DEF Shaped, WellFormed, Present
  <2> QED
    BY <2>1
<1> QED
  BY <1>1, <1>2 DEF Shaped, WellFormed, Present

LEMMA BeginWriteShape ==
  ASSUME NEW t \in ATree, NEW now \in Nat, Shaped(t, now), NEW x \in Path, CanBeginWrite(t, x)
  PROVE  Shaped(BeginWrite(t, x, now), now)
<1> DEFINE dirs == Ancestors[x]
           u == MkdirAll(t, dirs)
           tmp == TmpOf[x]
<1>1. u \in ATree /\ Shaped(u, now) /\ \A y \in dirs : u[y].type = "dir"
  BY MkdirAllTree, MkdirAllShape DEF CanBeginWrite
<1>2. \A y \in Path : BeginWrite(t, x, now)[y] = IF y = tmp THEN File(Partial, now) ELSE u[y]
  BY DEF BeginWrite
<1>3. tmp = NoPath \/ (tmp \in Path /\ Ancestors[tmp] = dirs /\ tmp \notin dirs /\ t[tmp].type # "dir")
  BY DEF CanBeginWrite
<1>4. CASE tmp = NoPath
  BY <1>1, <1>2, <1>4 DEF Shaped, WellFormed, Present
<1>5. CASE tmp # NoPath
  <2>1. u[tmp].type # "dir"
    BY <1>3, <1>5 DEF MkdirAll
  <2>2. now \in 0..now
    OBVIOUS
  <2> HIDE DEF u, tmp, dirs
  <2> QED
    BY <1>1, <1>2, <1>3, <1>5, <2>1, <2>2, FileShape
<1> QED
  BY <1>4, <1>5

LEMMA DropTmpShape ==
  ASSUME NEW t \in ATree, NEW now \in Nat, Shaped(t, now), NEW x \in Path
  PROVE  Shaped(DropTmp(t, x), now)
<1>1. \A y \in Path : DropTmp(t, x)[y] = IF y = TmpOf[x] /\ ~Occupied(t, y) THEN Nothing ELSE t[y]
  BY DEF DropTmp
<1>2. \A y \in Path : t[y].type # "none" => \A z \in Ancestors[y] : t[z].type = "dir" /\ Occupied(t, z)
  BY DEF Shaped, WellFormed, Present, Occupied
<1>3. \A y \in Path : DropTmp(t, x)[y].mtime <= now
  BY <1>1, EntryTypes DEF Shaped
<1>4. \A y \in Path : DropTmp(t, x)[y].type # "none" => \A z \in Ancestors[y] : DropTmp(t, x)[z].type = "dir"
  BY <1>1, <1>2, EntryTypes
<1> QED
  BY <1>3, <1>4 DEF Shaped, WellFormed, Present

LEMMA FinishWriteShape ==
  ASSUME NEW t \in ATree, NEW now \in Nat, Shaped(t, now), NEW x \in Path, CanFinishWrite(t, x),
         NEW c \in Content \cup {Partial}
  PROVE  Shaped(FinishWrite(t, x, c, now + 1), now + 1)
<1> DEFINE u == DropTmp(t, x)
<1>1. u \in ATree /\ Shaped(u, now + 1)
  <2>1. u \in ATree /\ Shaped(u, now)
    BY DropTmpTree, DropTmpShape
  <2>2. \A y \in Path : u[y].mtime \in Nat
    BY <2>1, ProperFields DEF ATree
  <2> QED
    BY <2>1, <2>2 DEF Shaped
<1>2. u[x].type # "dir"
  BY EntryTypes DEF DropTmp, CanFinishWrite
<1>3. \A y \in Ancestors[x] : u[y].type = "dir"
  BY DEF DropTmp, CanFinishWrite
<1>4. \A y \in Path : FinishWrite(t, x, c, now + 1)[y] = IF y = x THEN File(c, now + 1) ELSE u[y]
  BY <1>1 DEF FinishWrite, ATree
<1>5. now + 1 \in 0..(now + 1) /\ now + 1 \in Nat
  OBVIOUS
<1> HIDE DEF u
<1> QED
  BY <1>1, <1>2, <1>3, <1>4, <1>5, FileShape

LEMMA UploadShape ==
  ASSUME NEW t \in ATree, NEW now \in Nat, Shaped(t, now), NEW x \in Path, CanUpload(t, x),
         NEW c \in Content \cup {Partial}
  PROVE  Shaped(Upload(t, x, c, now + 1), now + 1)
<1> DEFINE u == MkdirAll(t, Ancestors[x])
<1>1. u \in ATree /\ Shaped(u, now + 1) /\ \A y \in Ancestors[x] : u[y].type = "dir"
  <2>1. u \in ATree /\ Shaped(u, now) /\ \A y \in Ancestors[x] : u[y].type = "dir"
    BY MkdirAllTree, MkdirAllShape DEF CanUpload
  <2>2. \A y \in Path : u[y].mtime \in Nat
    BY <2>1, ProperFields DEF ATree
  <2> QED
    BY <2>1, <2>2 DEF Shaped
<1>2. u[x].type # "dir"
  BY DEF MkdirAll, CanUpload
<1>4. \A y \in Path : Upload(t, x, c, now + 1)[y] = IF y = x THEN File(c, now + 1) ELSE u[y]
  BY <1>1 DEF Upload, ATree
<1>5. now + 1 \in 0..(now + 1) /\ now + 1 \in Nat
  OBVIOUS
<1> HIDE DEF u
<1> QED
  BY <1>1, <1>2, <1>4, <1>5, FileShape

LEMMA DeleteShape ==
  ASSUME NEW t \in ATree, NEW now \in Nat, Shaped(t, now), NEW x \in Path
  PROVE  Shaped(Delete(t, x), now)
<1>1. \A y \in Path : Delete(t, x)[y] = IF y = x \/ x \in Ancestors[y] THEN Nothing ELSE t[y]
  BY DEF Delete
<1>2. \A y \in Path : Delete(t, x)[y].mtime <= now
  BY <1>1, EntryTypes DEF Shaped
<1>3. ASSUME NEW y \in Path, Delete(t, x)[y].type # "none", NEW z \in Ancestors[y]
      PROVE  Delete(t, x)[z].type = "dir"
  <2>1. y # x /\ x \notin Ancestors[y] /\ t[y].type # "none"
    BY <1>1, <1>3, EntryTypes
  <2>2. z \in Path /\ z # x /\ x \notin Ancestors[z] /\ t[z].type = "dir"
    BY <2>1 DEF Shaped, WellFormed, Present
  <2> QED
    BY <1>1, <2>2
<1> QED
  BY <1>2, <1>3 DEF Shaped, WellFormed, Present
-----------------------------------------------------------------------------
(* the variables ServiceInv leaves out *)
RestInv ==
  /\ lock \in Proc \cup {NoProc}
  /\ outcome \in [Proc -> {"none", "ok", "failed", "refused", "cancelled"}]
  /\ edits \in 0..MaxEdits /\ mishaps \in 0..MaxMishaps
  /\ quiet \in [Proc -> BOOLEAN]
  /\ origin \in [Side -> ATree]

ShapeInv == \A side \in Side : Shaped(tree[side], clock)

LEMMA EndTyped ==
  ASSUME RestInv, NEW p \in Proc, NEW result \in {"none", "ok", "failed", "refused", "cancelled"},
         End(p, result)
  PROVE  /\ lock' \in Proc \cup {NoProc}
         /\ outcome' \in [Proc -> {"none", "ok", "failed", "refused", "cancelled"}]
BY DEF RestInv, End

LEMMA PutTyped ==
  ASSUME RestInv, NEW p \in Proc, NEW side, NEW t, Put(p, side, t)
  PROVE  quiet' \in [Proc -> BOOLEAN]
BY DEF RestInv, Put

LEMMA NextRestInv ==
  ASSUME RestInv, [Next]_vars
  PROVE  RestInv'
<1>1. ASSUME NEW p \in Proc, PlanSync(p) \/ ListTarget(p) \/ AcquireLock(p) \/ Finish(p)
      PROVE  RestInv'
  <2>1. quiet' \in [Proc -> BOOLEAN]
    <3>1. quiet \in [Proc -> BOOLEAN]
      BY DEF RestInv
    <3>2. quiet' = quiet \/ quiet' = [quiet EXCEPT ![p] = TRUE]
      BY <1>1 DEF PlanSync, ListTarget, AcquireLock, Finish
    <3> QED
      BY <3>1, <3>2, Zenon
  <2>2. \/ UNCHANGED <<lock, outcome>>
        \/ lock' \in Proc \cup {NoProc} /\ UNCHANGED outcome
        \/ UNCHANGED lock /\ outcome' = [outcome EXCEPT ![p] = "none"]
        \/ \E result \in {"ok", "failed", "refused"} : End(p, result)
    BY <1>1 DEF PlanSync, ListTarget, AcquireLock, Finish
  <2>3. UNCHANGED <<edits, mishaps, origin>>
    BY <1>1 DEF PlanSync, ListTarget, AcquireLock, Finish, outside
  <2> QED
    BY <2>1, <2>2, <2>3, EndTyped DEF RestInv
<1>2. ASSUME NEW p \in Proc, NEW a \in plan[p], BeginCopy(p, a) PROVE RestInv'
  BY <1>2, EndTyped, PutTyped DEF BeginCopy, Fail, RestInv, outside
<1>3. ASSUME NEW p \in Proc, NEW a \in plan[p], Mkdir(p, a) \/ Remove(p, a) \/ Pass(p, a)
      PROVE  RestInv'
  BY <1>3, EndTyped, PutTyped DEF Mkdir, Remove, Pass, Fail, RestInv, outside
<1>4. ASSUME NEW p \in Proc, FinishCopy(p) PROVE RestInv'
  <2>1. quiet' \in [Proc -> BOOLEAN]
    BY <1>4, PutTyped DEF FinishCopy
  <2>2. UNCHANGED <<lock, outcome>> \/ End(p, "failed")
    BY <1>4 DEF FinishCopy
  <2>3. UNCHANGED <<edits, mishaps, origin>>
    BY <1>4 DEF FinishCopy, outside
  <2> QED
    BY <2>1, <2>2, <2>3, EndTyped DEF RestInv
<1>5. ASSUME NEW p \in Proc, Cancel(p) \/ IOError(p) \/ Crash(p) \/ BreakOff(p) PROVE RestInv'
  <2> Mishap(p)
    BY <1>5 DEF Cancel, IOError, Crash, BreakOff
  <2>1. /\ mishaps' = mishaps + 1 /\ mishaps < MaxMishaps /\ edits' = edits /\ origin' = origin
        /\ quiet' \in [Proc -> BOOLEAN]
    <3>1. quiet' = [q \in Proc |-> quiet[q] /\ q # p /\ tree' = tree]
      BY DEF Mishap
    <3>2. quiet' \in [Proc -> BOOLEAN]
      BY <3>1, Zenon
    <3> QED
      BY <3>2 DEF Mishap
  <2>2. \E result \in {"none", "failed", "cancelled"} : End(p, result)
    BY <1>5 DEF Cancel, IOError, Crash, BreakOff
  <2> QED
    BY <2>1, <2>2, EndTyped DEF RestInv
<1>6. ASSUME NEW side \in Side, NEW x \in UserPath, UserEdit(side, x) PROVE RestInv'
  BY <1>6 DEF UserEdit, RestInv
<1>7. CASE UNCHANGED vars
  BY <1>7 DEF vars, RestInv
<1> QED
  BY <1>1, <1>2, <1>3, <1>4, <1>5, <1>6, <1>7 DEF Next, Step, ExecuteAction

LEMMA LaterShaped ==
  ASSUME NEW t \in ATree, NEW now \in Nat, Shaped(t, now)
  PROVE  Shaped(t, now + 1)
<1>1. \A x \in Path : t[x].mtime \in Nat
  BY ProperFields DEF ATree
<1> QED
  BY <1>1 DEF Shaped

LEMMA NextShapeInv ==
  ASSUME ServiceInv, ShapeInv, [Next]_vars
  PROVE  ShapeInv'
<1>1. ASSUME NEW to \in Side, NEW u, tree' = tree \/ tree' = [tree EXCEPT ![to] = u],
             \/ clock' = clock /\ Shaped(u, clock)
             \/ clock' = clock + 1 /\ Shaped(u, clock + 1)
      PROVE  ShapeInv'
  <2>1. \A side \in Side : tree'[side] \in {tree[side], u} /\ tree[side] \in ATree
    BY <1>1 DEF ServiceInv
  <2>2. clock \in Nat
    BY DEF ServiceInv
  <2>3. \A side \in Side : Shaped(tree[side], clock) /\ Shaped(tree[side], clock + 1)
    BY <2>1, <2>2, LaterShaped DEF ShapeInv
  <2>4. CASE tree' = tree
    BY <1>1, <2>3, <2>4 DEF ShapeInv
  <2>5. CASE tree' # tree
    BY <1>1, <2>1, <2>3, <2>5 DEF ShapeInv
  <2> QED
    BY <2>4, <2>5
<1>2. CASE tree' = tree /\ clock' = clock
  BY <1>2 DEF ShapeInv
<1>3. ASSUME NEW p \in Proc, NEW a \in plan[p], BeginCopy(p, a) \/ Mkdir(p, a) \/ Remove(p, a)
      PROVE  ShapeInv'
  <2> DEFINE to == Destination(a)
             dirs == Ancestors[a.path] \cup {a.path}
  <2>1. a.path \in Path /\ to \in Side /\ tree[to] \in ATree /\ clock \in Nat /\ Shaped(tree[to], clock)
    BY DestinationIsSide DEF ServiceInv, ShapeInv, Sound, Action
  <2>2. CASE BeginCopy(p, a)
    <3> DEFINE u == BeginWrite(tree[to], a.path, clock)
    <3>1. clock' = clock /\ (tree' = tree \/ (CanBeginWrite(tree[to], a.path) /\ tree' = [tree EXCEPT ![to] = u]))
      BY <2>2 DEF BeginCopy, Put, Fail
    <3>2. CanBeginWrite(tree[to], a.path) => Shaped(u, clock)
      BY <2>1, BeginWriteShape
    <3> HIDE DEF u, to
    <3> QED
      BY <1>1, <1>2, <2>1, <3>1, <3>2
  <2>3. CASE Mkdir(p, a)
    <3> DEFINE u == MkdirAll(tree[to], dirs)
    <3>1. clock' = clock /\ (tree' = tree \/ (CanMkdirAll(tree[to], dirs) /\ tree' = [tree EXCEPT ![to] = u]))
      BY <2>3 DEF Mkdir, Put, Fail
    <3>2. dirs \in SUBSET Path /\ \A x \in dirs : Ancestors[x] \subseteq dirs
      BY <2>1
    <3>3. CanMkdirAll(tree[to], dirs) => Shaped(u, clock)
      BY <2>1, <3>2, MkdirAllShape
    <3> HIDE DEF u, to
    <3> QED
      BY <1>1, <1>2, <2>1, <3>1, <3>3
  <2>4. CASE Remove(p, a)
    <3> DEFINE u == Delete(tree[to], a.path)
    <3>1. clock' = clock /\ (tree' = tree \/ tree' = [tree EXCEPT ![to] = u])
      BY <2>4 DEF Remove, Put, Fail
    <3>2. Shaped(u, clock)
      BY <2>1, DeleteShape
    <3> HIDE DEF u, to
    <3> QED
      BY <1>1, <2>1, <3>1, <3>2
  <2> QED
    BY <1>3, <2>2, <2>3, <2>4
<1>4. ASSUME NEW p \in Proc, pc[p] = "copying", FinishCopy(p) \/ IOError(p)
      PROVE  ShapeInv'
  <2> DEFINE a == First(plan[p])
             to == Destination(a)
             file == FinishWrite(tree[to], a.path, buffer[p], clock + 1)
             upload == Upload(tree[to], a.path, buffer[p], clock + 1)
             drop == DropTmp(tree[to], a.path)
  <2>1. /\ a.path \in Path /\ to \in Side /\ tree[to] \in ATree /\ clock \in Nat
        /\ Shaped(tree[to], clock) /\ buffer[p] \in Content \cup {Partial}
    BY <1>4, DestinationIsSide DEF ServiceInv, ShapeInv, Sound, Action
  <2>2. Shaped(drop, clock)
    BY <2>1, DropTmpShape
  <2>3. CanFinishWrite(tree[to], a.path) => Shaped(file, clock + 1)
    BY <2>1, FinishWriteShape
  <2>4. CanUpload(tree[to], a.path) => Shaped(upload, clock + 1)
    BY <2>1, UploadShape
  <2>5. CASE FinishCopy(p)
    <3>1. \/ clock' = clock + 1 /\ CanFinishWrite(tree[to], a.path) /\ Put(p, to, file)
          \/ clock' = clock + 1 /\ CanUpload(tree[to], a.path) /\ Put(p, to, upload)
          \/ clock' = clock /\ (Put(p, to, drop) \/ Put(p, to, tree[to]))
      BY <2>5 DEF FinishCopy
    <3> HIDE DEF a, to, file, upload, drop
    <3> QED
      BY <1>1, <2>1, <2>2, <2>3, <2>4, <3>1 DEF Put
  <2>6. CASE IOError(p)
    <3>1. tree' = [tree EXCEPT ![to] = IF KindOf[to] = "local" THEN drop ELSE tree[to]] /\ clock' = clock
      BY <1>4, <2>1, <2>6 DEF IOError, Mishap, ServiceInv
    <3> HIDE DEF a, to, file, upload, drop
    <3> QED
      BY <1>1, <2>1, <2>2, <3>1
  <2> QED
    BY <1>4, <2>5, <2>6
<1>5. ASSUME NEW side \in Side, NEW x \in UserPath, UserEdit(side, x) PROVE ShapeInv'
  <2> DEFINE t == tree[side]
             u == tree'[side]
  <2>1. t \in ATree /\ clock \in Nat /\ clock' = clock + 1 /\ Shaped(t, clock + 1) /\ x \in Path
    BY <1>5, LaterShaped DEF UserEdit, ServiceInv, ShapeInv
  <2>2. /\ \A y \in Ancestors[x] : t[y].type = "dir"
        /\ \E e : /\ tree' = [tree EXCEPT ![side][x] = e]
                  /\ e.mtime <= clock + 1
                  /\ e.type # "dir" => ~Occupied(t, x)
    <3>1. t[x].type # "dir" => ~Occupied(t, x)
      BY <2>1 DEF Shaped, WellFormed, Present, Occupied
    <3>2. clock + 1 <= clock + 1 /\ 0 <= clock + 1 /\ clock' = clock + 1
      BY <2>1
    <3>3. \A y \in Ancestors[x] : t[y].type = "dir"
      BY <1>5 DEF UserEdit
    <3>4. \/ t[x].type # "dir" /\ \E c \in Content : tree' = [tree EXCEPT ![side][x] = File(c, clock + 1)]
          \/ ~Occupied(t, x) /\ tree' = [tree EXCEPT ![side][x] = Nothing]
          \/ t[x].type = "none" /\ tree' = [tree EXCEPT ![side][x] = Directory]
      BY <1>5, <3>2 DEF UserEdit, Present
    <3> HIDE DEF t
    <3>5. CASE t[x].type # "dir" /\ \E c \in Content : tree' = [tree EXCEPT ![side][x] = File(c, clock + 1)]
      <4>1. PICK c \in Content : tree' = [tree EXCEPT ![side][x] = File(c, clock + 1)]
        BY <3>5
      <4>2. ~Occupied(t, x) /\ File(c, clock + 1).mtime <= clock + 1
        BY <3>1, <3>2, <3>5, EntryTypes
      <4> QED
        BY <3>3, <4>1, <4>2
    <3>6. CASE ~Occupied(t, x) /\ tree' = [tree EXCEPT ![side][x] = Nothing]
      <4>1. Nothing.mtime <= clock + 1
        BY <3>2, EntryTypes
      <4> QED
        BY <3>3, <3>6, <4>1
    <3>7. CASE t[x].type = "none" /\ tree' = [tree EXCEPT ![side][x] = Directory]
      <4>1. Directory.mtime <= clock + 1 /\ Directory.type = "dir"
        BY <3>2, EntryTypes
      <4> QED
        BY <3>3, <3>7, <4>1
    <3> QED
      BY <3>4, <3>5, <3>6, <3>7
  <2>3. PICK e : /\ tree' = [tree EXCEPT ![side][x] = e]
                 /\ e.mtime <= clock + 1
                 /\ e.type # "dir" => ~Occupied(t, x)
    BY <2>2
  <2>4. (\A y \in Path : u[y] = IF y = x THEN e ELSE t[y]) /\ tree' = [tree EXCEPT ![side] = u]
    BY <2>1, <2>3 DEF ServiceInv, ATree
  <2>5. \A y \in Path : u[y].mtime <= clock + 1
    BY <2>1, <2>3, <2>4 DEF Shaped
  <2>6. ASSUME NEW y \in Path, u[y].type # "none", NEW z \in Ancestors[y] PROVE u[z].type = "dir"
    <3>1. t[z].type = "dir"
      BY <2>1, <2>2, <2>4, <2>6 DEF Shaped, WellFormed, Present
    <3>2. z = x => e.type = "dir"
      BY <2>3, <2>4, <2>6 DEF Occupied, Present
    <3> QED
      BY <2>4, <3>1, <3>2
  <2>7. Shaped(u, clock + 1)
    BY <2>5, <2>6 DEF Shaped, WellFormed, Present
  <2> HIDE DEF u
  <2> QED
    BY <1>1, <2>1, <2>4, <2>7
<1>6. ASSUME NEW p \in Proc,
             \/ PlanSync(p) \/ ListTarget(p) \/ AcquireLock(p) \/ (\E a \in plan[p] : Pass(p, a))
             \/ Finish(p) \/ Cancel(p) \/ Crash(p) \/ (pc[p] # "copying" /\ IOError(p))
      PROVE  tree' = tree /\ clock' = clock
  BY <1>6 DEF PlanSync, ListTarget, AcquireLock, Pass, Finish, Cancel, Crash, IOError, Mishap
<1>7. ASSUME NEW p \in Proc, BreakOff(p) PROVE ShapeInv'
  <2>1. PICK a \in plan[p], dirs \in SUBSET Path :
          /\ \A x \in dirs : Ancestors[x] \subseteq dirs
          /\ CanMkdirAll(tree[Destination(a)], dirs)
          /\ tree' = [tree EXCEPT ![Destination(a)] = MkdirAll(tree[Destination(a)], dirs)]
    BY <1>7, BrokenOff
  <2> DEFINE to == Destination(a)
             u == MkdirAll(tree[to], dirs)
  <2>2. to \in Side /\ tree[to] \in ATree /\ clock \in Nat /\ Shaped(tree[to], clock)
    BY DestinationIsSide DEF ServiceInv, ShapeInv
  <2>3. Shaped(u, clock)
    BY <2>1, <2>2, MkdirAllShape
  <2>4. clock' = clock
    BY <1>7, BrokenOff DEF Mishap
  <2>5. tree' = [tree EXCEPT ![to] = u]
    BY <2>1
  <2> HIDE DEF u, to
  <2> QED
    BY <1>1, <2>2, <2>3, <2>4, <2>5
<1>8. CASE UNCHANGED vars
  BY <1>2, <1>8 DEF vars
<1>9. \A p \in Proc : FinishCopy(p) => pc[p] = "copying"
  BY DEF FinishCopy
<1> QED
  BY <1>2, <1>3, <1>4, <1>5, <1>6, <1>7, <1>8, <1>9 DEF Next, Step, ExecuteAction

LEMMA InitBase ==
  ASSUME Init
  PROVE  ServiceInv /\ RestInv /\ ShapeInv
<1>1. ServiceInv
  BY InitServiceInv
<1>2. RestInv
  BY <1>1 DEF Init, RestInv, ServiceInv
<1>3. \A side \in Side, x \in Path : tree[side][x].mtime <= clock
  <2>1. \A e \in Found : e.mtime <= Now
    BY EntryTypes DEF Found
  <2>2. tree \in [Side -> [Path -> Found]] /\ clock = Now
    BY DEF Init
  <2> QED
    BY <2>1, <2>2
<1> QED
  BY <1>1, <1>2, <1>3 DEF Init, ShapeInv, Shaped

(* The variables keep their types and the trees their shape: whatever is   *)
(* there lies in directories, and no time stamp is from the future.  It is *)
(* what MkdirAll before every write, os.Remove's refusal of a directory    *)
(* that holds something, and the rename's need of its directory keep up    *)
(* (local.go:156-198), with users and other processes at work.             *)
THEOREM TypeCorrect == Spec => []TypeOK
<1> DEFINE Inv == ServiceInv /\ RestInv /\ ShapeInv
<1>1. Init => Inv
  BY InitBase
<1>2. Inv /\ [Next]_vars => Inv'
  BY NextServiceInv, NextRestInv, NextShapeInv
<1>3. Inv => TypeOK
  <2> SUFFICES ASSUME Inv PROVE TypeOK
    OBVIOUS
  <2>1. \A side \in Side : DOMAIN tree[side] = Path /\ \A x \in Path :
          /\ tree[side][x].type \in {"none", "dir", "file"}
          /\ tree[side][x].content \in (IF tree[side][x].type = "file" THEN Content \cup {Partial}
                                        ELSE {NoContent})
          /\ tree[side][x].mtime <= clock
    <3>1. Nothing.content = NoContent /\ Directory.content = NoContent
      BY DEF Nothing, Directory
    <3>2. \A side \in Side : DOMAIN tree[side] = Path /\ \A x \in Path : tree[side][x] \in Proper
      BY DEF ServiceInv, ATree
    <3> QED
      BY <3>1, <3>2, ProperFields DEF ShapeInv, Shaped
  <2>2. \A side \in Side : WellFormed(tree[side])
    BY DEF ShapeInv, Shaped
  <2>3. \A p \in Proc : plan[p] \subseteq Action
    BY DEF ServiceInv, Sound
  <2> QED
    BY <2>1, <2>2, <2>3 DEF TypeOK, ServiceInv, RestInv
<1> HIDE DEF Inv
<1> QED
  BY <1>1, <1>2, <1>3, PTL DEF Spec
-----------------------------------------------------------------------------
(* Two-way runs.  x is settled when both sides hold one file; replaceable  *)
(* on a side when no file was there or the strategy lets it lose.          *)
Settled(x) == \A side \in Side : tree[side][x].type = "file" /\ Same(tree[side][x], tree[Other(side)][x])

Wanted == {x \in UserPath : \E side \in Side : origin[side][x].type = "file"}

Replaceable(side, x) == origin[side][x].type = "file" => MayLose(side, x)

Kept(side, x) ==
  \/ Same(tree[side][x], origin[side][x])
  \/ Replaceable(side, x) /\ Same(tree[side][x], origin[Other(side)][x])

(* e is what side had at x at first, or a directory made where nothing was *)
AsFound(side, x, e) == e = origin[side][x] \/ (origin[side][x].type = "none" /\ e = Directory)

KeptInv ==
  \A x \in Wanted, side \in Side : AsFound(side, x, tree[side][x]) \/ (Settled(x) /\ Kept(side, x))

PlanInv ==
  \A p \in Proc : \A a \in plan[p] :
    /\ a.type # "delete"
    /\ a.type = "copy" /\ a.path \in Wanted => Settled(a.path) \/ Replaceable(Destination(a), a.path)

CopyInv ==
  \A p \in Proc : pc[p] = "copying" =>
    LET a == First(plan[p]) IN
    /\ a.type = "copy"
    /\ a.path \in Wanted => tree[Origin(a)][a.path].type = "file" /\ buffer[p] = tree[Origin(a)][a.path].content

ListInv ==
  \A p \in Proc, x \in Wanted \ Ignored : pc[p] = "listing" =>
    \/ Settled(x)
    \/ \E e \in Proper : AsFound("source", x, e) /\ listed[p][x] = FileInfo(KindOf["source"], e)

TwoWayInv ==
  /\ rule.mode = "two-way" /\ origin \in [Side -> ATree]
  /\ KeptInv /\ PlanInv /\ CopyInv /\ ListInv

(* No user comes between, and none works on temporary files.               *)
UsersAway == MaxEdits = 0 /\ \A x \in Path : TmpOf[x] \notin UserPath

LEMMA OtherSide ==
  /\ \A side \in Side : Other(side) \in Side /\ Other(side) # side /\ Other(Other(side)) = side
  /\ \A a : Origin(a) = Other(Destination(a))
  /\ \A side, s \in Side : s = side \/ s = Other(side)
BY DEF Other, Side, Origin, Destination

(* The strategy lets one side lose, never both.                            *)
LEMMA OneLoser ==
  ASSUME origin \in [Side -> ATree], NEW x \in Path, NEW side \in Side,
         origin[side][x].type = "file", origin[Other(side)][x].type = "file",
         Replaceable(side, x), Replaceable(Other(side), x)
  PROVE  FALSE
<1>1. MayLose(side, x) /\ MayLose(Other(side), x)
  BY DEF Replaceable
<1>2. origin[side][x].mtime \in Nat /\ origin[Other(side)][x].mtime \in Nat
  BY OtherSide, ProperFields DEF ATree
<1> QED
  BY <1>1, <1>2, OtherSide DEF MayLose, Side

(* What a step makes of a wanted path: nothing, a directory where nothing  *)
(* was, or the copy of the other side's file.                              *)
PathStep(x) ==
  \/ \A side \in Side : tree'[side][x] = tree[side][x]
  \/ \E side \in Side :
       /\ tree'[Other(side)][x] = tree[Other(side)][x]
       /\ \/ tree[side][x].type = "none" /\ tree'[side][x] = Directory
          \/ /\ tree[Other(side)][x].type = "file"
             /\ \E m : tree'[side][x] = File(tree[Other(side)][x].content, m)
             /\ Settled(x) \/ Replaceable(side, x)

LEMMA WantedStep ==
  ASSUME UsersAway, ServiceInv, edits \in 0..MaxEdits, edits' \in 0..MaxEdits, TwoWayInv, [Next]_vars, NEW x \in Wanted
  PROVE  PathStep(x)
<1>1. x \in UserPath /\ x \in Path
  BY DEF Wanted
<1>2. CASE tree' = tree
  BY <1>2 DEF PathStep
<1>3. ~UserStep
  BY DEF UserStep, UsersAway
<1>4. CASE ProcStep
  <2>1. PICK p \in Proc : \E a \in plan[p] :
            /\ \A s \in Side \ {Destination(a)} : tree'[s] = tree[s]
            /\ Within(p, a, Destination(a), tree'[Destination(a)])
    BY <1>4 DEF ProcStep
  <2>2. PICK a \in plan[p] :
            /\ \A s \in Side \ {Destination(a)} : tree'[s] = tree[s]
            /\ Within(p, a, Destination(a), tree'[Destination(a)])
    BY <2>1
  <2> DEFINE to == Destination(a)
  <2>3. to \in Side /\ Other(to) \in Side /\ tree'[Other(to)] = tree[Other(to)] /\ a.path \in Path
    BY <2>2, OtherSide, DestinationIsSide DEF ServiceInv, Sound, Action
  <2>4. x # TmpOf[a.path] /\ a.type # "delete"
    BY <1>1, <2>3 DEF UsersAway, TwoWayInv, PlanInv
  <2>5. \/ tree'[to][x] = tree[to][x]
        \/ tree[to][x].type = "none" /\ tree'[to][x] = Directory
        \/ /\ x = a.path /\ pc[p] = "copying" /\ a = First(plan[p])
           /\ tree'[to][x] = File(buffer[p], clock + 1)
    BY <1>1, <2>2, <2>4 DEF Within
  <2>6. CASE tree'[to][x] = tree[to][x]
    BY <2>3, <2>6, OtherSide DEF PathStep
  <2>7. CASE tree[to][x].type = "none" /\ tree'[to][x] = Directory
    BY <2>3, <2>7 DEF PathStep
  <2>8. CASE /\ x = a.path /\ pc[p] = "copying" /\ a = First(plan[p])
             /\ tree'[to][x] = File(buffer[p], clock + 1)
    <3>1. a.type = "copy" /\ tree[Other(to)][x].type = "file" /\ buffer[p] = tree[Other(to)][x].content
      BY <2>8, OtherSide DEF TwoWayInv, CopyInv
    <3>2. Settled(x) \/ Replaceable(to, x)
      BY <2>8, <3>1 DEF TwoWayInv, PlanInv
    <3>3. \E m : tree'[to][x] = File(tree[Other(to)][x].content, m)
      BY <2>8, <3>1
    <3>4. tree'[Other(to)][x] = tree[Other(to)][x]
      BY <2>3
    <3> HIDE DEF to
    <3> QED
      BY <2>3, <3>1, <3>2, <3>3, <3>4 DEF PathStep
  <2> HIDE DEF to
  <2> QED
    BY <2>5, <2>6, <2>7, <2>8
<1> QED
  BY <1>2, <1>3, <1>4, TreeStep

LEMMA OutsideKept ==
  ASSUME [Next]_vars
  PROVE  rule' = rule /\ origin' = origin
<1>1. \A p \in Proc : Step(p) => rule' = rule /\ origin' = origin
  BY StepOutside DEF outside
<1>2. \A p \in Proc : Cancel(p) \/ IOError(p) \/ Crash(p) \/ BreakOff(p) => rule' = rule /\ origin' = origin
  BY DEF Cancel, IOError, Crash, BreakOff, Mishap
<1> QED
  BY <1>1, <1>2 DEF Next, UserEdit, vars

(* Where the sides are not settled they are as they were found.            *)
LEMMA UnsettledFile ==
  ASSUME TwoWayInv, NEW x \in Wanted, ~Settled(x), NEW side \in Side, tree[side][x].type = "file"
  PROVE  tree[side][x] = origin[side][x]
BY EntryTypes DEF TwoWayInv, KeptInv, AsFound

LEMMA WantedKept ==
  ASSUME ServiceInv, TwoWayInv, rule' = rule, origin' = origin, NEW x \in Wanted, PathStep(x)
  PROVE  /\ Settled(x) => Settled(x)'
         /\ \A side \in Side : AsFound(side, x, tree'[side][x]) \/ (Settled(x)' /\ Kept(side, x)')
<1>1. CASE \A side \in Side : tree'[side][x] = tree[side][x]
  <2>1. Settled(x)' <=> Settled(x)
    BY <1>1, OtherSide DEF Settled
  <2>2. \A side \in Side : Kept(side, x)' <=> Kept(side, x)
    BY <1>1 DEF Kept, Replaceable, MayLose
  <2> QED
    BY <1>1, <2>1, <2>2 DEF TwoWayInv, KeptInv
<1>2. ASSUME NEW side \in Side, tree'[Other(side)][x] = tree[Other(side)][x],
             tree[side][x].type = "none", tree'[side][x] = Directory
      PROVE  /\ ~Settled(x)
             /\ \A s \in Side : AsFound(s, x, tree'[s][x])
  <2>1. ~Settled(x)
    BY <1>2 DEF Settled
  <2>2. \A s \in Side : AsFound(s, x, tree[s][x])
    BY <2>1 DEF TwoWayInv, KeptInv
  <2>3. origin[side][x].type = "none"
    BY <1>2, <2>2, EntryTypes DEF AsFound
  <2>4. AsFound(side, x, tree'[side][x]) /\ AsFound(Other(side), x, tree'[Other(side)][x])
    BY <1>2, <2>2, <2>3, OtherSide DEF AsFound
  <2> QED
    BY <2>1, <2>4, OtherSide
<1>3. ASSUME NEW side \in Side, tree'[Other(side)][x] = tree[Other(side)][x],
             tree[Other(side)][x].type = "file",
             NEW m, tree'[side][x] = File(tree[Other(side)][x].content, m),
             Settled(x) \/ Replaceable(side, x)
      PROVE  /\ Settled(x)'
             /\ \A s \in Side : AsFound(s, x, tree'[s][x]) \/ Kept(s, x)'
  <2> DEFINE o == Other(side)
  <2>1. Same(tree'[side][x], tree'[o][x]) /\ Same(tree'[o][x], tree'[side][x])
    BY <1>3, EntryTypes DEF Same
  <2>2. Settled(x)'
    <3>1. tree'[side][x].type = "file" /\ tree'[o][x].type = "file"
      BY <1>3, EntryTypes
    <3>2. ASSUME NEW s \in Side
          PROVE  tree'[s][x].type = "file" /\ Same(tree'[s][x], tree'[Other(s)][x])
      <4>1. CASE s = side
        BY <2>1, <3>1, <4>1
      <4>2. CASE s = o
        <5>1. Other(s) = side
          BY <4>2, OtherSide
        <5> QED
          BY <2>1, <3>1, <4>2, <5>1
      <4> QED
        BY <4>1, <4>2, OtherSide
    <3> QED
      BY <3>2 DEF Settled
  <2>3. AsFound(o, x, tree'[o][x]) \/ Kept(o, x)'
    <3>1. Kept(o, x)' <=> Kept(o, x)
      BY <1>3 DEF Kept, Replaceable, MayLose
    <3> QED
      BY <1>3, <3>1, OtherSide DEF TwoWayInv, KeptInv
  <2>4. Kept(side, x)'
    <3>1. CASE Settled(x)
      <4>1. Same(tree'[side][x], tree[side][x])
        BY <1>3, <3>1, EntryTypes DEF Settled, Same
      <4>2. Kept(side, x) \/ tree[side][x] = origin[side][x]
        BY <3>1, EntryTypes DEF TwoWayInv, KeptInv, AsFound, Settled
      <4> QED
        BY <4>1, <4>2 DEF Kept, Replaceable, MayLose, Same
    <3>2. CASE ~Settled(x)
      <4>1. tree[o][x] = origin[o][x] /\ Replaceable(side, x)
        BY <1>3, <3>2, OtherSide, UnsettledFile
      <4>2. Same(tree'[side][x], origin[o][x])
        BY <1>3, <4>1, EntryTypes DEF Same
      <4> QED
        BY <4>1, <4>2 DEF Kept, Replaceable, MayLose
    <3> QED
      BY <3>1, <3>2
  <2> HIDE DEF o
  <2>5. \A s \in Side : s = side \/ s = o
    BY OtherSide DEF o
  <2> QED
    BY <2>2, <2>3, <2>4, <2>5
<1> QED
  BY <1>1, <1>2, <1>3 DEF PathStep

(* What is being copied is not replaced meanwhile.                         *)
LEMMA CopiedStays ==
  ASSUME ServiceInv, TwoWayInv, NEW x \in Wanted, PathStep(x),
         NEW p \in Proc, NEW a \in plan[p], a.type = "copy", a.path = x, tree[Origin(a)][x].type = "file"
  PROVE  tree'[Origin(a)][x].type = "file" /\ tree'[Origin(a)][x].content = tree[Origin(a)][x].content
<1> DEFINE from == Origin(a)
<1>1. from \in Side /\ Other(from) = Destination(a) /\ x \in Path
  BY DestinationIsSide, OtherSide DEF Wanted
<1> HIDE DEF from
<1>2. CASE tree'[from][x] = tree[from][x]
  BY <1>2 DEF from
<1>3. ASSUME NEW m, tree[Other(from)][x].type = "file",
             tree'[from][x] = File(tree[Other(from)][x].content, m),
             Settled(x) \/ Replaceable(from, x)
      PROVE  tree'[from][x].type = "file" /\ tree'[from][x].content = tree[from][x].content
  <2>1. Settled(x)
    <3> SUFFICES ASSUME ~Settled(x) PROVE FALSE
      OBVIOUS
    <3>1. Replaceable(from, x) /\ Replaceable(Other(from), x)
      BY <1>1, <1>3 DEF TwoWayInv, PlanInv
    <3>2. origin[from][x].type = "file" /\ origin[Other(from)][x].type = "file"
      BY <1>1, <1>3, OtherSide, UnsettledFile DEF from
    <3> QED
      BY <1>1, <3>1, <3>2, OneLoser DEF TwoWayInv
  <2> QED
    BY <1>1, <1>3, <2>1, EntryTypes DEF Settled, Same
<1>4. \/ tree'[from][x] = tree[from][x]
      \/ tree[from][x].type = "none"
      \/ /\ tree[Other(from)][x].type = "file"
         /\ \E m : tree'[from][x] = File(tree[Other(from)][x].content, m)
         /\ Settled(x) \/ Replaceable(from, x)
  BY <1>1, OtherSide DEF PathStep
<1> QED
  BY <1>2, <1>3, <1>4 DEF from

(* The copies of a two-way plan go where nothing was listed, or replace    *)
(* the version the strategy lets lose.                                     *)
LEMMA TwoWayCopies ==
  ASSUME NEW s, NEW t, NEW strategy, NEW a \in PlanTwoWay(s, t, strategy)
  PROVE  /\ a.type # "delete"
         /\ a.type = "copy" =>
              \/ a.direction = ToTarget /\ ~Listed(t[a.path])
              \/ a.direction = ToSource /\ ~Listed(s[a.path])
              \/ /\ IsFile(s[a.path]) /\ IsFile(t[a.path])
                 /\ \/ strategy = "keep_remote" /\ a.direction = ToTarget
                    \/ /\ strategy = "keep_newest"
                       /\ \/ a.direction = ToTarget /\ s[a.path].mtime > t[a.path].mtime
                          \/ a.direction = ToSource /\ t[a.path].mtime > s[a.path].mtime
<1>1. CASE \E x \in Path : ~Listed(t[x]) /\ a = Transfer(s[x], ToTarget, x)
  BY <1>1 DEF Transfer, Act
<1>2. CASE \E x \in Path : ~Listed(s[x]) /\ a = Transfer(t[x], ToSource, x)
  BY <1>2 DEF Transfer, Act
<1>3. CASE \E x \in Path : a = Act("conflict", ToTarget, x)
  BY <1>3 DEF Act
<1>4. CASE \E x \in Path : IsFile(s[x]) /\ IsFile(t[x]) /\ a = Resolve(strategy, x, s[x], t[x])
  <2>1. PICK x \in Path : IsFile(s[x]) /\ IsFile(t[x]) /\ a = Resolve(strategy, x, s[x], t[x])
    BY <1>4
  <2>2. \/ a = Act("skip", ToTarget, x) \/ a = Act("conflict", ToTarget, x)
        \/ strategy = "keep_remote" /\ a = Act("copy", ToTarget, x)
        \/ strategy = "keep_newest" /\ s[x].mtime > t[x].mtime /\ a = Act("copy", ToTarget, x)
        \/ strategy = "keep_newest" /\ t[x].mtime > s[x].mtime /\ a = Act("copy", ToSource, x)
    BY <2>1 DEF Resolve
  <2> QED
    BY <2>1, <2>2 DEF Act
<1> QED
  BY <1>1, <1>2, <1>3, <1>4 DEF PlanTwoWay

(* A plan shrinks, or is made new; a listing is taken at once.             *)
LEMMA PlanStep ==
  ASSUME ServiceInv, [Next]_vars, NEW q \in Proc
  PROVE  \/ plan'[q] \subseteq plan[q]
         \/ /\ pc[q] = "listing" /\ tree' = tree
            /\ plan'[q] = Plan(rule, listed[q], Listing(KindOf["target"], tree["target"]))
<1>1. ASSUME NEW result, End(q, result) PROVE plan'[q] \subseteq plan[q]
  BY <1>1 DEF End, ServiceInv
<1>2. CASE Stays(q)
  BY <1>2 DEF Stays
<1>3. ASSUME PlanSync(q) \/ AcquireLock(q) \/ Finish(q) \/ Cancel(q) \/ IOError(q) \/ Crash(q) \/ BreakOff(q)
      PROVE  plan'[q] \subseteq plan[q]
  BY <1>1, <1>3 DEF PlanSync, AcquireLock, Finish, Cancel, IOError, Crash, BreakOff
<1>4. CASE ListTarget(q)
  BY <1>4 DEF ListTarget, ServiceInv
<1>5. ASSUME NEW a \in plan[q], ExecuteAction(q, a) PROVE plan'[q] \subseteq plan[q]
  <2>1. plan' = plan \/ Done(q, a) \/ End(q, "failed")
    BY <1>5 DEF ExecuteAction, BeginCopy, Mkdir, Remove, Pass, Fail
  <2> QED
    BY <1>1, <2>1 DEF Done, ServiceInv
<1>6. ASSUME FinishCopy(q) PROVE plan'[q] \subseteq plan[q]
  <2>1. Done(q, First(plan[q])) \/ End(q, "failed")
    BY <1>6 DEF FinishCopy
  <2> QED
    BY <1>1, <2>1 DEF Done, ServiceInv
<1> QED
  BY <1>2, <1>3, <1>4, <1>5, <1>6, RunsApart DEF Moves, Step

LEMMA ListStep ==
  ASSUME ServiceInv, [Next]_vars, NEW q \in Proc, pc'[q] = "listing"
  PROVE  \/ Stays(q)
         \/ tree' = tree /\ listed'[q] = Listing(KindOf["source"], tree["source"])
<1>1. ASSUME NEW result, End(q, result) PROVE FALSE
  BY <1>1 DEF End, Goto, ServiceInv
<1>2. CASE PlanSync(q)
  BY <1>2 DEF PlanSync, ServiceInv
<1>3. /\ ~ListTarget(q) /\ ~AcquireLock(q) /\ ~Finish(q) /\ ~Cancel(q) /\ ~IOError(q) /\ ~Crash(q)
      /\ ~BreakOff(q)
  <2>1. ~ListTarget(q) /\ ~AcquireLock(q) /\ ~Finish(q) /\ ~Cancel(q) /\ ~IOError(q) /\ ~Crash(q)
    BY <1>1 DEF ListTarget, AcquireLock, Finish, Cancel, IOError, Crash, Goto, ServiceInv
  <2>2. ~BreakOff(q)
    BY <1>1 DEF BreakOff
  <2> QED
    BY <2>1, <2>2
<1>4. ASSUME NEW a \in plan[q], ExecuteAction(q, a) PROVE FALSE
  <2>1. pc[q] = "exec" /\ (pc' = pc \/ Goto(q, "copying"))
    BY <1>1, <1>4 DEF ExecuteAction, BeginCopy, Mkdir, Remove, Pass, Fail, Executes
  <2> QED
    BY <2>1 DEF Goto, ServiceInv
<1>5. ~FinishCopy(q)
  BY <1>1 DEF FinishCopy, Goto, ServiceInv
<1> QED
  BY <1>2, <1>3, <1>4, <1>5, RunsApart DEF Moves, Step

LEMMA FileInfoFields ==
  ASSUME NEW kind, NEW e \in Proper
  PROVE  /\ FileInfo(kind, e).type = e.type
         /\ e.type = "file" => FileInfo(kind, e).mtime = e.mtime
BY DEF FileInfo, NoInfo

(* What a new plan copies is settled, or may be lost where it goes.        *)
LEMMA NewPlanSafe ==
  ASSUME ServiceInv, TwoWayInv, NEW p \in Proc, pc[p] = "listing",
         NEW a \in Plan(rule, listed[p], Listing(KindOf["target"], tree["target"]))
  PROVE  /\ a.type # "delete"
         /\ a.type = "copy" /\ a.path \in Wanted => Settled(a.path) \/ Replaceable(Destination(a), a.path)
<1> DEFINE s == listed[p]
           t == Listing(KindOf["target"], tree["target"])
           x == a.path
<1>1. a \in PlanTwoWay(s, t, rule.conflict)
  BY DEF Plan, TwoWayInv
<1>2. a \in Sound
  <2>1. rule \in [mode : Modes, conflict : Strategies]
    BY DEF ServiceInv
  <2> QED
    BY <2>1, ListingHides, PlanIsSound DEF ServiceInv
<1>3. ASSUME a.type = "copy", x \in Wanted, ~Settled(x) PROVE Replaceable(Destination(a), x)
  <2>1. x \in Path /\ x \notin Ignored
    BY <1>2 DEF Sound, Action
  <2>2. PICK e \in Proper : AsFound("source", x, e) /\ s[x] = FileInfo(KindOf["source"], e)
    BY <1>3, <2>1 DEF TwoWayInv, ListInv
  <2> DEFINE f == tree["target"][x]
  <2>3. f \in Proper /\ AsFound("target", x, f) /\ t[x] = FileInfo(KindOf["target"], f)
    BY <1>3, <2>1 DEF TwoWayInv, KeptInv, Listing, ServiceInv, ATree, Side
  <2> HIDE DEF s, t, x, f
  <2>4. /\ s[x].type = e.type /\ (e.type = "file" => s[x].mtime = e.mtime)
        /\ t[x].type = f.type /\ (f.type = "file" => t[x].mtime = f.mtime)
    BY <2>2, <2>3, FileInfoFields
  <2>5. (e.type # "dir" => e = origin["source"][x]) /\ (f.type # "dir" => f = origin["target"][x])
    BY <2>2, <2>3, EntryTypes DEF AsFound
  <2>6. \/ a.direction = ToTarget /\ f.type = "none"
        \/ a.direction = ToSource /\ e.type = "none"
        \/ /\ e.type = "file" /\ f.type = "file"
           /\ \/ rule.conflict = "keep_remote" /\ a.direction = ToTarget
              \/ /\ rule.conflict = "keep_newest"
                 /\ \/ a.direction = ToTarget /\ e.mtime > f.mtime
                    \/ a.direction = ToSource /\ f.mtime > e.mtime
    BY <1>1, <1>3, <2>4, TwoWayCopies DEF Listed, IsFile, x
  <2>7. ToSource # ToTarget
    BY DEF ToSource, ToTarget
  <2> QED
    BY <2>5, <2>6, <2>7 DEF Replaceable, MayLose, Destination, Other
<1> QED
  BY <1>1, <1>3, TwoWayCopies

LEMMA NextTwoWayInv ==
  ASSUME UsersAway, ServiceInv, edits \in 0..MaxEdits, edits' \in 0..MaxEdits, TwoWayInv, [Next]_vars
  PROVE  TwoWayInv'
<1>1. rule' = rule /\ origin' = origin /\ Wanted' = Wanted
  BY OutsideKept DEF Wanted
<1>2. ASSUME NEW x \in Wanted
      PROVE  /\ PathStep(x)
             /\ Settled(x) => Settled(x)'
             /\ \A side \in Side : AsFound(side, x, tree'[side][x]) \/ (Settled(x)' /\ Kept(side, x)')
  BY <1>1, WantedStep, WantedKept
<1>3. KeptInv'
  BY <1>1, <1>2 DEF KeptInv, AsFound
<1>4. PlanInv'
  <2> SUFFICES ASSUME NEW p \in Proc, NEW a \in plan'[p]
               PROVE  /\ a.type # "delete"
                      /\ a.type = "copy" /\ a.path \in Wanted
                           => Settled(a.path)' \/ Replaceable(Destination(a), a.path)'
    BY <1>1 DEF PlanInv
  <2>1. /\ a.type # "delete"
        /\ a.type = "copy" /\ a.path \in Wanted => Settled(a.path) \/ Replaceable(Destination(a), a.path)
    <3>1. CASE a \in plan[p]
      BY <3>1 DEF TwoWayInv, PlanInv
    <3>2. CASE pc[p] = "listing" /\ a \in Plan(rule, listed[p], Listing(KindOf["target"], tree["target"]))
      BY <3>2, NewPlanSafe
    <3> QED
      BY <3>1, <3>2, PlanStep
  <2>2. \A side, x : Replaceable(side, x)' <=> Replaceable(side, x)
    BY <1>1 DEF Replaceable, MayLose
  <2> QED
    BY <1>2, <2>1, <2>2
<1>5. CopyInv'
  <2> SUFFICES ASSUME NEW p \in Proc, pc'[p] = "copying", NEW a, a = First(plan'[p])
               PROVE  /\ a.type = "copy"
                      /\ a.path \in Wanted => /\ tree'[Origin(a)][a.path].type = "file"
                                              /\ buffer'[p] = tree'[Origin(a)][a.path].content
    BY <1>1 DEF CopyInv
  <2>1. CASE Stays(p)
    <3>1. /\ a = First(plan[p]) /\ a \in plan[p] /\ a.type = "copy" /\ buffer'[p] = buffer[p]
          /\ a.path \in Wanted => /\ tree[Origin(a)][a.path].type = "file"
                                  /\ buffer[p] = tree[Origin(a)][a.path].content
      BY <2>1 DEF Stays, TwoWayInv, CopyInv, ServiceInv
    <3> QED
      BY <1>2, <3>1, CopiedStays
  <2>2. CASE /\ plan'[p] = plan[p] /\ a.type = "copy" /\ CanRead(a)
             /\ buffer'[p] = tree[Origin(a)][a.path].content
             /\ tree'[Origin(a)] = tree[Origin(a)]
    BY <2>2 DEF CanRead
  <2> QED
    BY <2>1, <2>2, CopyStep
<1>6. ListInv'
  <2> SUFFICES ASSUME NEW p \in Proc, NEW x \in Wanted \ Ignored, pc'[p] = "listing"
               PROVE  \/ Settled(x)'
                      \/ \E e \in Proper : AsFound("source", x, e) /\ listed'[p][x] = FileInfo(KindOf["source"], e)
    BY <1>1 DEF ListInv, AsFound
  <2>1. CASE Stays(p)
    BY <1>2, <2>1 DEF Stays, TwoWayInv, ListInv
  <2>2. CASE tree' = tree /\ listed'[p] = Listing(KindOf["source"], tree["source"])
    <3>1. x \in Path /\ "source" \in Side
      BY DEF Wanted, Side
    <3>2. tree["source"][x] \in Proper /\ listed'[p][x] = FileInfo(KindOf["source"], tree["source"][x])
      BY <2>2, <3>1 DEF Listing, ServiceInv, ATree
    <3>3. AsFound("source", x, tree["source"][x]) \/ Settled(x)
      BY <3>1 DEF TwoWayInv, KeptInv
    <3> QED
      BY <1>2, <3>2, <3>3
  <2> QED
    BY <2>1, <2>2, ListStep
<1> QED
  BY <1>1, <1>3, <1>4, <1>5, <1>6 DEF TwoWayInv

(* Two-way runs, however many processes interleave theirs, crash or fail,  *)
(* keep every file the users had, except that the strategy's winner may    *)
(* replace the loser: a plan never deletes (planner.go:144-218), and two   *)
(* plans that were made of different listings never copy one path in both  *)
(* directions, as Resolve lets only one side lose.                         *)
THEOREM TwoWayKeeps ==
  ASSUME UsersAway
  PROVE  Spec => []StrategyHonoured
<1> DEFINE Inv == ServiceInv /\ RestInv /\ (rule.mode = "two-way" => TwoWayInv)
<1>1. Init => Inv
  <2> SUFFICES ASSUME Init PROVE Inv
    OBVIOUS
  <2>1. ServiceInv
    BY InitServiceInv
  <2>2. RestInv
    BY <2>1 DEF Init, RestInv, ServiceInv
  <2>3. KeptInv /\ PlanInv /\ CopyInv /\ ListInv
    BY DEF Init, KeptInv, AsFound, PlanInv, CopyInv, ListInv
  <2> QED
    BY <2>1, <2>2, <2>3 DEF TwoWayInv, RestInv
<1>2. Inv /\ [Next]_vars => Inv'
  BY NextServiceInv, NextRestInv, NextTwoWayInv, OutsideKept DEF RestInv
<1>3. Inv => StrategyHonoured
  <2> SUFFICES ASSUME Inv, rule.mode = "two-way", NEW side \in Side, NEW x \in UserPath,
                      origin[side][x].type = "file"
               PROVE  \/ Same(tree[side][x], origin[side][x])
                      \/ MayLose(side, x) /\ Same(tree[side][x], origin[Other(side)][x])
    BY DEF StrategyHonoured
  <2>1. AsFound(side, x, tree[side][x]) \/ Kept(side, x)
    BY DEF Wanted, TwoWayInv, KeptInv
  <2> QED
    BY <2>1 DEF AsFound, Kept, Replaceable, Same
<1> HIDE DEF Inv
<1> QED
  BY <1>1, <1>2, <1>3, PTL DEF Spec
-----------------------------------------------------------------------------
(* One-way runs: where they read and where they write.                     *)
Direction == IF rule.mode = "one-way-push" THEN ToTarget ELSE ToSource
From == IF rule.mode = "one-way-push" THEN "source" ELSE "target"
To == Other(From)

(* The names of temporary files are free at first, and none users work on. *)
TmpFree ==
  \A x \in Path : TmpOf[x] # NoPath =>
    TmpOf[x] \notin UserPath /\ \A t \in Start, side \in Side : t[side][TmpOf[x]].type = "none"

(* Files beyond the size that is hashed differ in size, and files that     *)
(* differ have different time stamps at first.                             *)
ToldApart ==
  /\ \A c, e \in Big : SizeOf[c] = SizeOf[e] => c = e
  /\ \A t \in Start, x \in Path :
       /\ t["source"][x].type = "file" /\ t["target"][x].type = "file"
       /\ t["source"][x].mtime = t["target"][x].mtime
       => t["source"][x].content = t["target"][x].content

(* The processes write on one side, where no temporary file is in the way; *)
(* equal times tell equal files.                                           *)
OneSideInv ==
  /\ rule.mode # "two-way"
  /\ \A p \in Proc : \A a \in plan[p] : a.direction = Direction
  /\ \A x \in Path : TmpOf[x] # NoPath => tree[From][TmpOf[x]].type = "none"
  /\ \A x \in Path :
       /\ tree["source"][x].type = "file" /\ tree["target"][x].type = "file"
       /\ tree["source"][x].mtime = tree["target"][x].mtime
       => tree["source"][x].content = tree["target"][x].content

LEMMA FromTo ==
  /\ From \in Side /\ To \in Side /\ From # To /\ Other(To) = From
  /\ \A a : a.direction = Direction => Destination(a) = To /\ Origin(a) = From
BY DEF From, To, Other, Side, Direction, Destination, Origin, ToTarget, ToSource

LEMMA OneWayDirection ==
  ASSUME NEW s, NEW t, NEW direction, NEW a \in PlanOneWay(s, t, direction)
  PROVE  a.direction = direction
BY DEF PlanOneWay, Transfer, Act

LEMMA PlanDirection ==
  ASSUME ServiceInv, rule.mode # "two-way", NEW s, NEW t, NEW a \in Plan(rule, s, t)
  PROVE  a.direction = Direction
<1>1. rule.mode \in Modes
  BY DEF ServiceInv
<1> QED
  BY <1>1, OneWayDirection DEF Plan, Direction, Modes

LEMMA NextOneSideInv ==
  ASSUME TmpFree, ServiceInv, ShapeInv, OneSideInv, [Next]_vars
  PROVE  OneSideInv'
<1>1. rule' = rule /\ From' = From /\ Direction' = Direction
  BY OutsideKept DEF From, Direction
<1>2. ASSUME NEW p \in Proc, NEW a \in plan'[p] PROVE a.direction = Direction
  BY PlanStep, PlanDirection DEF OneSideInv
<1>3. ASSUME ProcStep
      PROVE  /\ tree'[From] = tree[From]
             /\ \A x \in Path : \/ tree'[To][x] = tree[To][x]
                                \/ tree'[To][x].type # "file"
                                \/ \E y \in Path : x = TmpOf[y]
                                \/ tree'[To][x].mtime = clock + 1
  <2>1. PICK p \in Proc : \E a \in plan[p] :
            /\ \A s \in Side \ {Destination(a)} : tree'[s] = tree[s]
            /\ Within(p, a, Destination(a), tree'[Destination(a)])
    BY <1>3 DEF ProcStep
  <2>2. PICK a \in plan[p] :
            /\ \A s \in Side \ {Destination(a)} : tree'[s] = tree[s]
            /\ Within(p, a, Destination(a), tree'[Destination(a)])
    BY <2>1
  <2>3. Destination(a) = To /\ a.path \in Path
    BY FromTo DEF OneSideInv, ServiceInv, Sound, Action
  <2> QED
    BY <2>2, <2>3, FromTo, EntryTypes DEF Within
<1>4. ASSUME UserStep
      PROVE  \E side \in Side, x \in UserPath, e \in Proper :
               (e.type = "file" => e.mtime = clock + 1) /\ tree' = [tree EXCEPT ![side][x] = e]
  BY <1>4 DEF UserStep
<1>5. \A x \in Path : TmpOf[x] # NoPath => tree'[From][TmpOf[x]].type = "none"
  <2>1. CASE UserStep
    <3>1. PICK side \in Side, y \in UserPath, e \in Proper : tree' = [tree EXCEPT ![side][y] = e]
      BY <1>4, <2>1
    <3>2. \A x \in Path : x # y => tree'[From][x] = tree[From][x]
      BY <3>1, FromTo DEF ServiceInv, ATree
    <3>3. \A x \in Path : TmpOf[x] # NoPath => TmpOf[x] \in Path /\ TmpOf[x] # y
      BY DEF TmpFree
    <3> QED
      BY <3>2, <3>3 DEF OneSideInv
  <2> QED
    BY <1>3, <2>1, TreeStep DEF OneSideInv
<1>6. ASSUME NEW x \in Path,
             tree'["source"][x].type = "file", tree'["target"][x].type = "file",
             tree'["source"][x].mtime = tree'["target"][x].mtime
      PROVE  tree'["source"][x].content = tree'["target"][x].content
  <2>1. \A side \in Side : tree[side][x].mtime <= clock /\ tree[side][x].mtime \in Nat
    BY ProperFields DEF ShapeInv, Shaped, ServiceInv, ATree
  <2>2. \A side \in Side : tree'[side][x].type = "file"
    BY <1>6 DEF Side
  <2>3. clock \in Nat /\ clock + 1 # tree["source"][x].mtime /\ clock + 1 # tree["target"][x].mtime
    BY <2>1 DEF ServiceInv, Side
  <2>4. CASE tree' = tree
    BY <1>6, <2>4 DEF OneSideInv
  <2>5. CASE ProcStep
    <3>1. tree'[From][x].mtime = tree'[To][x].mtime /\ tree'[From][x] = tree[From][x]
      BY <1>3, <1>6, <2>5, FromTo DEF Side
    <3>2. ~\E y \in Path : x = TmpOf[y]
      BY <1>5, <2>2, FromTo
    <3>3. tree'[To][x] = tree[To][x]
      BY <1>3, <2>2, <2>3, <2>5, <3>1, <3>2, FromTo DEF Side
    <3> QED
      BY <1>6, <3>1, <3>3, FromTo DEF OneSideInv, Side
  <2>6. CASE UserStep
    <3>1. PICK side \in Side, y \in UserPath, e \in Proper :
                 (e.type = "file" => e.mtime = clock + 1) /\ tree' = [tree EXCEPT ![side][y] = e]
      BY <1>4, <2>6
    <3>2. \A s \in Side : tree'[s][x] = IF s = side /\ x = y THEN e ELSE tree[s][x]
      BY <3>1 DEF ServiceInv, ATree
    <3>3. CASE x # y
      BY <1>6, <3>2, <3>3 DEF OneSideInv, Side
    <3>4. CASE x = y
      <4>1. tree'[side][x].mtime = clock + 1 /\ tree'[Other(side)][x] = tree[Other(side)][x]
        BY <2>2, <3>1, <3>2, <3>4, OtherSide
      <4> QED
        BY <1>6, <2>3, <4>1 DEF Side, Other
    <3> QED
      BY <3>3, <3>4
  <2> QED
    BY <2>4, <2>5, <2>6, TreeStep
<1> QED
  BY <1>1, <1>2, <1>5, <1>6 DEF OneSideInv

(* What ends a run's quiet, and what does not touch it.                    *)
Undisturbed(q) == outcome'[q] = outcome[q] /\ (quiet'[q] => quiet[q] /\ tree' = tree)

LEMMA PutDisturbs ==
  ASSUME ServiceInv, RestInv, NEW p \in Proc, NEW q \in Proc \ {p}, NEW side \in Side, NEW t,
         Put(p, side, t), quiet'[q]
  PROVE  quiet[q] /\ tree' = tree
<1>1. quiet[q] /\ t = tree[side]
  BY Zenon DEF Put
<1>2. tree' = [tree EXCEPT ![side] = t] /\ tree \in [Side -> ATree]
  BY DEF Put, ServiceInv
<1> QED
  BY <1>1, <1>2

LEMMA QuietStep ==
  ASSUME ServiceInv, RestInv, [Next]_vars, NEW q \in Proc
  PROVE  \/ Step(q)
         \/ ~quiet'[q] /\ pc'[q] = "idle"
         \/ Stays(q) /\ Undisturbed(q)
<1>1. ASSUME NEW p \in Proc \ {q}, NEW result, End(p, result) PROVE outcome'[q] = outcome[q]
  BY <1>1 DEF End, RestInv
<1>2. ASSUME NEW p \in Proc \ {q}, PlanSync(p) \/ ListTarget(p) \/ AcquireLock(p) \/ Finish(p)
      PROVE  Undisturbed(q)
  <2>1. outcome'[q] = outcome[q]
    BY <1>1, <1>2 DEF PlanSync, ListTarget, AcquireLock, Finish, RestInv
  <2>2. tree' = tree /\ quiet'[q] = quiet[q]
    BY <1>2 DEF PlanSync, ListTarget, AcquireLock, Finish, RestInv
  <2> QED
    BY <2>1, <2>2 DEF Undisturbed
<1>3. ASSUME NEW p \in Proc \ {q}, NEW a \in plan[p], ExecuteAction(p, a) PROVE Undisturbed(q)
  <2>1. outcome'[q] = outcome[q]
    BY <1>1, <1>3 DEF ExecuteAction, BeginCopy, Mkdir, Remove, Pass, Fail
  <2>2. (tree' = tree /\ quiet' = quiet) \/ \E t : Put(p, Destination(a), t)
    BY <1>3 DEF ExecuteAction, BeginCopy, Mkdir, Remove, Pass, Fail
  <2> QED
    BY <2>1, <2>2, PutDisturbs, DestinationIsSide DEF Undisturbed
<1>4. ASSUME NEW p \in Proc \ {q}, FinishCopy(p) PROVE Undisturbed(q)
  <2>1. outcome'[q] = outcome[q]
    BY <1>1, <1>4 DEF FinishCopy
  <2>2. \E t : Put(p, Destination(First(plan[p])), t)
    BY <1>4 DEF FinishCopy
  <2> QED
    BY <2>1, <2>2, PutDisturbs, DestinationIsSide DEF Undisturbed
<1>5. ASSUME NEW p \in Proc \ {q}, Cancel(p) \/ IOError(p) \/ Crash(p) \/ BreakOff(p) PROVE Undisturbed(q)
  <2>1. outcome'[q] = outcome[q]
    BY <1>1, <1>5 DEF Cancel, IOError, Crash, BreakOff
  <2>2. quiet'[q] => quiet[q] /\ tree' = tree
    BY <1>5 DEF Cancel, IOError, Crash, BreakOff, Mishap
  <2> QED
    BY <2>1, <2>2 DEF Undisturbed
<1>6. ASSUME Cancel(q) \/ IOError(q) \/ Crash(q) \/ BreakOff(q) PROVE ~quiet'[q] /\ pc'[q] = "idle"
  <2>1. ~quiet'[q]
    BY <1>6 DEF Cancel, IOError, Crash, BreakOff, Mishap
  <2>2. \E result : End(q, result)
    BY <1>6 DEF Cancel, IOError, Crash, BreakOff
  <2>3. pc'[q] = "idle"
    BY <2>2 DEF End, Goto, ServiceInv
  <2> QED
    BY <2>1, <2>3
<1>7. ASSUME NEW side \in Side, NEW x \in UserPath, UserEdit(side, x) PROVE Undisturbed(q)
  BY <1>7 DEF UserEdit, Undisturbed
<1>8. ASSUME UNCHANGED vars PROVE Undisturbed(q)
  <2>1. outcome' = outcome /\ quiet' = quiet /\ tree' = tree
    BY <1>8 DEF vars
  <2>2. outcome'[q] = outcome[q]
    BY <2>1
  <2>3. quiet'[q] => quiet[q]
    BY <2>1, Zenon
  <2>4. quiet'[q] => quiet[q] /\ tree' = tree
    BY <2>1, <2>3, Zenon
  <2> QED
    BY <2>2, <2>4, Zenon DEF Undisturbed
<1>9. Step(q) \/ (~quiet'[q] /\ pc'[q] = "idle") \/ Stays(q)
  BY <1>6, RunsApart DEF Moves
<1>10. Step(q) \/ (~quiet'[q] /\ pc'[q] = "idle") \/ Undisturbed(q)
  BY <1>2, <1>3, <1>4, <1>5, <1>6, <1>7, <1>8 DEF Next, Step
<1> QED
  BY <1>9, <1>10

(* What a quiet run has still to do: wherever the sides differ there is an *)
(* action for it, which fits what it is to mirror.                         *)
Alike(x) == Same(tree[From][x], tree[To][x])
Pending(p, x) == \E a \in plan[p] : a.path = x /\ a.type \in {"mkdir", "copy", "delete"}
BeingMade(p, x) == pc[p] = "copying" /\ KindOf[To] = "local" /\ x = TmpOf[First(plan[p]).path]

Fits(a) ==
  /\ a.type = "mkdir" => tree[From][a.path].type = "dir"
  /\ a.type = "copy" => tree[From][a.path].type = "file"
  /\ a.type = "delete" => tree[From][a.path].type = "none"

MirrorInv(p) ==
  /\ \A a \in plan[p] : Fits(a)
  /\ \A x \in Path \ Ignored : Alike(x) \/ Mismatched(x) \/ Pending(p, x) \/ BeingMade(p, x)
  /\ pc[p] = "copying" => LET a == First(plan[p]) IN
                          a.type = "copy" /\ buffer[p] = tree[From][a.path].content

QuietInv ==
  \A p \in Proc :
    /\ outcome[p] = "ok" => pc[p] = "idle"
    /\ quiet[p] =>
         /\ pc[p] = "listing" => listed[p] = Listing(KindOf["source"], tree["source"])
         /\ pc[p] \in {"planned", "exec", "copying"} => MirrorInv(p)
         /\ outcome[p] = "ok" => \A x \in Path \ Ignored : Alike(x) \/ Mismatched(x)

(* Compare sees every difference, where contents are told apart.           *)
LEMMA DifferenceSeen ==
  ASSUME ToldApart, NEW j \in {"local", "drive"}, NEW k \in {"local", "drive"},
         NEW e \in Proper, NEW f \in Proper, e.type = "file", f.type = "file",
         e.mtime = f.mtime => e.content = f.content,
         ~FileModified(FileInfo(j, e), FileInfo(k, f))
  PROVE  e.content = f.content
<1> DEFINE c == e.content
           d == f.content
<1>1. SizeOf[c] = SizeOf[d] /\ (e.mtime = f.mtime \/ Checksum(j, c) = Checksum(k, d))
  BY DEF FileModified, FileInfo
<1>2. ASSUME Checksum(j, c) = Checksum(k, d) PROVE c = d
  BY <1>1, <1>2 DEF Checksum, ToldApart
<1> QED
  BY <1>1, <1>2

LEMMA PlanMirrors ==
  ASSUME ToldApart, ServiceInv, OneSideInv,
         NEW new, new = Plan(rule, Listing(KindOf["source"], tree["source"]),
                                   Listing(KindOf["target"], tree["target"]))
  PROVE  /\ \A a \in new : Fits(a)
         /\ \A x \in Path \ Ignored :
              Alike(x) \/ Mismatched(x) \/ \E a \in new : a.path = x /\ a.type \in {"mkdir", "copy", "delete"}
<1> DEFINE j == KindOf[From]
           k == KindOf[To]
           s == Listing(j, tree[From])
           t == Listing(k, tree[To])
<1>1. new = PlanOneWay(s, t, Direction)
  <2>1. rule.mode \in Modes /\ rule.mode # "two-way"
    BY DEF ServiceInv, OneSideInv
  <2> QED
    BY <2>1 DEF Plan, Modes, From, To, Other, Direction
<1>2. \A x \in Path \ Ignored : /\ s[x] = FileInfo(j, tree[From][x]) /\ t[x] = FileInfo(k, tree[To][x])
                                /\ tree[From][x] \in Proper /\ tree[To][x] \in Proper
                                /\ s[x].type = tree[From][x].type /\ t[x].type = tree[To][x].type
  BY FromTo, FileInfoFields DEF Listing, ServiceInv, ATree
<1>3. \A x \in Ignored : ~Listed(s[x]) /\ ~Listed(t[x])
  BY ListingHides
<1>4. j \in {"local", "drive"} /\ k \in {"local", "drive"}
  BY FromTo
<1> HIDE DEF s, t, j, k
<1>5. ASSUME NEW a \in new PROVE Fits(a)
  <2>1. \/ \E x \in Path : Listed(s[x]) /\ a = Transfer(s[x], Direction, x)
        \/ \E x \in Path : a = Act("conflict", Direction, x)
        \/ \E x \in Path : IsFile(s[x]) /\ a = Act("copy", Direction, x)
        \/ \E x \in Path : Listed(t[x]) /\ ~Listed(s[x]) /\ a = Act("delete", Direction, x)
    BY <1>1 DEF PlanOneWay
  <2>2. \A x \in Path : Listed(s[x]) \/ Listed(t[x]) => s[x].type = tree[From][x].type
    BY <1>2, <1>3
  <2>3. \A x \in Path : Listed(s[x]) => s[x].type \in {"dir", "file"}
    BY <1>2, <1>3, ProperFields DEF Listed
  <2>4. CASE \E x \in Path : Listed(s[x]) /\ a = Transfer(s[x], Direction, x)
    BY <2>2, <2>3, <2>4 DEF Transfer, Act, Fits
  <2>5. CASE \E x \in Path : a = Act("conflict", Direction, x)
    BY <2>5 DEF Act, Fits
  <2>6. CASE \E x \in Path : IsFile(s[x]) /\ a = Act("copy", Direction, x)
    BY <2>2, <2>6 DEF Act, Fits, IsFile, Listed
  <2>7. CASE \E x \in Path : Listed(t[x]) /\ ~Listed(s[x]) /\ a = Act("delete", Direction, x)
    BY <2>2, <2>7 DEF Act, Fits, Listed
  <2> QED
    BY <2>1, <2>4, <2>5, <2>6, <2>7
<1>6. ASSUME NEW x \in Path \ Ignored, ~Mismatched(x),
             ~\E a \in new : a.path = x /\ a.type \in {"mkdir", "copy", "delete"}
      PROVE  Alike(x)
  <2> DEFINE e == tree[From][x]
             f == tree[To][x]
  <2>1. e \in Proper /\ f \in Proper /\ s[x] = FileInfo(j, e) /\ t[x] = FileInfo(k, f)
        /\ s[x].type = e.type /\ t[x].type = f.type
    BY <1>2
  <2>2. Listed(s[x]) <=> Listed(t[x])
    <3>1. ASSUME Listed(s[x]), ~Listed(t[x]) PROVE FALSE
      <4>1. Transfer(s[x], Direction, x) \in new
        BY <1>1, <3>1 DEF PlanOneWay
      <4> QED
        BY <1>6, <4>1 DEF Transfer, Act
    <3>2. ASSUME ~Listed(s[x]), Listed(t[x]) PROVE FALSE
      <4>1. Act("delete", Direction, x) \in new
        BY <1>1, <3>2 DEF PlanOneWay
      <4> QED
        BY <1>6, <4>1 DEF Act
    <3> QED
      BY <3>1, <3>2
  <2>3. e.type = f.type
    BY <1>6, <2>1, <2>2, FromTo DEF Mismatched, Present, Listed, Side
  <2>4. CASE e.type # "file"
    BY <2>1, <2>3, <2>4, ProperFields DEF Alike, Same
  <2>5. CASE e.type = "file"
    <3>1. ~FileModified(s[x], t[x])
      <4>1. FileModified(s[x], t[x]) => Act("copy", Direction, x) \in new
        BY <1>1, <2>1, <2>3, <2>5 DEF PlanOneWay, IsFile
      <4> QED
        BY <1>6, <4>1 DEF Act
    <3>2. e.mtime = f.mtime => e.content = f.content
      BY <2>3, <2>5, FromTo DEF OneSideInv, Side
    <3>3. e.content = f.content
      <4> HIDE DEF e, f
      <4>1. ~FileModified(FileInfo(j, e), FileInfo(k, f)) /\ f.type = "file"
        BY <2>1, <2>3, <2>5, <3>1
      <4> QED
        BY ONLY ToldApart, <1>4, <2>1, <2>5, <3>2, <4>1, DifferenceSeen
    <3> QED
      BY <2>3, <3>3 DEF Alike, Same
  <2> QED
    BY <2>4, <2>5
<1> QED
  BY <1>5, <1>6

LEMMA MirrorKept ==
  ASSUME NEW p \in Proc, MirrorInv(p), rule' = rule, tree'[From] = tree[From], plan'[p] \subseteq plan[p],
         \A x \in Path \ Ignored :
           \/ Alike(x)' \/ BeingMade(p, x)'
           \/ tree'[To][x] = tree[To][x] /\ ~BeingMade(p, x) /\ (Pending(p, x) => Pending(p, x)'),
         pc'[p] = "copying" => /\ First(plan'[p]).type = "copy"
                               /\ buffer'[p] = tree[From][First(plan'[p]).path].content
  PROVE  MirrorInv(p)'
<1>1. From' = From /\ To' = To
  BY DEF From, To
<1>2. \A a \in plan'[p] : Fits(a)'
  BY <1>1 DEF MirrorInv, Fits
<1>3. ASSUME NEW x \in Path \ Ignored, tree'[To][x] = tree[To][x]
      PROVE  (Alike(x) => Alike(x)') /\ (Mismatched(x) => Mismatched(x)')
  <2>1. \A side \in Side : tree'[side][x] = tree[side][x]
    BY <1>3, FromTo DEF Side
  <2> QED
    BY <1>1, <1>3, <2>1 DEF Alike, Mismatched, Present, Side
<1> QED
  BY <1>1, <1>2, <1>3 DEF MirrorInv

(* Directories on the way to what is mirrored are alike once they are      *)
(* there.                                                                  *)
LEMMA AlikeDirectories ==
  ASSUME ServiceInv, ShapeInv, rule' = rule, tree'[From] = tree[From], tree'[To] \in ATree,
         NEW x \in Path, tree[From][x].type # "none",
         NEW y \in Ancestors[x], tree'[To][y].type = "dir"
  PROVE  Alike(y)'
<1>1. y \in Path /\ tree[From][y].type = "dir" /\ tree[From] \in ATree
  BY FromTo DEF ShapeInv, Shaped, WellFormed, Present, ServiceInv
<1>2. tree[From][y] = Directory /\ tree'[To][y] = Directory
  BY <1>1, ProperFields DEF ATree
<1> QED
  BY <1>2 DEF Alike, Same, From, To

LEMMA MkdirMirrors ==
  ASSUME ServiceInv, ServiceInv', RestInv, ShapeInv, OneSideInv, NEW p \in Proc, NEW a \in plan[p], MirrorInv(p),
         Mkdir(p, a), rule' = rule, pc'[p] # "idle"
  PROVE  MirrorInv(p)'
<1> DEFINE dirs == Ancestors[a.path] \cup {a.path}
           u == MkdirAll(tree[To], dirs)
<1>1. Destination(a) = To /\ a.path \in Path /\ a.type = "mkdir" /\ tree[From][a.path].type = "dir" /\ pc[p] = "exec"
  BY FromTo DEF OneSideInv, ServiceInv, Sound, Action, MirrorInv, Fits, Mkdir, Executes
<1>2. CanMkdirAll(tree[To], dirs)
  BY <1>1 DEF Mkdir, Fail, End, Goto, ServiceInv
<1>3. tree' = [tree EXCEPT ![To] = u] /\ plan' = [plan EXCEPT ![p] = @ \ {a}] /\ pc' = pc
  BY <1>1, <1>2 DEF Mkdir, Put, Done
<1>4. tree'[To] = u /\ tree'[From] = tree[From] /\ plan'[p] = plan[p] \ {a}
  BY <1>3, FromTo DEF ServiceInv
<1>5. tree[To] \in ATree /\ tree'[To] \in ATree /\ tree[From] \in ATree
  BY FromTo DEF ServiceInv
<1>6. ASSUME NEW x \in dirs PROVE Alike(x)'
  <2>1. tree'[To][x].type = "dir"
    BY <1>1, <1>2, <1>4, <1>5, EntryTypes, ProperFields DEF MkdirAll, CanMkdirAll, ATree
  <2>2. CASE x \in Ancestors[a.path]
    BY <1>1, <1>4, <1>5, <2>1, <2>2, AlikeDirectories
  <2>3. CASE x = a.path
    <3>1. tree[From][x] = Directory /\ tree'[To][x] = Directory
      BY <1>1, <1>5, <2>1, <2>3, ProperFields DEF ATree
    <3> QED
      BY <1>4, <3>1 DEF Alike, Same, From, To
  <2> QED
    BY <2>2, <2>3
<1>7. ASSUME NEW x \in Path \ dirs
      PROVE  tree'[To][x] = tree[To][x] /\ ~BeingMade(p, x) /\ (Pending(p, x) => Pending(p, x)')
  BY <1>1, <1>4 DEF MkdirAll, BeingMade, Pending
<1> HIDE DEF dirs, u
<1>8. plan'[p] \subseteq plan[p] /\ pc'[p] # "copying"
  BY <1>1, <1>3, <1>4
<1> QED
  BY <1>4, <1>6, <1>7, <1>8, MirrorKept

LEMMA RemoveMirrors ==
  ASSUME ServiceInv, ServiceInv', RestInv, ShapeInv, OneSideInv, NEW p \in Proc, NEW a \in plan[p], MirrorInv(p),
         Remove(p, a), rule' = rule, pc'[p] # "idle"
  PROVE  MirrorInv(p)'
<1> DEFINE u == Delete(tree[To], a.path)
<1>1. Destination(a) = To /\ a.path \in Path /\ a.type = "delete" /\ tree[From][a.path].type = "none" /\ pc[p] = "exec"
  BY FromTo DEF OneSideInv, ServiceInv, Sound, Action, MirrorInv, Fits, Remove, Executes
<1>2. CanDelete(KindOf[To], tree[To], a.path)
  BY <1>1 DEF Remove, Fail, End, Goto, ServiceInv
<1>3. tree' = [tree EXCEPT ![To] = u] /\ plan' = [plan EXCEPT ![p] = @ \ {a}] /\ pc' = pc
  BY <1>1, <1>2 DEF Remove, Put, Done
<1>4. tree'[To] = u /\ tree'[From] = tree[From] /\ plan'[p] = plan[p] \ {a} /\ tree[From] \in ATree
  BY <1>3, FromTo DEF ServiceInv
<1>5. ASSUME NEW x \in Path, x = a.path \/ a.path \in Ancestors[x] PROVE Alike(x)'
  <2>1. tree[From][x].type = "none"
    BY <1>1, <1>5, FromTo DEF ShapeInv, Shaped, WellFormed, Present
  <2>2. tree[From][x] = Nothing /\ tree'[To][x] = Nothing
    BY <1>4, <1>5, <2>1, ProperFields DEF ATree, Delete
  <2> QED
    BY <1>4, <2>2 DEF Alike, Same, From, To
<1>6. ASSUME NEW x \in Path, x # a.path, a.path \notin Ancestors[x]
      PROVE  tree'[To][x] = tree[To][x] /\ ~BeingMade(p, x) /\ (Pending(p, x) => Pending(p, x)')
  BY <1>1, <1>4, <1>6 DEF Delete, BeingMade, Pending
<1> HIDE DEF u
<1>7. plan'[p] \subseteq plan[p] /\ pc'[p] # "copying"
  BY <1>1, <1>3, <1>4
<1> QED
  BY <1>4, <1>5, <1>6, <1>7, MirrorKept

LEMMA BeginCopyMirrors ==
  ASSUME ServiceInv, ServiceInv', RestInv, ShapeInv, OneSideInv, NEW p \in Proc, NEW a \in plan[p], MirrorInv(p),
         BeginCopy(p, a), rule' = rule, pc'[p] # "idle"
  PROVE  MirrorInv(p)'
<1> DEFINE u == BeginWrite(tree[To], a.path, clock)
<1>1. /\ Destination(a) = To /\ Origin(a) = From /\ a.path \in Path /\ a.type = "copy"
      /\ tree[From][a.path].type = "file" /\ pc[p] = "exec" /\ a = First(plan[p])
  BY FromTo DEF OneSideInv, ServiceInv, Sound, Action, MirrorInv, Fits, BeginCopy, Executes
<1>2. CanRead(a) /\ (KindOf[To] = "local" => CanBeginWrite(tree[To], a.path))
  BY <1>1 DEF BeginCopy, Fail, End, Goto, ServiceInv
<1>3. /\ buffer' = [buffer EXCEPT ![p] = tree[From][a.path].content] /\ plan' = plan
      /\ pc' = [pc EXCEPT ![p] = "copying"]
      /\ IF KindOf[To] = "local" THEN tree' = [tree EXCEPT ![To] = u] ELSE tree' = tree
  BY <1>1, <1>2 DEF BeginCopy, Put, Goto
<1>4. /\ buffer'[p] = tree[From][a.path].content /\ pc'[p] = "copying"
      /\ tree'[From] = tree[From] /\ tree'[To] = IF KindOf[To] = "local" THEN u ELSE tree[To]
  BY <1>3, FromTo DEF ServiceInv
<1>5. tree[To] \in ATree /\ tree'[To] \in ATree
  BY FromTo DEF ServiceInv
<1>6. To' = To
  BY DEF To, From
<1>7. ASSUME NEW x \in Path
      PROVE  \/ Alike(x)' \/ BeingMade(p, x)'
             \/ tree'[To][x] = tree[To][x] /\ ~BeingMade(p, x) /\ (Pending(p, x) => Pending(p, x)')
  <2>1. ~BeingMade(p, x) /\ (Pending(p, x) => Pending(p, x)')
    BY <1>1, <1>3 DEF BeingMade, Pending
  <2>2. CASE KindOf[To] # "local"
    BY <1>4, <2>1, <2>2
  <2>3. CASE KindOf[To] = "local" /\ x = TmpOf[a.path]
    BY <1>1, <1>3, <1>4, <1>6, <2>3 DEF BeingMade
  <2>4. CASE KindOf[To] = "local" /\ x # TmpOf[a.path] /\ x \notin Ancestors[a.path]
    BY <1>4, <2>1, <2>4 DEF BeginWrite, MkdirAll
  <2>5. CASE KindOf[To] = "local" /\ x # TmpOf[a.path] /\ x \in Ancestors[a.path]
    <3>1. tree'[To][x].type = "dir"
      BY <1>1, <1>2, <1>4, <1>5, <2>5, EntryTypes, ProperFields
         DEF BeginWrite, MkdirAll, CanBeginWrite, CanMkdirAll, ATree
    <3> QED
      BY <1>1, <1>4, <1>5, <2>5, <3>1, AlikeDirectories
  <2> QED
    BY <2>2, <2>3, <2>4, <2>5
<1> HIDE DEF u
<1>8. /\ plan'[p] \subseteq plan[p] /\ First(plan'[p]).type = "copy"
      /\ buffer'[p] = tree[From][First(plan'[p]).path].content
  BY <1>1, <1>3, <1>4
<1> QED
  BY <1>4, <1>7, <1>8, MirrorKept

LEMMA FinishCopyMirrors ==
  ASSUME ServiceInv, ServiceInv', RestInv, ShapeInv, OneSideInv, NEW p \in Proc, MirrorInv(p),
         FinishCopy(p), rule' = rule, pc'[p] # "idle"
  PROVE  MirrorInv(p)'
<1> SUFFICES ASSUME NEW a, a = First(plan[p]) PROVE MirrorInv(p)'
  OBVIOUS
<1> DEFINE local == KindOf[To] = "local"
           u == IF local THEN FinishWrite(tree[To], a.path, buffer[p], clock + 1)
                ELSE Upload(tree[To], a.path, buffer[p], clock + 1)
<1>1. /\ a \in plan[p] /\ Destination(a) = To /\ a.path \in Path /\ a.type = "copy"
      /\ tree[From][a.path].type = "file" /\ buffer[p] = tree[From][a.path].content
  BY FromTo DEF OneSideInv, ServiceInv, Sound, Action, MirrorInv, Fits, FinishCopy
<1>2. IF local THEN CanFinishWrite(tree[To], a.path) ELSE CanUpload(tree[To], a.path)
  BY <1>1 DEF FinishCopy, End, Goto, ServiceInv
<1>3. /\ tree' = [tree EXCEPT ![To] = u] /\ plan' = [plan EXCEPT ![p] = @ \ {a}]
      /\ pc' = [pc EXCEPT ![p] = "exec"]
  BY <1>1, <1>2 DEF FinishCopy, Put, Done, Goto
<1>4. tree'[To] = u /\ tree'[From] = tree[From] /\ plan'[p] = plan[p] \ {a} /\ pc'[p] = "exec"
  BY <1>3, FromTo DEF ServiceInv
<1>5. tree[To] \in ATree /\ tree'[To] \in ATree /\ tree[From] \in ATree
  BY FromTo DEF ServiceInv
<1>6. Alike(a.path)'
  <2>1. FinishWrite(tree[To], a.path, buffer[p], clock + 1)[a.path] = File(buffer[p], clock + 1)
    BY <1>1, <1>5 DEF FinishWrite, DropTmp
  <2>2. Upload(tree[To], a.path, buffer[p], clock + 1)[a.path] = File(buffer[p], clock + 1)
    BY <1>1, <1>5 DEF Upload, MkdirAll
  <2>3. tree'[To][a.path] = File(buffer[p], clock + 1)
    BY <1>4, <2>1, <2>2
  <2>4. From' = From /\ To' = To
    BY DEF From, To
  <2>5. tree'[To][a.path].type = "file" /\ tree'[To][a.path].content = buffer[p]
    BY <2>3, EntryTypes
  <2>6. Same(tree'[From][a.path], tree'[To][a.path])
    BY <1>1, <1>4, <2>5 DEF Same
  <2> QED
    BY <2>4, <2>6 DEF Alike
<1>7. ASSUME local, TmpOf[a.path] # NoPath PROVE Alike(TmpOf[a.path])'
  <2> DEFINE tmp == TmpOf[a.path]
  <2>1. tmp \in Path /\ tree[From][tmp].type = "none" /\ tree[To][tmp].type = "file"
    BY <1>1, <1>2, <1>7 DEF OneSideInv, CanFinishWrite
  <2>2. ~Occupied(tree[To], tmp)
    BY <2>1, FromTo DEF Occupied, ShapeInv, Shaped, WellFormed, Present
  <2>3. tmp # a.path
    BY <1>1, <2>1
  <2>4. tree'[To][tmp] = Nothing /\ tree[From][tmp] = Nothing
    <3>1. tree[From][tmp] = Nothing
      BY <1>5, <2>1, ProperFields DEF ATree
    <3>2. FinishWrite(tree[To], a.path, buffer[p], clock + 1)[tmp] = Nothing
      <4>1. DropTmp(tree[To], a.path)[tmp] = Nothing
        BY <1>5, <1>7, <2>1, <2>2 DEF DropTmp, ATree
      <4>2. DropTmp(tree[To], a.path) \in [Path -> Proper]
        BY <1>1, <1>5, DropTmpTree DEF ATree
      <4> QED
        BY <2>1, <2>3, <4>1, <4>2 DEF FinishWrite
    <3> QED
      BY <1>4, <1>7, <3>1, <3>2
  <2> QED
    BY <1>4, <2>4 DEF Alike, Same, From, To
<1>8. ASSUME ~local, NEW x \in Ancestors[a.path] PROVE Alike(x)'
  <2>1. x \in Path /\ x # a.path
    BY <1>1
  <2>2. tree'[To][x].type = "dir"
    <3>1. tree[To][x] \in Proper /\ tree[To][x].type # "file"
      BY <1>2, <1>5, <1>8, <2>1 DEF CanUpload, CanMkdirAll, ATree
    <3>2. tree'[To] = Upload(tree[To], a.path, buffer[p], clock + 1)
      BY <1>4, <1>8
    <3>3. tree'[To][x] = IF tree[To][x].type = "none" THEN Directory ELSE tree[To][x]
      BY <1>1, <1>8, <2>1, <3>2 DEF Upload, MkdirAll
    <3> QED
      BY <3>1, <3>3, EntryTypes, ProperFields
  <2> QED
    BY <1>1, <1>4, <1>5, <1>8, <2>2, AlikeDirectories
<1>9. ASSUME NEW x \in Path, x # a.path, IF local THEN x # TmpOf[a.path] ELSE x \notin Ancestors[a.path]
      PROVE  tree'[To][x] = tree[To][x] /\ ~BeingMade(p, x) /\ (Pending(p, x) => Pending(p, x)')
  <2>1. tree'[To][x] = tree[To][x]
    BY <1>1, <1>4, <1>5, <1>9 DEF FinishWrite, DropTmp, Upload, MkdirAll
  <2>2. ~BeingMade(p, x)
    BY <1>9 DEF BeingMade
  <2>3. Pending(p, x) => Pending(p, x)'
    BY <1>4, <1>9 DEF Pending
  <2> QED
    BY <2>1, <2>2, <2>3
<1> HIDE DEF u
<1>10. plan'[p] \subseteq plan[p] /\ pc'[p] # "copying"
  BY <1>4
<1>11. \A x \in Path \ Ignored :
           \/ Alike(x)' \/ BeingMade(p, x)'
           \/ tree'[To][x] = tree[To][x] /\ ~BeingMade(p, x) /\ (Pending(p, x) => Pending(p, x)')
  BY <1>6, <1>7, <1>8, <1>9
<1> QED
  BY <1>4, <1>10, <1>11, MirrorKept

LEMMA StepMirrors ==
  ASSUME ToldApart, ServiceInv, ServiceInv', RestInv, ShapeInv, OneSideInv, QuietInv, rule' = rule,
         NEW q \in Proc, Step(q), quiet'[q]
  PROVE  /\ outcome'[q] = "ok" => pc'[q] = "idle"
         /\ pc'[q] = "listing" => listed'[q] = Listing(KindOf["source"], tree'["source"])
         /\ pc'[q] \in {"planned", "exec", "copying"} => MirrorInv(q)'
         /\ outcome'[q] = "ok" => \A x \in Path \ Ignored : Alike(x)' \/ Mismatched(x)'
<1> USE DEF QuietInv
<1>1. ASSUME NEW result, End(q, result) PROVE pc'[q] = "idle" /\ outcome'[q] = result
  BY <1>1 DEF End, Goto, ServiceInv, RestInv
<1>2. CASE PlanSync(q)
  BY <1>2 DEF PlanSync, Goto, ServiceInv, RestInv
<1>3. CASE ListTarget(q)
  <2>1. /\ pc[q] = "listing" /\ pc'[q] = "planned" /\ tree' = tree /\ outcome'[q] = outcome[q] /\ quiet[q]
        /\ plan'[q] = Plan(rule, listed[q], Listing(KindOf["target"], tree["target"]))
    BY <1>3 DEF ListTarget, Goto, ServiceInv
  <2>2. listed[q] = Listing(KindOf["source"], tree["source"])
    BY <2>1
  <2>3. /\ \A a \in plan'[q] : Fits(a)
        /\ \A x \in Path \ Ignored :
              Alike(x) \/ Mismatched(x) \/ \E a \in plan'[q] : a.path = x /\ a.type \in {"mkdir", "copy", "delete"}
    BY <2>1, <2>2, PlanMirrors
  <2>4. MirrorInv(q)'
    BY <2>1, <2>3 DEF MirrorInv, Fits, Alike, Mismatched, Present, Pending, From, To
  <2> QED
    BY <2>1, <2>4
<1>4. CASE AcquireLock(q)
  <2>1. CASE lock \in {NoProc, q}
    <3>1. /\ pc[q] = "planned" /\ pc'[q] = "exec" /\ tree' = tree /\ outcome'[q] = outcome[q] /\ quiet[q]
          /\ plan'[q] = plan[q]
      BY <1>4, <2>1 DEF AcquireLock, Goto, ServiceInv
    <3>2. MirrorInv(q)'
      BY <3>1 DEF MirrorInv, Fits, Alike, Mismatched, Present, Pending, BeingMade, From, To
    <3> QED
      BY <3>1, <3>2
  <2>2. CASE lock \notin {NoProc, q}
    BY <1>1, <1>4, <2>2 DEF AcquireLock
  <2> QED
    BY <2>1, <2>2
<1>5. ASSUME \/ \E a \in plan[q] : ExecuteAction(q, a)
             \/ FinishCopy(q)
      PROVE  quiet[q] /\ pc[q] \in {"exec", "copying"} /\ (pc'[q] = "idle" \/ outcome' = outcome)
             /\ (pc'[q] = "idle" => outcome'[q] # "ok")
  <2>1. quiet' = quiet \/ \E side, t : Put(q, side, t)
    BY <1>5 DEF ExecuteAction, BeginCopy, Mkdir, Remove, Pass, Fail, FinishCopy
  <2>2. quiet[q]
    BY <2>1, Zenon DEF Put
  <2>3. pc[q] \in {"exec", "copying"}
    BY <1>5 DEF ExecuteAction, BeginCopy, Mkdir, Remove, Pass, FinishCopy, Executes
  <2>4. End(q, "failed") \/ (outcome' = outcome /\ (pc' = pc \/ Goto(q, "exec") \/ Goto(q, "copying")))
    BY <1>5 DEF ExecuteAction, BeginCopy, Mkdir, Remove, Pass, Fail, FinishCopy
  <2> QED
    BY <1>1, <2>2, <2>3, <2>4 DEF Goto, ServiceInv
<1>6. ASSUME NEW a \in plan[q], Pass(q, a) PROVE MirrorInv(q)'
  <2>1. /\ pc[q] = "exec" /\ pc'[q] = "exec" /\ tree' = tree /\ plan'[q] = plan[q] \ {a}
        /\ a.type \in {"conflict", "skip"}
    BY <1>6 DEF Pass, Executes, Done, ServiceInv
  <2>2. MirrorInv(q)
    BY <1>5, <1>6, <2>1 DEF ExecuteAction
  <2>3. \A x : ~BeingMade(q, x) /\ (Pending(q, x) => Pending(q, x)')
    BY <2>1 DEF BeingMade, Pending
  <2> QED
    BY <2>1, <2>2, <2>3, MirrorKept
<1>7. ASSUME \/ \E a \in plan[q] : ExecuteAction(q, a)
             \/ FinishCopy(q),
             pc'[q] # "idle"
      PROVE  MirrorInv(q)'
  <2>1. MirrorInv(q)
    BY <1>5, <1>7
  <2> QED
    BY <1>6, <1>7, <2>1, MkdirMirrors, RemoveMirrors, BeginCopyMirrors, FinishCopyMirrors DEF ExecuteAction
<1>8. ASSUME \/ \E a \in plan[q] : ExecuteAction(q, a)
             \/ FinishCopy(q)
      PROVE  outcome'[q] # "ok" /\ pc'[q] # "listing"
  <2>1. pc'[q] # "listing"
    <3>1. \/ \E result : End(q, result)
          \/ Goto(q, "exec") \/ Goto(q, "copying") \/ (pc' = pc /\ pc[q] = "exec")
      BY <1>8 DEF ExecuteAction, BeginCopy, Mkdir, Remove, Pass, Fail, FinishCopy, Executes
    <3> QED
      BY <1>1, <3>1 DEF Goto, ServiceInv
  <2> QED
    BY <1>5, <1>8, <2>1
<1>9. CASE Finish(q)
  <2>1. /\ pc[q] = "exec" /\ plan[q] = {} /\ pc'[q] = "idle" /\ tree' = tree /\ quiet[q]
    BY <1>1, <1>9 DEF Finish
  <2>2. \A x \in Path \ Ignored : Alike(x) \/ Mismatched(x)
    BY <2>1 DEF MirrorInv, Pending, BeingMade
  <2> QED
    BY <2>1, <2>2 DEF Alike, Mismatched, Present, From, To
<1> QED
  BY <1>2, <1>3, <1>4, <1>7, <1>8, <1>9 DEF Step

LEMMA NextQuietInv ==
  ASSUME ToldApart, ServiceInv, ServiceInv', RestInv, ShapeInv, OneSideInv, QuietInv, [Next]_vars
  PROVE  QuietInv'
<1>1. rule' = rule
  BY OutsideKept
<1> SUFFICES ASSUME NEW q \in Proc
             PROVE  /\ outcome'[q] = "ok" => pc'[q] = "idle"
                    /\ quiet'[q] =>
                         /\ pc'[q] = "listing" => listed'[q] = Listing(KindOf["source"], tree'["source"])
                         /\ pc'[q] \in {"planned", "exec", "copying"} => MirrorInv(q)'
                         /\ outcome'[q] = "ok" => \A x \in Path \ Ignored : Alike(x)' \/ Mismatched(x)'
  BY DEF QuietInv
<1>2. CASE Step(q)
  <2>1. outcome'[q] = "ok" => pc'[q] = "idle"
    <3>1. ASSUME NEW result, End(q, result) PROVE pc'[q] = "idle"
      BY <3>1 DEF End, Goto, ServiceInv
    <3>2. \/ \E result : End(q, result)
          \/ outcome' = outcome /\ pc[q] # "idle"
          \/ outcome' = [outcome EXCEPT ![q] = "none"]
      BY <1>2 DEF Step, ExecuteAction, PlanSync, ListTarget, AcquireLock, BeginCopy, Mkdir, Remove,
                  Pass, FinishCopy, Finish, Fail, Executes
    <3> QED
      BY <3>1, <3>2 DEF QuietInv, RestInv
  <2> QED
    BY <1>1, <1>2, <2>1, StepMirrors
<1>3. CASE ~quiet'[q] /\ pc'[q] = "idle"
  BY <1>3
<1>4. CASE Stays(q) /\ Undisturbed(q)
  <2>1. quiet'[q] => quiet[q] /\ tree' = tree
    BY <1>4 DEF Undisturbed
  <2>2. ASSUME tree' = tree PROVE MirrorInv(q) => MirrorInv(q)'
    BY <1>1, <1>4, <2>2 DEF MirrorInv, Fits, Alike, Mismatched, Present, Pending, BeingMade, From, To, Stays
  <2>3. ASSUME tree' = tree, NEW x PROVE Alike(x) \/ Mismatched(x) => Alike(x)' \/ Mismatched(x)'
    BY <1>1, <2>3 DEF Alike, Mismatched, Present, From, To
  <2> QED
    BY <1>4, <2>1, <2>2, <2>3 DEF QuietInv, Stays, Undisturbed
<1> QED
  BY <1>2, <1>3, <1>4, QuietStep

(* The processes of a one-way rule keep to their side, and a quiet run's   *)
(* work is in its plan.                                                    *)
LEMMA OneSideKept ==
  ASSUME TmpFree, ToldApart
  PROVE  Spec => [](ServiceInv /\ RestInv /\ ShapeInv /\ (rule.mode # "two-way" => OneSideInv /\ QuietInv))
<1> DEFINE Inv == ServiceInv /\ RestInv /\ ShapeInv /\ (rule.mode # "two-way" => OneSideInv /\ QuietInv)
<1>1. Init => Inv
  <2> SUFFICES ASSUME Init PROVE Inv
    OBVIOUS
  <2>1. ServiceInv /\ RestInv /\ ShapeInv
    BY InitBase
  <2>2. ASSUME rule.mode # "two-way" PROVE OneSideInv
    <3>1. tree \in Start /\ \A p \in Proc : plan[p] = {}
      BY DEF Init
    <3>2. \A x \in Path : TmpOf[x] # NoPath => tree[From][TmpOf[x]].type = "none"
      BY <3>1, FromTo DEF TmpFree
    <3> QED
      BY <2>2, <3>1, <3>2 DEF OneSideInv, ToldApart
  <2>3. QuietInv
    BY DEF Init, QuietInv
  <2> QED
    BY <2>1, <2>2, <2>3
<1>2. Inv /\ [Next]_vars => Inv'
  BY NextServiceInv, NextRestInv, NextShapeInv, NextOneSideInv, NextQuietInv, OutsideKept
<1> HIDE DEF Inv
<1>3. Spec => []Inv
  BY <1>1, <1>2, PTL DEF Spec
<1> QED
  BY <1>3 DEF Inv

(* A one-way run that ends well, with nobody interfering, leaves a mirror  *)
(* (docs/usage.md:301), but for paths that are a file on one side and a    *)
(* directory on the other: whatever differs when the plan is made has an   *)
(* action in it (planner.go:59-142), and ExecuteSync carries out each one  *)
(* (sync.go:200-230) without undoing what another has done.  Earlier runs  *)
(* may have crashed anywhere, users may change what they like before.      *)
THEOREM OneWayRunMirrors ==
  ASSUME TmpFree, ToldApart
  PROVE  Spec => []OneWayMirrors
<1> DEFINE Inv == ServiceInv /\ RestInv /\ ShapeInv /\ (rule.mode # "two-way" => OneSideInv /\ QuietInv)
<1>1. Spec => []Inv
  BY OneSideKept
<1>2. Inv => OneWayMirrors
  <2> SUFFICES ASSUME Inv, NEW p \in Proc, outcome[p] = "ok", quiet[p], rule.mode # "two-way",
                      NEW x \in Differing
               PROVE  Mismatched(x)
    BY DEF OneWayMirrors
  <2>1. x \in Path \ Ignored /\ ~Same(tree["source"][x], tree["target"][x])
    BY DEF Differing
  <2>2. ~Alike(x)
    BY <2>1, FromTo DEF Alike, Same, Side
  <2> QED
    BY <2>1, <2>2 DEF QuietInv
<1> HIDE DEF Inv
<1> QED
  BY <1>1, <1>2, PTL
-----------------------------------------------------------------------------
(* The order of a plan.                                                    *)
(* What lies in a directory lies deeper than the directory.                *)
LEMMA DeeperBelow ==
  /\ \A x \in Path : Depth(x) \in Nat /\ Depth(x) <= Cardinality(Path)
  /\ Cardinality(Path) \in Nat
  /\ \A x \in Path : \A y \in Ancestors[x] : Depth(y) < Depth(x)
<1>1. ASSUME NEW x \in Path
      PROVE  /\ IsFiniteSet(Ancestors[x]) /\ Depth(x) \in Nat /\ Depth(x) <= Cardinality(Path)
             /\ Cardinality(Path) \in Nat
  <2>1. Ancestors[x] \in SUBSET Path
    OBVIOUS
  <2>2. IsFiniteSet(Ancestors[x]) /\ Cardinality(Ancestors[x]) <= Cardinality(Path)
    BY <2>1, FS_Subset
  <2> QED
    BY <2>2, FS_CardinalityType DEF Depth
<1>2. ASSUME NEW x \in Path, NEW y \in Ancestors[x] PROVE Depth(y) < Depth(x)
  <2>1. y \in Path /\ Ancestors[y] \in SUBSET Ancestors[x] /\ y \notin Ancestors[y]
    OBVIOUS
  <2>2. /\ Cardinality(Ancestors[y]) <= Cardinality(Ancestors[x])
        /\ Cardinality(Ancestors[x]) = Cardinality(Ancestors[y]) => Ancestors[x] = Ancestors[y]
    BY <1>1, <2>1, FS_Subset
  <2>3. Cardinality(Ancestors[x]) # Cardinality(Ancestors[y])
    BY <2>1, <2>2
  <2> QED
    BY <1>1, <2>1, <2>2, <2>3 DEF Depth
<1>3. Cardinality(Path) \in Nat
  BY FS_CardinalityType
<1> QED
  BY <1>1, <1>2, <1>3

(* First is before all the rest of a plan that goes one way.               *)
LEMMA FirstIsBefore ==
  ASSUME NEW S \in SUBSET Action, S # {}, \A a, b \in S : a.direction = b.direction
  PROVE  First(S) \in S /\ \A b \in S \ {First(S)} : Before(First(S), b)
<1> DEFINE T(a) == TypeOrder[a.type]
           D(a) == IF a.type = "delete" THEN Cardinality(Path) - Depth(a.path) ELSE Depth(a.path)
           R(a) == Rank[a.path]
<1>1. \A a \in S : T(a) \in Nat /\ D(a) \in Nat /\ R(a) \in Nat
  BY DeeperBelow DEF Action, TypeOrder
<1>2. \A a, b \in S : T(a) = T(b) <=> a.type = b.type
  BY DEF Action, TypeOrder
<1>3. ASSUME NEW a \in S, NEW b \in S
      PROVE  Before(a, b) <=> \/ T(a) < T(b)
                              \/ T(a) = T(b) /\ (D(a) < D(b) \/ (D(a) = D(b) /\ R(a) < R(b)))
  <2>1. /\ Depth(a.path) \in Nat /\ Depth(b.path) \in Nat /\ Cardinality(Path) \in Nat
        /\ Depth(a.path) <= Cardinality(Path) /\ Depth(b.path) <= Cardinality(Path)
    BY DeeperBelow DEF Action
  <2>2. CASE a.type # b.type
    <3>1. T(a) # T(b) /\ (Before(a, b) <=> T(a) < T(b))
      BY <1>2, <2>2 DEF Before
    <3> QED
      BY <3>1
  <2>3. CASE a.type = b.type
    <3>1. T(a) = T(b) /\ T(a) \in Nat /\ ~(T(a) < T(b))
      BY <1>1, <2>3
    <3>2. CASE a.type = "delete"
      <4>1. Before(a, b) <=> Depth(a.path) > Depth(b.path) \/ (Depth(a.path) = Depth(b.path) /\ R(a) < R(b))
        BY <2>3, <3>1, <3>2 DEF Before
      <4>2. D(a) = Cardinality(Path) - Depth(a.path) /\ D(b) = Cardinality(Path) - Depth(b.path)
        BY <2>3, <3>2
      <4> HIDE DEF T, D, R
      <4> QED
        BY <2>1, <3>1, <4>1, <4>2
    <3>3. CASE a.type # "delete"
      <4>1. Before(a, b) <=> Depth(a.path) < Depth(b.path) \/ (Depth(a.path) = Depth(b.path) /\ R(a) < R(b))
        BY <2>3, <3>1, <3>3 DEF Before
      <4>2. D(a) = Depth(a.path) /\ D(b) = Depth(b.path)
        BY <2>3, <3>3
      <4> HIDE DEF T, D, R
      <4> QED
        BY <3>1, <4>1, <4>2
    <3> QED
      BY <3>2, <3>3
  <2> QED
    BY <2>2, <2>3
<1> HIDE DEF T, D
<1>4. PICK m \in {T(a) : a \in S} : \A k \in {T(a) : a \in S} : m <= k
  <2>1. {T(a) : a \in S} \subseteq Nat /\ {T(a) : a \in S} # {}
    BY <1>1
  <2> QED
    BY <2>1, LeastOf
<1> DEFINE S1 == {a \in S : T(a) = m}
<1>5. PICK n \in {D(a) : a \in S1} : \A k \in {D(a) : a \in S1} : n <= k
  <2>1. {D(a) : a \in S1} \subseteq Nat /\ {D(a) : a \in S1} # {}
    BY <1>1, <1>4
  <2> QED
    BY <2>1, LeastOf
<1> DEFINE S2 == {a \in S1 : D(a) = n}
<1>6. PICK r \in {R(a) : a \in S2} : \A k \in {R(a) : a \in S2} : r <= k
  <2>1. {R(a) : a \in S2} \subseteq Nat /\ {R(a) : a \in S2} # {}
    BY <1>1, <1>5
  <2> QED
    BY <2>1, LeastOf
<1>7. PICK a \in S2 : R(a) = r
  BY <1>6
<1>8. ASSUME NEW b \in S \ {a} PROVE Before(a, b)
  <2>1. m <= T(b) /\ (T(b) = m => n <= D(b)) /\ (T(b) = m /\ D(b) = n => r <= R(b))
    BY <1>4, <1>5, <1>6
  <2>2. T(a) = m /\ D(a) = n /\ R(a) = r /\ a \in S
    BY <1>7
  <2>3. T(a) = T(b) => R(a) # R(b)
    <3>1. ASSUME T(a) = T(b), R(a) = R(b) PROVE a = b
      <4>1. a.type = b.type
        BY <1>2, <2>2, <3>1, Zenon
      <4>2. a.path = b.path /\ a.direction = b.direction
        BY <2>2, <3>1 DEF Action
      <4> QED
        BY <2>2, <4>1, <4>2 DEF Action
    <3> QED
      BY <3>1
  <2>4. T(a) <= T(b) /\ T(a) \in Nat /\ T(b) \in Nat /\ D(a) \in Nat /\ D(b) \in Nat
        /\ R(a) \in Nat /\ R(b) \in Nat
        /\ (T(b) = T(a) => D(a) <= D(b)) /\ (T(b) = T(a) /\ D(b) = D(a) => R(a) <= R(b))
    BY <1>1, <2>1, <2>2
  <2>5. Before(a, b) <=> \/ T(a) < T(b)
                         \/ T(a) = T(b) /\ (D(a) < D(b) \/ (D(a) = D(b) /\ R(a) < R(b)))
    BY <1>3, <2>2
  <2> HIDE DEF R
  <2> QED
    BY <2>3, <2>4, <2>5
<1>9. \E c \in S : \A b \in S \ {c} : Before(c, b)
  BY <1>7, <1>8
<1> QED
  BY <1>9 DEF First
-----------------------------------------------------------------------------
(* The actions of a plan for a path depend on what the listings say of the *)
(* path alone: i on the source, j on the target.                           *)
OneWayAct(i, j, direction, x, a) ==
  \/ Listed(i) /\ ~Listed(j) /\ a = Transfer(i, direction, x)
  \/ Listed(i) /\ Listed(j) /\ i.type # j.type /\ a = Act("conflict", direction, x)
  \/ IsFile(i) /\ IsFile(j) /\ FileModified(i, j) /\ a = Act("copy", direction, x)
  \/ Listed(j) /\ ~Listed(i) /\ a = Act("delete", direction, x)

TwoWayAct(i, j, strategy, x, a) ==
  \/ Listed(i) /\ ~Listed(j) /\ a = Transfer(i, ToTarget, x)
  \/ Listed(j) /\ ~Listed(i) /\ a = Transfer(j, ToSource, x)
  \/ Listed(i) /\ Listed(j) /\ i.type # j.type /\ a = Act("conflict", ToTarget, x)
  \/ IsFile(i) /\ IsFile(j) /\ FileModified(i, j) /\ a = Resolve(strategy, x, i, j)

ActAt(r, i, j, x, a) ==
  \/ r.mode = "one-way-push" /\ OneWayAct(i, j, ToTarget, x, a)
  \/ r.mode = "one-way-pull" /\ OneWayAct(j, i, ToSource, x, a)
  \/ r.mode = "two-way" /\ TwoWayAct(i, j, r.conflict, x, a)

LEMMA PlanAt ==
  ASSUME NEW r \in [mode : Modes, conflict : Strategies], NEW s, NEW t, NEW a
  PROVE  a \in Plan(r, s, t) <=> \E x \in Path : ActAt(r, s[x], t[x], x, a)
<1>1. ASSUME NEW from, NEW to, NEW direction
      PROVE  a \in PlanOneWay(from, to, direction)
               <=> \E x \in Path : OneWayAct(from[x], to[x], direction, x, a)
  BY DEF PlanOneWay, OneWayAct
<1>2. a \in PlanTwoWay(s, t, r.conflict) <=> \E x \in Path : TwoWayAct(s[x], t[x], r.conflict, x, a)
  BY DEF PlanTwoWay, TwoWayAct
<1>3. CASE r.mode = "one-way-push"
  BY <1>1, <1>3 DEF Plan, ActAt
<1>4. CASE r.mode = "one-way-pull"
  BY <1>1, <1>4 DEF Plan, ActAt
<1>5. CASE r.mode = "two-way"
  BY <1>2, <1>5 DEF Plan, ActAt
<1> QED
  BY <1>3, <1>4, <1>5 DEF Modes

LEMMA ResolveIs ==
  ASSUME NEW strategy, NEW x, NEW i, NEW j
  PROVE  Resolve(strategy, x, i, j) \in
           {Act("skip", ToTarget, x), Act("conflict", ToTarget, x),
            Act("copy", ToTarget, x), Act("copy", ToSource, x)}
BY DEF Resolve

(* Actions bring over what one side has, and deletes, which only one-way   *)
(* rules make, take away what the other has alone.                         *)
LEMMA ActAtFits ==
  ASSUME NEW r, NEW i, NEW j, NEW x, NEW a, ActAt(r, i, j, x, a)
  PROVE  LET from == IF a.direction = ToTarget THEN i ELSE j
             to == IF a.direction = ToTarget THEN j ELSE i IN
         /\ a.path = x
         /\ a.type = "mkdir" => from.type = "dir"
         /\ a.type = "copy" => from.type \notin {"none", "dir"}
         /\ a.type = "delete" => r.mode # "two-way" /\ from.type = "none" /\ to.type # "none"
<1> DEFINE From1 == IF a.direction = ToTarget THEN i ELSE j
           To1 == IF a.direction = ToTarget THEN j ELSE i
           Good == /\ a.path = x
                   /\ a.type = "mkdir" => From1.type = "dir"
                   /\ a.type = "copy" => From1.type \notin {"none", "dir"}
                   /\ a.type = "delete" => r.mode # "two-way" /\ From1.type = "none" /\ To1.type # "none"
<1>1. ToSource # ToTarget
  BY DEF ToSource, ToTarget
<1>2. ASSUME NEW f, NEW direction, Listed(f), a = Transfer(f, direction, x),
             (direction = ToTarget /\ f = i) \/ (direction = ToSource /\ f = j)
      PROVE  Good
  BY <1>1, <1>2 DEF Transfer, Act, Listed
<1>3. ASSUME NEW direction, a = Act("conflict", direction, x) PROVE Good
  BY <1>3 DEF Act
<1>4. ASSUME NEW direction, IsFile(i), IsFile(j), a = Act("copy", direction, x) PROVE Good
  BY <1>4 DEF Act, IsFile
<1>5. ASSUME NEW direction, NEW f, NEW g, a = Act("delete", direction, x), Listed(g), ~Listed(f),
             (direction = ToTarget /\ f = i /\ g = j) \/ (direction = ToSource /\ f = j /\ g = i),
             r.mode # "two-way"
      PROVE  Good
  BY <1>1, <1>5 DEF Act, Listed
<1>6. ASSUME IsFile(i), IsFile(j), a = Resolve(r.conflict, x, i, j) PROVE Good
  <2>1. \/ a = Act("skip", ToTarget, x) \/ a = Act("conflict", ToTarget, x)
        \/ a = Act("copy", ToTarget, x) \/ a = Act("copy", ToSource, x)
    BY <1>6, ResolveIs
  <2>2. \A direction : /\ Act("skip", direction, x).type = "skip" /\ Act("skip", direction, x).path = x
                       /\ Act("conflict", direction, x).type = "conflict" /\ Act("conflict", direction, x).path = x
    BY DEF Act
  <2>3. a = Act("copy", ToTarget, x) \/ a = Act("copy", ToSource, x) => Good
    BY <1>4, <1>6
  <2>4. ASSUME NEW direction, a = Act("skip", direction, x) PROVE Good
    BY <2>2, <2>4
  <2> HIDE DEF Good
  <2> QED
    BY <1>3, <2>1, <2>3, <2>4
<1> HIDE DEF Good
<1>7. ASSUME r.mode = "one-way-push" /\ OneWayAct(i, j, ToTarget, x, a) PROVE Good
  <2>1. Listed(i) /\ a = Transfer(i, ToTarget, x) => Good
    BY <1>2
  <2>2. Listed(j) /\ ~Listed(i) /\ a = Act("delete", ToTarget, x) => Good
    BY <1>5, <1>7
  <2>3. IsFile(i) /\ IsFile(j) /\ a = Act("copy", ToTarget, x) => Good
    BY <1>4
  <2>4. a = Act("conflict", ToTarget, x) => Good
    BY <1>3
  <2> QED
    BY <1>7, <2>1, <2>2, <2>3, <2>4 DEF OneWayAct
<1>8. ASSUME r.mode = "one-way-pull" /\ OneWayAct(j, i, ToSource, x, a) PROVE Good
  <2>1. Listed(j) /\ a = Transfer(j, ToSource, x) => Good
    BY <1>2
  <2>2. Listed(i) /\ ~Listed(j) /\ a = Act("delete", ToSource, x) => Good
    BY <1>5, <1>8
  <2>3. IsFile(i) /\ IsFile(j) /\ a = Act("copy", ToSource, x) => Good
    BY <1>4
  <2>4. a = Act("conflict", ToSource, x) => Good
    BY <1>3
  <2> QED
    BY <1>8, <2>1, <2>2, <2>3, <2>4 DEF OneWayAct
<1>9. ASSUME r.mode = "two-way" /\ TwoWayAct(i, j, r.conflict, x, a) PROVE Good
  <2>1. /\ Listed(i) /\ a = Transfer(i, ToTarget, x) => Good
        /\ Listed(j) /\ a = Transfer(j, ToSource, x) => Good
    BY <1>2
  <2>2. IsFile(i) /\ IsFile(j) /\ a = Resolve(r.conflict, x, i, j) => Good
    BY <1>6
  <2>3. a = Act("conflict", ToTarget, x) => Good
    BY <1>3
  <2> QED
    BY <1>9, <2>1, <2>2, <2>3 DEF TwoWayAct
<1>10. Good
  BY <1>7, <1>8, <1>9 DEF ActAt
<1> QED
  BY <1>10 DEF Good

(* What is the same on both sides is only copied when the checksums of the *)
(* two kinds cannot be compared.                                           *)
LEMMA ActAtSame ==
  ASSUME NEW r, NEW j, NEW k, NEW x, NEW a, NEW e \in Proper, NEW f \in Proper, Same(e, f),
         ActAt(r, FileInfo(j, e), FileInfo(k, f), x, a)
  PROVE  a.type \in {"conflict", "skip"} \/ (a.type = "copy" /\ j # k)
<1> DEFINE s == FileInfo(j, e)
           t == FileInfo(k, f)
<1>1. s.type = e.type /\ t.type = f.type /\ e.type = f.type /\ e.content = f.content
  BY FileInfoFields DEF Same
<1>2. e.type = "file" => s.size = t.size /\ (j = k => s.checksum = t.checksum)
  BY <1>1 DEF FileInfo
<1>3. IsFile(s) /\ IsFile(t) /\ FileModified(s, t) => j # k
  BY <1>1, <1>2 DEF FileModified, IsFile
<1> HIDE DEF s, t
<1>4. a.type \in {"conflict", "skip"} \/ (a.type = "copy" /\ IsFile(s) /\ IsFile(t) /\ FileModified(s, t))
  <2>1. \A direction : /\ Act("skip", direction, x).type = "skip"
                       /\ Act("conflict", direction, x).type = "conflict"
                       /\ Act("copy", direction, x).type = "copy"
    BY DEF Act
  <2>2. Resolve(r.conflict, x, s, t).type \in {"skip", "conflict", "copy"}
    BY <2>1, ResolveIs
  <2>3. Listed(s) <=> Listed(t)
    BY <1>1 DEF Listed
  <2>4. FileModified(t, s) => FileModified(s, t)
    BY DEF FileModified
  <2>5. ActAt(r, s, t, x, a)
    BY DEF s, t
  <2>6. \/ a = Act("conflict", ToTarget, x) \/ a = Act("conflict", ToSource, x)
        \/ /\ IsFile(s) /\ IsFile(t) /\ (FileModified(s, t) \/ FileModified(t, s))
           /\ \/ a = Act("copy", ToTarget, x) \/ a = Act("copy", ToSource, x)
              \/ a = Resolve(r.conflict, x, s, t)
    BY <2>3, <2>5 DEF ActAt, OneWayAct, TwoWayAct
  <2> QED
    BY <2>1, <2>2, <2>4, <2>6
<1> QED
  BY <1>3, <1>4
-----------------------------------------------------------------------------
(* As long as nothing goes wrong, a temporary file is there only while it  *)
(* is being copied to, by the process that has the lock.                   *)
IsTmp(x) == \E y \in Path : x = TmpOf[y]
Clear(x) == \A y \in Ancestors[x] : ~IsTmp(y)

(* p makes the temporary file x *)
Making(p, x) ==
  LET a == First(plan[p]) IN
  pc[p] = "copying" /\ KindOf[Destination(a)] = "local" /\ x = TmpOf[a.path]

Held == \A p \in Proc : pc[p] \in {"exec", "copying"} => lock = p

TmpsMade ==
  \A side \in Side, x \in Path : IsTmp(x) /\ tree[side][x].type # "none" =>
    /\ tree[side][x].type = "file"
    /\ \E p \in Proc : Making(p, x) /\ side = Destination(First(plan[p]))

CopiesProper ==
  \A p \in Proc : pc[p] = "copying" =>
    First(plan[p]).type = "copy" /\ ~IsTmp(First(plan[p]).path)

ListedClear ==
  \A p \in Proc, x \in Path : Listed(listed[p][x]) =>
    Clear(x) /\ (listed[p][x].type = "dir" => ~IsTmp(x))

PlannedClear ==
  \A p \in Proc : \A a \in plan[p] : a.type \in {"mkdir", "copy"} =>
    Clear(a.path) /\ (a.type = "mkdir" => ~IsTmp(a.path))

CalmInv == Held /\ TmpsMade /\ CopiesProper /\ ListedClear /\ PlannedClear

NoTmps == \A side \in Side, x \in Path : IsTmp(x) => tree[side][x].type = "none"

(* The steps when nothing goes wrong.                                      *)
LEMMA CalmNext ==
  ASSUME RestInv, mishaps' = mishaps, [Next]_vars
  PROVE  \/ \E p \in Proc : Step(p)
         \/ \E side \in Side, x \in UserPath : UserEdit(side, x)
         \/ UNCHANGED vars
<1>1. mishaps \in Nat
  BY DEF RestInv
<1>2. \A p \in Proc : ~Mishap(p)
  BY <1>1 DEF Mishap
<1>3. \A p \in Proc : ~Cancel(p) /\ ~IOError(p) /\ ~Crash(p)
  BY <1>2 DEF Cancel, IOError, Crash
<1>4. \A p \in Proc : ~BreakOff(p)
  BY <1>2 DEF BreakOff
<1> QED
  BY <1>3, <1>4 DEF Next

(* Who copies goes on copying, or ends the copy.                           *)
LEMMA CopyingStep ==
  ASSUME ServiceInv, RestInv, mishaps' = mishaps, [Next]_vars, NEW p \in Proc, pc[p] = "copying"
  PROVE  FinishCopy(p) \/ Stays(p)
<1>1. mishaps \in Nat
  BY DEF RestInv
<1>2. ~Cancel(p) /\ ~IOError(p) /\ ~Crash(p) /\ ~BreakOff(p)
  <2>1. ~Mishap(p)
    BY <1>1 DEF Mishap
  <2>2. ~Cancel(p) /\ ~IOError(p) /\ ~Crash(p)
    BY <2>1 DEF Cancel, IOError, Crash
  <2>3. ~BreakOff(p)
    BY <2>1 DEF BreakOff
  <2> QED
    BY <2>2, <2>3
<1>3. Step(p) => FinishCopy(p)
  BY DEF Step, ExecuteAction, PlanSync, ListTarget, AcquireLock, BeginCopy, Mkdir, Remove, Pass,
         Finish, Executes
<1> QED
  BY <1>2, <1>3, RunsApart DEF Moves

(* One process at a time is in its execution.                              *)
LEMMA AloneThere ==
  ASSUME Held, NEW p \in Proc, NEW q \in Proc,
         pc[p] \in {"exec", "copying"}, pc[q] \in {"exec", "copying"}
  PROVE  p = q
BY DEF Held

LEMMA NobodyCopies ==
  ASSUME TmpsMade, \A p \in Proc : pc[p] # "copying"
  PROVE  NoTmps
BY DEF TmpsMade, Making, NoTmps

(* What becomes of the lock.                                               *)
LEMMA EndLock ==
  ASSUME ServiceInv, NEW p \in Proc, NEW result, End(p, result)
  PROVE  /\ pc'[p] = "idle" /\ plan'[p] = {} /\ outcome' = [outcome EXCEPT ![p] = result]
         /\ lock' = (IF lock = p THEN NoProc ELSE lock)
BY DEF End, Goto, ServiceInv

LEMMA NextHeld ==
  ASSUME ServiceInv, RestInv, Held, mishaps' = mishaps, [Next]_vars
  PROVE  Held'
<1> SUFFICES ASSUME NEW q \in Proc, pc'[q] \in {"exec", "copying"} PROVE lock' = q
  BY DEF Held
<1>1. ASSUME NEW p \in Proc, NEW result, End(p, result) PROVE lock' = q
  <2>1. p # q
    BY <1>1, EndLock
  <2>2. pc'[q] = pc[q]
    BY <1>1, <2>1, EndOfOthers DEF Stays
  <2> QED
    BY <1>1, <2>1, <2>2, EndLock DEF Held
<1>2. ASSUME NEW p \in Proc, lock' = lock, pc' = pc \/ (pc[p] = "exec" /\ Goto(p, "copying"))
                                         \/ (pc[p] = "copying" /\ Goto(p, "exec"))
      PROVE  lock' = q
  BY <1>2 DEF Held, Goto, ServiceInv
<1>3. ASSUME NEW p \in Proc, lock' = lock, Goto(p, "listing") \/ Goto(p, "planned")
      PROVE  lock' = q
  BY <1>3 DEF Held, Goto, ServiceInv
<1>4. ASSUME NEW p \in Proc, lock \in {NoProc, p}, lock' = p, Goto(p, "exec") PROVE lock' = q
  BY <1>4 DEF Held, Goto, ServiceInv
<1>5. ASSUME NEW p \in Proc, PlanSync(p) \/ ListTarget(p) \/ AcquireLock(p) \/ Finish(p)
      PROVE  lock' = q
  BY <1>1, <1>3, <1>4, <1>5 DEF PlanSync, ListTarget, AcquireLock, Finish
<1>6. ASSUME NEW p \in Proc, NEW a \in plan[p], ExecuteAction(p, a) PROVE lock' = q
  <2>1. End(p, "failed") \/ (lock' = lock /\ (pc' = pc \/ (pc[p] = "exec" /\ Goto(p, "copying"))))
    BY <1>6 DEF ExecuteAction, BeginCopy, Mkdir, Remove, Pass, Fail, Executes
  <2> QED
    BY <1>1, <1>2, <2>1
<1>7. ASSUME NEW p \in Proc, FinishCopy(p) PROVE lock' = q
  <2>1. End(p, "failed") \/ (lock' = lock /\ pc[p] = "copying" /\ Goto(p, "exec"))
    BY <1>7 DEF FinishCopy
  <2> QED
    BY <1>1, <1>2, <2>1
<1>8. ASSUME NEW side \in Side, NEW x \in UserPath, UserEdit(side, x) PROVE lock' = q
  BY <1>8 DEF UserEdit, Held
<1>9. CASE UNCHANGED vars
  BY <1>9 DEF vars, Held
<1> QED
  BY <1>5, <1>6, <1>7, <1>8, <1>9, CalmNext DEF Step
-----------------------------------------------------------------------------
(* What a listing shows lies below no temporary file.                      *)
LEMMA ListingClear ==
  ASSUME ServiceInv, ShapeInv, TmpsMade, NEW side \in Side, NEW kind, NEW x \in Path,
         Listed(Listing(kind, tree[side])[x])
  PROVE  Clear(x) /\ (Listing(kind, tree[side])[x].type = "dir" => ~IsTmp(x))
<1>1. tree[side][x] \in Proper /\ x \notin Ignored
  BY ListingHides DEF ServiceInv, ATree
<1>2. Listing(kind, tree[side])[x].type = tree[side][x].type
  BY <1>1, FileInfoFields DEF Listing
<1>3. \A y \in Ancestors[x] : y \in Path /\ tree[side][y].type = "dir"
  BY <1>2 DEF Listed, ShapeInv, Shaped, WellFormed, Present
<1>4. \A y \in Path : tree[side][y].type = "dir" => ~IsTmp(y)
  BY DEF TmpsMade
<1> QED
  BY <1>2, <1>3, <1>4 DEF Clear

LEMMA NextPlannedClear ==
  ASSUME ServiceInv, ShapeInv, TmpsMade, ListedClear, PlannedClear, [Next]_vars
  PROVE  PlannedClear'
<1> SUFFICES ASSUME NEW p \in Proc, NEW a \in plan'[p], a.type \in {"mkdir", "copy"}
             PROVE  Clear(a.path) /\ (a.type = "mkdir" => ~IsTmp(a.path))
  BY DEF PlannedClear
<1>1. CASE a \in plan[p]
  BY <1>1 DEF PlannedClear
<1>2. CASE a \in Plan(rule, listed[p], Listing(KindOf["target"], tree["target"]))
  <2> DEFINE t == Listing(KindOf["target"], tree["target"])
  <2>1. rule \in [mode : Modes, conflict : Strategies] /\ "target" \in Side
    BY DEF ServiceInv, Side
  <2>2. \A x \in Path : Listed(t[x]) => Clear(x) /\ (t[x].type = "dir" => ~IsTmp(x))
    BY <2>1, ListingClear
  <2> HIDE DEF t
  <2>3. PICK x \in Path : ActAt(rule, listed[p][x], t[x], x, a)
    BY <1>2, <2>1, PlanAt DEF t
  <2>4. PICK i \in {listed[p][x], t[x]} :
          /\ a.path = x
          /\ a.type = "mkdir" => i.type = "dir"
          /\ a.type = "copy" => i.type \notin {"none", "dir"}
    BY <2>3, ActAtFits
  <2>5. Listed(i) /\ (a.type = "mkdir" => i.type = "dir")
    BY <2>4 DEF Listed
  <2>6. Listed(i) => Clear(x) /\ (i.type = "dir" => ~IsTmp(x))
    BY <2>2 DEF ListedClear
  <2> QED
    BY <2>4, <2>5, <2>6
<1> QED
  BY <1>1, <1>2, PlanStep

LEMMA NextListedClear ==
  ASSUME ServiceInv, ShapeInv, TmpsMade, ListedClear, [Next]_vars
  PROVE  ListedClear'
<1> SUFFICES ASSUME NEW p \in Proc, NEW x \in Path, Listed(listed'[p][x])
             PROVE  Clear(x) /\ (listed'[p][x].type = "dir" => ~IsTmp(x))
  BY DEF ListedClear
<1>1. ~Listed(Empty[x])
  BY EmptyLists
<1>2. ASSUME NEW result, End(p, result) PROVE FALSE
  BY <1>1, <1>2 DEF End, ServiceInv
<1>3. CASE Stays(p)
  BY <1>3 DEF Stays, ListedClear
<1>4. CASE PlanSync(p)
  <2>1. listed'[p] = Listing(KindOf["source"], tree["source"]) /\ "source" \in Side
    BY <1>4 DEF PlanSync, ServiceInv, Side
  <2>2. \A kind : Listed(Listing(kind, tree["source"])[x]) =>
          Clear(x) /\ (Listing(kind, tree["source"])[x].type = "dir" => ~IsTmp(x))
    BY <2>1, ListingClear
  <2> QED
    BY <2>1, <2>2
<1>5. CASE ListTarget(p)
  BY <1>1, <1>5 DEF ListTarget, ServiceInv
<1>6. CASE listed' = listed
  BY <1>6 DEF ListedClear
<1>7. ASSUME NEW a \in plan[p], ExecuteAction(p, a) PROVE listed' = listed
  BY <1>2, <1>7 DEF ExecuteAction, BeginCopy, Mkdir, Remove, Pass, Fail
<1>8. ASSUME AcquireLock(p) \/ FinishCopy(p) PROVE listed' = listed
  BY <1>2, <1>8 DEF AcquireLock, FinishCopy
<1>9. ~Finish(p) /\ ~Cancel(p) /\ ~IOError(p) /\ ~Crash(p) /\ ~BreakOff(p)
  BY <1>2 DEF Finish, Cancel, IOError, Crash, BreakOff
<1> QED
  BY <1>3, <1>4, <1>5, <1>6, <1>7, <1>8, <1>9, RunsApart DEF Moves, Step

LEMMA NextCopiesProper ==
  ASSUME ServiceInv, Held, TmpsMade, CopiesProper, [Next]_vars
  PROVE  CopiesProper'
<1> SUFFICES ASSUME NEW p \in Proc, pc'[p] = "copying", NEW a, a = First(plan'[p])
             PROVE  a.type = "copy" /\ ~IsTmp(a.path)
  BY DEF CopiesProper
<1>1. CASE Stays(p)
  BY <1>1 DEF Stays, CopiesProper
<1>2. CASE pc[p] = "exec" /\ a \in plan[p] /\ a.type = "copy" /\ CanRead(a)
  <2>1. NoTmps
    <3>1. \A q \in Proc : pc[q] # "copying"
      BY <1>2, AloneThere
    <3> QED
      BY <3>1, NobodyCopies
  <2>2. a.path \in Path /\ Origin(a) \in Side
    BY <1>2, DestinationIsSide DEF ServiceInv, Sound, Action
  <2> QED
    BY <1>2, <2>1, <2>2 DEF CanRead, NoTmps
<1> QED
  BY <1>1, <1>2, CopyStep
-----------------------------------------------------------------------------
(* What a step other than the end of a copy does to a temporary file.      *)
LEMMA TmpStep ==
  ASSUME TmpFree, ServiceInv, RestInv, PlannedClear, mishaps' = mishaps, [Next]_vars,
         \A p \in Proc : ~FinishCopy(p),
         NEW side \in Side, NEW x \in Path, IsTmp(x)
  PROVE  \/ tree'[side][x] = tree[side][x]
         \/ tree'[side][x].type = "none"
         \/ /\ tree'[side][x].type = "file"
            /\ \E p \in Proc : Making(p, x)' /\ side = Destination(First(plan'[p]))
<1>1. CASE tree' = tree
  BY <1>1
<1>2. ASSUME NEW p \in Proc, NEW a \in plan[p], BeginCopy(p, a), tree' # tree
      PROVE  \/ tree'[side][x] = tree[side][x]
             \/ /\ tree'[side][x].type = "file"
                /\ Making(p, x)' /\ side = Destination(First(plan'[p]))
  <2> DEFINE to == Destination(a)
             u == BeginWrite(tree[to], a.path, clock)
  <2>1. /\ a = First(plan[p]) /\ KindOf[to] = "local" /\ plan' = plan /\ a.type = "copy"
        /\ pc' = [pc EXCEPT ![p] = "copying"] /\ tree' = [tree EXCEPT ![to] = u]
    BY <1>2 DEF BeginCopy, Fail, Put, Goto, Executes
  <2>2. pc'[p] = "copying" /\ a.path \in Path /\ to \in Side
    BY <2>1, DestinationIsSide DEF ServiceInv, Sound, Action
  <2>3. CASE side # to
    <3>1. tree'[side] = tree[side]
      BY <2>1, <2>3 DEF ServiceInv
    <3> QED
      BY <3>1
  <2>4. CASE side = to
    <3>1. x \notin Ancestors[a.path]
      BY <2>1 DEF PlannedClear, Clear
    <3>2. tree'[side][x] = IF x = TmpOf[a.path] THEN File(Partial, clock) ELSE tree[side][x]
      BY <2>1, <2>2, <2>4, <3>1 DEF BeginWrite, MkdirAll, ServiceInv
    <3>3. CASE x = TmpOf[a.path]
      <4>1. tree'[side][x].type = "file"
        BY <3>2, <3>3, EntryTypes
      <4>2. Making(p, x)'
        BY <2>1, <2>2, <3>3 DEF Making
      <4> QED
        BY <2>1, <2>4, <4>1, <4>2
    <3> QED
      BY <3>2, <3>3
  <2> QED
    BY <2>3, <2>4
<1>3. ASSUME NEW p \in Proc, NEW a \in plan[p], Mkdir(p, a), tree' # tree
      PROVE  tree'[side][x] = tree[side][x]
  <2> DEFINE to == Destination(a)
             dirs == Ancestors[a.path] \cup {a.path}
  <2>1. a.type = "mkdir" /\ tree' = [tree EXCEPT ![to] = MkdirAll(tree[to], dirs)]
    BY <1>3 DEF Mkdir, Fail, Put
  <2>2. x \notin dirs
    BY <2>1 DEF PlannedClear, Clear
  <2>3. MkdirAll(tree[to], dirs)[x] = tree[to][x]
    BY <2>2 DEF MkdirAll
  <2> HIDE DEF dirs, to
  <2> QED
    BY <2>1, <2>3 DEF ServiceInv
<1>4. ASSUME NEW p \in Proc, NEW a \in plan[p], Remove(p, a), tree' # tree
      PROVE  tree'[side][x] = tree[side][x] \/ tree'[side][x].type = "none"
  <2> DEFINE to == Destination(a)
  <2>1. tree' = [tree EXCEPT ![to] = Delete(tree[to], a.path)]
    BY <1>4 DEF Remove, Fail, Put
  <2>2. Delete(tree[to], a.path)[x] = tree[to][x] \/ Delete(tree[to], a.path)[x] = Nothing
    BY DEF Delete
  <2> HIDE DEF to
  <2> QED
    BY <2>1, <2>2, EntryTypes DEF ServiceInv
<1>5. ASSUME NEW s \in Side, NEW y \in UserPath, UserEdit(s, y)
      PROVE  tree'[side][x] = tree[side][x]
  <2>1. x # y
    <3>1. PICK z \in Path : x = TmpOf[z]
      BY DEF IsTmp
    <3>2. TmpOf[z] # NoPath
      BY <3>1
    <3> QED
      BY <3>1, <3>2 DEF TmpFree
  <2>2. \E e : tree' = [tree EXCEPT ![s][y] = e]
    BY <1>5 DEF UserEdit
  <2> QED
    BY <2>1, <2>2 DEF ServiceInv, ATree
<1>6. ASSUME NEW p \in Proc,
             PlanSync(p) \/ ListTarget(p) \/ AcquireLock(p) \/ (\E a \in plan[p] : Pass(p, a)) \/ Finish(p)
      PROVE  tree' = tree
  BY <1>6 DEF PlanSync, ListTarget, AcquireLock, Pass, Finish
<1>7. UNCHANGED vars => tree' = tree
  BY DEF vars
<1> QED
  BY <1>1, <1>2, <1>3, <1>4, <1>5, <1>6, <1>7, CalmNext DEF Step, ExecuteAction

(* The end of a copy takes its temporary file away.                        *)
LEMMA FinishCopyTmps ==
  ASSUME ServiceInv, ShapeInv, CalmInv, NEW p \in Proc, FinishCopy(p)
  PROVE  NoTmps'
<1> SUFFICES ASSUME NEW side \in Side, NEW x \in Path, IsTmp(x) PROVE tree'[side][x].type = "none"
  BY DEF NoTmps
<1> SUFFICES ASSUME NEW a, a = First(plan[p]) PROVE tree'[side][x].type = "none"
  OBVIOUS
<1> DEFINE to == Destination(a)
           t == tree[to]
<1>1. pc[p] = "copying" /\ a \in plan[p] /\ a.path \in Path /\ to \in Side /\ t \in ATree
  BY DestinationIsSide DEF FinishCopy, ServiceInv, Sound, Action
<1>2. a.type = "copy" /\ ~IsTmp(a.path) /\ Clear(a.path)
  BY <1>1 DEF CalmInv, CopiesProper, PlannedClear
<1>3. tree[side][x].type # "none" =>
        tree[side][x].type = "file" /\ side = to /\ KindOf[to] = "local" /\ x = TmpOf[a.path]
  <2>1. \A q \in Proc : Making(q, x) => q = p
    BY <1>1, AloneThere DEF CalmInv, Making
  <2> QED
    BY <2>1 DEF CalmInv, TmpsMade, Making
<1>4. PICK u : /\ tree' = [tree EXCEPT ![to] = u]
               /\ IF KindOf[to] = "local"
                    THEN \/ u = DropTmp(t, a.path)
                         \/ u = FinishWrite(t, a.path, buffer[p], clock + 1)
                    ELSE u = t \/ u = Upload(t, a.path, buffer[p], clock + 1)
  <2>1. KindOf[to] = "local" =>
          \E u \in {DropTmp(t, a.path), FinishWrite(t, a.path, buffer[p], clock + 1)} : Put(p, to, u)
    BY DEF FinishCopy
  <2>2. KindOf[to] # "local" =>
          \E u \in {t, Upload(t, a.path, buffer[p], clock + 1)} : Put(p, to, u)
    BY DEF FinishCopy
  <2> HIDE DEF t, to
  <2> QED
    BY <2>1, <2>2 DEF Put
<1>5. CASE side # to
  <2>1. tree'[side] = tree[side]
    BY <1>4, <1>5 DEF ServiceInv
  <2> QED
    BY <1>3, <1>5, <2>1
<1>6. CASE side = to /\ KindOf[to] = "local"
  <2>1. tree'[side][x] = u[x]
    BY <1>1, <1>4, <1>6 DEF ServiceInv
  <2>2. ~Occupied(t, x)
    BY <1>3, <1>6 DEF Occupied, ShapeInv, Shaped, WellFormed, Present
  <2>3. DropTmp(t, a.path)[x].type = "none"
    <3>1. DropTmp(t, a.path)[x] = IF x = TmpOf[a.path] THEN Nothing ELSE t[x]
      BY <2>2 DEF DropTmp
    <3> QED
      BY <1>3, <1>6, <3>1, EntryTypes
  <2>4. u[x] = DropTmp(t, a.path)[x]
    <3>1. x # a.path
      BY <1>2
    <3> HIDE DEF t, to
    <3> QED
      BY <1>4, <1>6, <3>1 DEF FinishWrite, DropTmp
  <2> QED
    BY <2>1, <2>3, <2>4
<1>7. CASE side = to /\ KindOf[to] # "local"
  <2>1. tree'[side][x] = u[x]
    BY <1>1, <1>4, <1>7 DEF ServiceInv
  <2>2. x # a.path /\ x \notin Ancestors[a.path]
    BY <1>2 DEF Clear
  <2>3. u[x] = t[x]
    <3>1. Upload(t, a.path, buffer[p], clock + 1)[x] = t[x]
      BY <2>2, UploadElsewhere
    <3> HIDE DEF t, to
    <3> QED
      BY <1>4, <1>7, <3>1
  <2> QED
    BY <1>3, <1>7, <2>1, <2>3
<1> QED
  BY <1>5, <1>6, <1>7

LEMMA NextTmpsMade ==
  ASSUME TmpFree, ServiceInv, RestInv, ShapeInv, CalmInv, mishaps' = mishaps, [Next]_vars
  PROVE  TmpsMade'
<1> SUFFICES ASSUME NEW side \in Side, NEW x \in Path, IsTmp(x), tree'[side][x].type # "none"
             PROVE  /\ tree'[side][x].type = "file"
                    /\ \E p \in Proc : Making(p, x)' /\ side = Destination(First(plan'[p]))
  BY DEF TmpsMade
<1>1. \A p \in Proc : ~FinishCopy(p)
  BY FinishCopyTmps DEF NoTmps
<1>2. CASE tree'[side][x] = tree[side][x]
  <2>1. PICK p \in Proc : Making(p, x) /\ side = Destination(First(plan[p]))
    BY <1>2 DEF CalmInv, TmpsMade
  <2>2. Stays(p)
    BY <1>1, <2>1, CopyingStep DEF Making
  <2>3. Making(p, x)' /\ side = Destination(First(plan'[p]))
    BY <2>1, <2>2 DEF Making, Stays
  <2> QED
    BY <1>2, <2>3 DEF CalmInv, TmpsMade
<1> QED
  BY <1>1, <1>2, TmpStep DEF CalmInv

(* As long as nothing goes wrong, no temporary file stays behind.          *)
LEMMA NextCalmInv ==
  ASSUME TmpFree, ServiceInv, RestInv, ShapeInv, CalmInv, mishaps' = mishaps, [Next]_vars
  PROVE  CalmInv'
BY NextHeld, NextTmpsMade, NextCopiesProper, NextListedClear, NextPlannedClear DEF CalmInv
-----------------------------------------------------------------------------
(* What the rule r would plan for the trees T, and whether an action fits  *)
(* them.                                                                   *)
Left(r, T) == Plan(r, Listing(KindOf["source"], T["source"]), Listing(KindOf["target"], T["target"]))

Apt(r, T, a) ==
  /\ a.type = "mkdir" => T[Origin(a)][a.path].type = "dir"
  /\ a.type = "copy" => T[Origin(a)][a.path].type = "file"
  /\ a.type = "delete" => /\ r.mode # "two-way"
                          /\ T[Origin(a)][a.path].type = "none"
                          /\ T[Destination(a)][a.path].type # "none"

(* what changes nothing, or only brings checksums of one kind over *)
Slack(a) ==
  a.type \in {"conflict", "skip"} \/ (a.type = "copy" /\ KindOf["source"] # KindOf["target"])

LEMMA LeftAt ==
  ASSUME NEW r \in [mode : Modes, conflict : Strategies], NEW T \in [Side -> ATree], NEW a
  PROVE  a \in Left(r, T) <=>
           \E x \in Path \ Ignored : ActAt(r, FileInfo(KindOf["source"], T["source"][x]),
                                              FileInfo(KindOf["target"], T["target"][x]), x, a)
<1> DEFINE s == Listing(KindOf["source"], T["source"])
           t == Listing(KindOf["target"], T["target"])
<1>1. a \in Left(r, T) <=> \E x \in Path : ActAt(r, s[x], t[x], x, a)
  BY PlanAt DEF Left
<1>2. ASSUME NEW x \in Ignored PROVE ~ActAt(r, s[x], t[x], x, a)
  <2>1. ~Listed(s[x]) /\ ~Listed(t[x])
    BY <1>2, ListingHides
  <2>2. ~IsFile(s[x]) /\ ~IsFile(t[x])
    BY <2>1 DEF Listed, IsFile
  <2> HIDE DEF s, t
  <2> QED
    BY <2>1, <2>2 DEF ActAt, OneWayAct, TwoWayAct
<1>3. \A x \in Path \ Ignored : /\ s[x] = FileInfo(KindOf["source"], T["source"][x])
                                /\ t[x] = FileInfo(KindOf["target"], T["target"][x])
  BY DEF Listing
<1> HIDE DEF s, t
<1>4. CASE a \in Left(r, T)
  <2>1. PICK x \in Path : ActAt(r, s[x], t[x], x, a)
    BY <1>1, <1>4
  <2> QED
    BY <1>2, <1>3, <1>4, <2>1
<1>5. CASE a \notin Left(r, T)
  BY <1>1, <1>3, <1>5
<1> QED
  BY <1>4, <1>5

(* What is planned fits; where the sides are the same there is nothing to  *)
(* do; what is to do for a path depends on the path alone.                 *)
LEMMA LeftFits ==
  ASSUME NEW r \in [mode : Modes, conflict : Strategies], NEW T \in [Side -> ATree],
         NEW a \in Left(r, T)
  PROVE  a \in Sound /\ Apt(r, T, a)
<1>1. a \in Sound
  BY ListingHides, PlanIsSound DEF Left
<1> DEFINE S(x) == T["source"][x]
           D(x) == T["target"][x]
<1>2. PICK x \in Path \ Ignored : ActAt(r, FileInfo(KindOf["source"], S(x)), FileInfo(KindOf["target"], D(x)), x, a)
  BY LeftAt
<1>3. S(x) \in Proper /\ D(x) \in Proper
  BY DEF ATree, Side
<1> DEFINE i == FileInfo(KindOf["source"], S(x))
           j == FileInfo(KindOf["target"], D(x))
<1>4. i.type = S(x).type /\ j.type = D(x).type
  BY <1>3, FileInfoFields
<1>5. S(x).type \in {"none", "dir", "file"} /\ D(x).type \in {"none", "dir", "file"}
  BY <1>3, ProperFields
<1>6. T[Origin(a)][x].type = (IF a.direction = ToTarget THEN i ELSE j).type
  BY <1>4 DEF Origin
<1>7. T[Destination(a)][x].type = (IF a.direction = ToTarget THEN j ELSE i).type
  BY <1>4 DEF Destination
<1>8. T[Origin(a)][x].type \in {"none", "dir", "file"}
  BY <1>5 DEF Origin
<1> HIDE DEF i, j, S, D
<1>9. /\ a.path = x
      /\ a.type = "mkdir" => T[Origin(a)][x].type = "dir"
      /\ a.type = "copy" => T[Origin(a)][x].type \notin {"none", "dir"}
      /\ a.type = "delete" => /\ r.mode # "two-way" /\ T[Origin(a)][x].type = "none"
                              /\ T[Destination(a)][x].type # "none"
  <2>1. ActAt(r, i, j, x, a)
    BY <1>2 DEF i, j
  <2> QED
    BY <1>6, <1>7, <2>1, ActAtFits
<1> QED
  BY <1>1, <1>8, <1>9 DEF Apt

LEMMA LeftSame ==
  ASSUME NEW r \in [mode : Modes, conflict : Strategies], NEW T \in [Side -> ATree],
         NEW a \in Left(r, T), Same(T["source"][a.path], T["target"][a.path])
  PROVE  Slack(a)
<1>1. PICK x \in Path \ Ignored : ActAt(r, FileInfo(KindOf["source"], T["source"][x]),
                                           FileInfo(KindOf["target"], T["target"][x]), x, a)
  BY LeftAt
<1>2. a.path = x /\ T["source"][x] \in Proper /\ T["target"][x] \in Proper
  BY <1>1, ActAtFits DEF ATree, Side
<1> QED
  BY <1>1, <1>2, ActAtSame DEF Slack

LEMMA LeftLocal ==
  ASSUME NEW r \in [mode : Modes, conflict : Strategies], NEW T \in [Side -> ATree], NEW U \in [Side -> ATree],
         NEW a \in Left(r, U), \A side \in Side : U[side][a.path] = T[side][a.path]
  PROVE  a \in Left(r, T)
<1>1. PICK x \in Path \ Ignored : ActAt(r, FileInfo(KindOf["source"], U["source"][x]),
                                           FileInfo(KindOf["target"], U["target"][x]), x, a)
  BY LeftAt
<1>2. a.path = x /\ U["source"][x] = T["source"][x] /\ U["target"][x] = T["target"][x]
  BY <1>1, ActAtFits DEF Side
<1> QED
  BY <1>1, <1>2, LeftAt

(* An action goes on fitting as long as nothing it needs goes away.        *)
LEMMA AptKept ==
  ASSUME NEW r, NEW T, NEW U, NEW a, Apt(r, T, a),
         a.type \in {"mkdir", "copy", "delete"} => \A side \in Side :
            T[side][a.path].type # "none" => U[side][a.path].type = T[side][a.path].type,
         a.type = "delete" => U[Origin(a)] = T[Origin(a)]
  PROVE  Apt(r, U, a)
BY DestinationIsSide DEF Apt

(* The directories on the way to what one side has are the same on both    *)
(* sides once they are on the other.                                       *)
LEMMA SameDirectories ==
  ASSUME NEW T \in [Side -> ATree], NEW side \in Side, NEW x \in Path,
         T[side][x].type = "dir", T[Other(side)][x].type = "dir"
  PROVE  Same(T["source"][x], T["target"][x])
<1>1. \A s \in Side : T[s][x].type = "dir"
  BY OtherSide
<1>2. \A s \in Side : T[s][x] = Directory
  BY <1>1, ProperFields DEF ATree
<1> QED
  BY <1>2 DEF Side, Same
-----------------------------------------------------------------------------
(* A run that nobody disturbs, between its plan and its end: every action  *)
(* it has still to take fits, whatever is still to do is among them or is  *)
(* the temporary file it makes, ...                                        *)
Due(p) ==
  /\ \A a \in plan[p] : Apt(rule, tree, a)
  /\ \A a \in Left(rule, tree) : Slack(a) \/ a \in plan[p] \/ Making(p, a.path)

(* ... it does not take a temporary file for a file to synchronise, ...    *)
OwnFiles(p) == \A a \in plan[p] : a.type \in {"mkdir", "copy", "delete"} => ~IsTmp(a.path)

(* ... and what it copies can be put in its place.                         *)
Ready(p) ==
  LET a == First(plan[p])
      to == Destination(a) IN
  /\ buffer[p] = tree[Origin(a)][a.path].content
  /\ KindOf[to] = "local" =>
       /\ \A y \in Ancestors[a.path] : tree[to][y].type = "dir"
       /\ TmpOf[a.path] # NoPath => tree[to][TmpOf[a.path]].type = "file"

RunInv(p) ==
  /\ pc[p] = "listing" => listed[p] = Listing(KindOf["source"], tree["source"])
  /\ pc[p] \in {"planned", "exec", "copying"} => Due(p)
  /\ pc[p] \in {"exec", "copying"} => OwnFiles(p)
  /\ pc[p] = "copying" => Ready(p)
  /\ outcome[p] = "ok" => \A a \in Left(rule, tree) : Slack(a)
  /\ outcome[p] = "failed" => \E x \in Path : Obstructed(x)

(* the actions of a one-way rule all go one way *)
Aimed == rule.mode # "two-way" => \A p \in Proc : \A a \in plan[p] : a.direction = Direction

(* an outcome is that of a run that is over *)
Ended == \A p \in Proc : outcome[p] \in {"ok", "failed"} => pc[p] = "idle"

OrderInv ==
  /\ CalmInv /\ Aimed /\ Ended
  /\ \A p \in Proc : quiet[p] => RunInv(p)

(* A step of p keeps what is due: where it changes the trees it leaves     *)
(* nothing to do, or its temporary file.                                   *)
LEMMA DueKept ==
  ASSUME ServiceInv, ServiceInv', rule' = rule, NEW p \in Proc, Due(p),
         \A a \in plan'[p] : Apt(rule, tree', a),
         \A x \in Path : \/ Same(tree'["source"][x], tree'["target"][x])
                         \/ Making(p, x)'
                         \/ /\ \A side \in Side : tree'[side][x] = tree[side][x]
                            /\ ~Making(p, x)
                            /\ \A a \in plan[p] : a.path = x => Slack(a) \/ a \in plan'[p]
  PROVE  Due(p)'
<1>1. rule \in [mode : Modes, conflict : Strategies] /\ tree \in [Side -> ATree] /\ tree' \in [Side -> ATree]
  BY DEF ServiceInv
<1>2. ASSUME NEW a \in Left(rule, tree') PROVE Slack(a) \/ a \in plan'[p] \/ Making(p, a.path)'
  <2>1. a.path \in Path
    BY <1>1, LeftFits DEF Sound, Action
  <2>2. CASE Same(tree'["source"][a.path], tree'["target"][a.path])
    BY <1>1, <2>2, LeftSame
  <2>3. CASE /\ \A side \in Side : tree'[side][a.path] = tree[side][a.path]
             /\ ~Making(p, a.path)
             /\ \A b \in plan[p] : b.path = a.path => Slack(b) \/ b \in plan'[p]
    <3>1. a \in Left(rule, tree)
      BY <1>1, <2>3, LeftLocal
    <3>2. Slack(a) \/ a \in plan[p]
      BY <2>3, <3>1 DEF Due
    <3> QED
      BY <2>3, <3>2
  <2> QED
    BY <2>1, <2>2, <2>3
<1> QED
  BY <1>2 DEF Due

(* Where an action goes and comes from.                                    *)
LEMMA ActionSides ==
  ASSUME ServiceInv, NEW p \in Proc, NEW a \in plan[p]
  PROVE  /\ a \in Action /\ a \in Sound /\ a.path \in Path /\ a.path \notin Ignored
         /\ Destination(a) \in Side /\ Origin(a) \in Side /\ Origin(a) # Destination(a)
         /\ Other(Destination(a)) = Origin(a) /\ Other(Origin(a)) = Destination(a)
         /\ tree[Destination(a)] \in ATree /\ tree[Origin(a)] \in ATree
         /\ Ancestors[a.path] \subseteq Path
<1>1. a \in Sound /\ Destination(a) \in Side /\ Origin(a) \in Side
  BY DestinationIsSide DEF ServiceInv
<1>2. Other(Destination(a)) = Origin(a) /\ Other(Origin(a)) = Destination(a) /\ Origin(a) # Destination(a)
  BY <1>1, OtherSide
<1> QED
  BY <1>1, <1>2 DEF Sound, Action, ServiceInv

(* A delete of a one-way rule reads where nothing is written.              *)
LEMMA DeletesRead ==
  ASSUME ServiceInv, Aimed, NEW p \in Proc, NEW a \in plan[p], NEW b \in plan[p],
         Apt(rule, tree, b), b.type = "delete"
  PROVE  Origin(b) # Destination(a) /\ a.direction = b.direction
<1>1. rule.mode # "two-way"
  BY DEF Apt
<1>2. a.direction = Direction /\ b.direction = Direction
  BY <1>1 DEF Aimed
<1> QED
  BY <1>2, FromTo

(* What is still planned goes on fitting when an action's destination      *)
(* loses nothing that it needs.                                            *)
LEMMA StillApt ==
  ASSUME ServiceInv, Aimed, NEW p \in Proc, Due(p), NEW a \in plan[p], NEW b \in plan[p], NEW U,
         \A side \in Side : side # Destination(a) => U[side] = tree[side],
         b.type \in {"mkdir", "copy", "delete"} /\ tree[Destination(a)][b.path].type # "none"
           => U[Destination(a)][b.path].type = tree[Destination(a)][b.path].type
  PROVE  Apt(rule, U, b)
<1>1. Apt(rule, tree, b)
  BY DEF Due
<1>2. b.type \in {"mkdir", "copy", "delete"} => \A side \in Side :
        tree[side][b.path].type # "none" => U[side][b.path].type = tree[side][b.path].type
  <2>1. \A side \in Side : side = Destination(a) \/ U[side] = tree[side]
    OBVIOUS
  <2> QED
    BY <2>1
<1>3. b.type = "delete" => U[Origin(b)] = tree[Origin(b)]
  <2>1. b.type = "delete" => Origin(b) # Destination(a)
    BY <1>1, DeletesRead
  <2>2. Origin(b) \in Side
    BY DestinationIsSide
  <2> QED
    BY <2>1, <2>2
<1> QED
  BY <1>1, <1>2, <1>3, AptKept

LEMMA MkdirDue ==
  ASSUME ServiceInv, ServiceInv', ShapeInv, Aimed, rule' = rule, NEW p \in Proc, NEW a \in plan[p],
         Due(p), Mkdir(p, a), CanMkdirAll(tree[Destination(a)], Ancestors[a.path] \cup {a.path})
  PROVE  Due(p)'
<1> DEFINE to == Destination(a)
           from == Origin(a)
           dirs == Ancestors[a.path] \cup {a.path}
           u == MkdirAll(tree[to], dirs)
<1>1. /\ a.path \in Path /\ to \in Side /\ from \in Side /\ from # to /\ Other(from) = to /\ Other(to) = from
      /\ tree[to] \in ATree /\ tree[from] \in ATree /\ dirs \subseteq Path
  BY ActionSides
<1>2. /\ a.type = "mkdir" /\ pc[p] = "exec" /\ pc' = pc
      /\ tree' = [tree EXCEPT ![to] = u] /\ plan'[p] = plan[p] \ {a}
  BY DEF Mkdir, Executes, Put, Done, ServiceInv
<1>3. tree'[to] = u /\ (\A side \in Side : side # to => tree'[side] = tree[side])
  BY <1>1, <1>2 DEF ServiceInv
<1>4. \A x \in Path : u[x] = tree[to][x] \/ (x \in dirs /\ tree[to][x].type = "none" /\ u[x] = Directory)
  BY <1>1, MkdirAllTree
<1>5. \A x \in dirs : u[x].type = "dir"
  <2>1. \A x \in dirs : tree[to][x].type \in {"none", "dir"}
    BY <1>1, ProperFields DEF CanMkdirAll, ATree
  <2> QED
    BY <1>1, <2>1, EntryTypes DEF MkdirAll
<1> HIDE DEF u
<1>6. ASSUME NEW b \in plan'[p] PROVE Apt(rule, tree', b)
  <2>1. b \in plan[p]
    BY <1>2
  <2>2. b.path \in Path
    BY <2>1, ActionSides
  <2>3. b.type \in {"mkdir", "copy", "delete"} /\ tree[Destination(a)][b.path].type # "none"
          => tree'[Destination(a)][b.path].type = tree[Destination(a)][b.path].type
    BY <1>3, <1>4, <2>2
  <2>4. \A side \in Side : side # Destination(a) => tree'[side] = tree[side]
    BY <1>3
  <2> QED
    BY <2>1, <2>3, <2>4, StillApt
<1>7. ASSUME NEW x \in dirs PROVE Same(tree'["source"][x], tree'["target"][x])
  <2>1. tree[from][a.path].type = "dir"
    BY <1>2 DEF Due, Apt
  <2>2. tree[from][x].type = "dir"
    BY <1>1, <2>1 DEF ShapeInv, Shaped, WellFormed, Present
  <2>3. tree' \in [Side -> ATree] /\ x \in Path /\ tree'[from][x].type = "dir" /\ tree'[to][x].type = "dir"
    BY <1>1, <1>3, <1>5, <2>2 DEF ServiceInv
  <2> QED
    BY <1>1, <2>3, SameDirectories
<1>8. ASSUME NEW x \in Path \ dirs
      PROVE  /\ \A side \in Side : tree'[side][x] = tree[side][x]
             /\ ~Making(p, x)
             /\ \A b \in plan[p] : b.path = x => Slack(b) \/ b \in plan'[p]
  BY <1>2, <1>3, <1>4 DEF Making
<1> HIDE DEF to, from, dirs
<1> QED
  BY <1>6, <1>7, <1>8, DueKept

LEMMA RemoveDue ==
  ASSUME ServiceInv, ServiceInv', ShapeInv, Aimed, rule' = rule, NEW p \in Proc, NEW a \in plan[p],
         Due(p), Remove(p, a), CanDelete(KindOf[Destination(a)], tree[Destination(a)], a.path)
  PROVE  Due(p)'
<1> DEFINE to == Destination(a)
           from == Origin(a)
           u == Delete(tree[to], a.path)
<1>1. /\ a.path \in Path /\ to \in Side /\ from \in Side /\ from # to /\ Other(from) = to /\ Other(to) = from
      /\ tree[to] \in ATree /\ tree[from] \in ATree
  BY ActionSides
<1>2. /\ a.type = "delete" /\ pc[p] = "exec" /\ pc' = pc /\ a = First(plan[p])
      /\ tree' = [tree EXCEPT ![to] = u] /\ plan'[p] = plan[p] \ {a}
  BY DEF Remove, Executes, Put, Done, ServiceInv
<1>3. tree'[to] = u /\ (\A side \in Side : side # to => tree'[side] = tree[side])
  BY <1>1, <1>2 DEF ServiceInv
<1>4. \A x \in Path : u[x] = IF x = a.path \/ a.path \in Ancestors[x] THEN Nothing ELSE tree[to][x]
  BY DEF Delete
<1> HIDE DEF u
<1>5. \A b \in plan[p] : b.direction = a.direction
  <2>1. rule.mode # "two-way"
    BY <1>2 DEF Due, Apt
  <2> QED
    BY <2>1 DEF Aimed
<1>6. ASSUME NEW b \in plan[p] \ {a}, b.type = "delete"
      PROVE  b.path # a.path /\ a.path \notin Ancestors[b.path]
  <2>1. plan[p] \in SUBSET Action /\ a \in Action /\ b \in Action
    BY ActionSides
  <2>2. Before(a, b)
    BY <1>2, <1>5, <2>1, FirstIsBefore
  <2>3. ~(TypeOrder[a.type] < TypeOrder[b.type])
    BY <1>2, <1>6 DEF TypeOrder
  <2>4. Depth(a.path) > Depth(b.path) \/ Depth(a.path) = Depth(b.path)
    BY <1>2, <1>6, <2>2, <2>3 DEF Before
  <2>5. a.path \notin Ancestors[b.path]
    <3>1. b.path \in Path /\ Depth(a.path) \in Nat /\ Depth(b.path) \in Nat
      BY <1>1, <2>1, DeeperBelow DEF Action
    <3> QED
      BY <2>4, <3>1, DeeperBelow
  <2>6. b.path # a.path
    BY <1>2, <1>5, <1>6, <2>1 DEF Action
  <2> QED
    BY <2>5, <2>6
<1>7. ASSUME NEW b \in plan'[p] PROVE Apt(rule, tree', b)
  <2>1. b \in plan[p] \ {a} /\ Apt(rule, tree, b) /\ b.path \in Path
    BY <1>2, ActionSides DEF Due
  <2>2. Origin(b) = from /\ Destination(b) = to
    BY <1>5, <2>1 DEF Origin, Destination
  <2>3. tree'[from] = tree[from]
    BY <1>1, <1>3
  <2>4. b.type = "delete" => tree'[to][b.path] = tree[to][b.path]
    BY <1>3, <1>4, <1>6, <2>1
  <2> HIDE DEF to, from
  <2> QED
    BY <2>1, <2>2, <2>3, <2>4 DEF Apt
<1>8. ASSUME NEW x \in Path, x = a.path \/ a.path \in Ancestors[x]
      PROVE  Same(tree'["source"][x], tree'["target"][x])
  <2>1. tree[from][a.path].type = "none"
    BY <1>2 DEF Due, Apt
  <2>2. tree[from][x].type = "none"
    BY <1>1, <1>8, <2>1 DEF ShapeInv, Shaped, WellFormed, Present
  <2>3. tree'[from][x] = Nothing /\ tree'[to][x] = Nothing
    BY <1>1, <1>3, <1>4, <1>8, <2>2, ProperFields DEF ATree
  <2>4. \A side \in Side : tree'[side][x] = Nothing
    BY <1>1, <2>3, OtherSide
  <2> QED
    BY <2>4 DEF Side, Same
<1>9. ASSUME NEW x \in Path, x # a.path, a.path \notin Ancestors[x]
      PROVE  /\ \A side \in Side : tree'[side][x] = tree[side][x]
             /\ ~Making(p, x)
             /\ \A b \in plan[p] : b.path = x => Slack(b) \/ b \in plan'[p]
  BY <1>2, <1>3, <1>4, <1>9 DEF Making
<1> HIDE DEF to, from
<1> QED
  BY <1>7, <1>8, <1>9, DueKept
-----------------------------------------------------------------------------
LEMMA BeginCopyDue ==
  ASSUME ServiceInv, ServiceInv', ShapeInv, Aimed, rule' = rule, NEW p \in Proc, NEW a \in plan[p],
         Due(p), OwnFiles(p), BeginCopy(p, a), CanRead(a),
         KindOf[Destination(a)] = "local" => CanBeginWrite(tree[Destination(a)], a.path)
  PROVE  Due(p)' /\ OwnFiles(p)' /\ Ready(p)'
<1> DEFINE to == Destination(a)
           from == Origin(a)
           local == KindOf[to] = "local"
           u == BeginWrite(tree[to], a.path, clock)
<1>1. /\ a.path \in Path /\ to \in Side /\ from \in Side /\ from # to /\ Other(from) = to /\ Other(to) = from
      /\ tree[to] \in ATree /\ tree[from] \in ATree /\ Ancestors[a.path] \subseteq Path
  BY ActionSides
<1>2. /\ a.type = "copy" /\ pc[p] = "exec" /\ pc'[p] = "copying" /\ a = First(plan[p])
      /\ buffer'[p] = tree[from][a.path].content /\ plan' = plan
      /\ IF local THEN tree' = [tree EXCEPT ![to] = u] ELSE tree' = tree
  BY DEF BeginCopy, Executes, Put, Goto, ServiceInv
<1>3. /\ tree'[to] = IF local THEN u ELSE tree[to]
      /\ \A side \in Side : side # to => tree'[side] = tree[side]
  BY <1>1, <1>2 DEF ServiceInv
<1>4. ASSUME NEW x \in Path, x # TmpOf[a.path], x \notin Ancestors[a.path] \/ tree[to][x].type # "none"
      PROVE  u[x] = tree[to][x]
  BY <1>4, BeginWriteElsewhere
<1>5. TmpOf[a.path] # NoPath => TmpOf[a.path] \in Path /\ u[TmpOf[a.path]].type = "file"
  BY <1>1, EntryTypes DEF BeginWrite
<1>6. ASSUME local, NEW x \in Ancestors[a.path] PROVE u[x].type = "dir" /\ x # TmpOf[a.path]
  <2>1. x # TmpOf[a.path]
    BY <1>1
  <2>2. tree[to][x].type \in {"none", "dir"}
    BY <1>1, <1>6, ProperFields DEF CanBeginWrite, CanMkdirAll, ATree
  <2> QED
    BY <1>1, <2>1, <2>2, EntryTypes DEF BeginWrite, MkdirAll
<1> HIDE DEF u
<1>7. OwnFiles(p)'
  BY <1>2 DEF OwnFiles
<1>8. Ready(p)'
  <2>1. tree'[from] = tree[from] /\ First(plan'[p]) = a
    BY <1>1, <1>2, <1>3
  <2>2. local => /\ \A y \in Ancestors[a.path] : tree'[to][y].type = "dir"
                 /\ TmpOf[a.path] # NoPath => tree'[to][TmpOf[a.path]].type = "file"
    BY <1>3, <1>5, <1>6
  <2>3. buffer'[p] = tree'[from][a.path].content
    BY <1>2, <2>1
  <2> QED
    BY <2>1, <2>2, <2>3 DEF Ready
<1>9. ASSUME NEW b \in plan'[p] PROVE Apt(rule, tree', b)
  <2>1. b \in plan[p]
    BY <1>2
  <2>2. b.path \in Path
    BY <2>1, ActionSides
  <2>3. b.type \in {"mkdir", "copy", "delete"} => b.path # TmpOf[a.path]
    BY <1>1, <2>1 DEF OwnFiles, IsTmp
  <2>4. b.type \in {"mkdir", "copy", "delete"} /\ tree[to][b.path].type # "none"
          => tree'[to][b.path].type = tree[to][b.path].type
    BY <1>3, <1>4, <2>2, <2>3
  <2> QED
    BY <1>3, <2>1, <2>4, StillApt
<1>10. ASSUME local, NEW x \in Ancestors[a.path] PROVE Same(tree'["source"][x], tree'["target"][x])
  <2>1. tree[from][a.path].type = "file"
    BY DEF CanRead
  <2>2. tree[from][x].type = "dir"
    BY <1>1, <2>1 DEF ShapeInv, Shaped, WellFormed, Present
  <2>3. tree' \in [Side -> ATree] /\ x \in Path /\ tree'[from][x].type = "dir" /\ tree'[to][x].type = "dir"
    BY <1>1, <1>3, <1>6, <1>10, <2>2 DEF ServiceInv
  <2> QED
    BY <1>1, <2>3, SameDirectories
<1>11. ASSUME local, NEW x \in Path, x = TmpOf[a.path] PROVE Making(p, x)'
  BY <1>2, <1>11 DEF Making
<1>12. ASSUME NEW x \in Path, ~(local /\ (x \in Ancestors[a.path] \/ x = TmpOf[a.path]))
       PROVE  /\ \A side \in Side : tree'[side][x] = tree[side][x]
              /\ ~Making(p, x)
              /\ \A b \in plan[p] : b.path = x => Slack(b) \/ b \in plan'[p]
  BY <1>2, <1>3, <1>4, <1>12 DEF Making
<1> HIDE DEF to, from, local
<1> QED
  BY <1>7, <1>8, <1>9, <1>10, <1>11, <1>12, DueKept

LEMMA FinishCopyDue ==
  ASSUME ServiceInv, ServiceInv', ShapeInv, CalmInv, Aimed, rule' = rule, NEW p \in Proc,
         Due(p), OwnFiles(p), Ready(p), FinishCopy(p), pc'[p] # "idle"
  PROVE  Due(p)' /\ OwnFiles(p)' /\ pc'[p] = "exec"
<1> SUFFICES ASSUME NEW a, a = First(plan[p]) PROVE Due(p)' /\ OwnFiles(p)' /\ pc'[p] = "exec"
  OBVIOUS
<1> DEFINE to == Destination(a)
           from == Origin(a)
           local == KindOf[to] = "local"
           u == IF local THEN FinishWrite(tree[to], a.path, buffer[p], clock + 1)
                ELSE Upload(tree[to], a.path, buffer[p], clock + 1)
<1>0. a \in plan[p] /\ pc[p] = "copying"
  BY DEF ServiceInv, FinishCopy
<1>1. /\ a.path \in Path /\ to \in Side /\ from \in Side /\ from # to /\ Other(from) = to /\ Other(to) = from
      /\ tree[to] \in ATree /\ tree[from] \in ATree /\ Ancestors[a.path] \subseteq Path
  BY <1>0, ActionSides
<1>2. /\ a.type = "copy" /\ ~IsTmp(a.path) /\ Clear(a.path) /\ Apt(rule, tree, a)
      /\ tree[from][a.path].type = "file" /\ buffer[p] = tree[from][a.path].content
      /\ buffer[p] \in Content \cup {Partial}
  <2>1. a.type = "copy" /\ ~IsTmp(a.path) /\ Clear(a.path)
    BY <1>0 DEF CalmInv, CopiesProper, PlannedClear
  <2>2. Apt(rule, tree, a) /\ buffer[p] = tree[from][a.path].content
    BY <1>0 DEF Due, Ready
  <2>3. buffer[p] \in Content \cup {Partial}
    BY <1>0 DEF ServiceInv
  <2> QED
    BY <2>1, <2>2, <2>3 DEF Apt
<1>3. IF local THEN CanFinishWrite(tree[to], a.path) ELSE CanUpload(tree[to], a.path)
  BY DEF FinishCopy, End, Goto, ServiceInv
<1>4. /\ tree' = [tree EXCEPT ![to] = u] /\ plan'[p] = plan[p] \ {a} /\ pc'[p] = "exec"
  BY <1>3 DEF FinishCopy, Put, Done, Goto, ServiceInv
<1>5. tree'[to] = u /\ (\A side \in Side : side # to => tree'[side] = tree[side])
  BY <1>1, <1>4 DEF ServiceInv
<1>6. clock + 1 \in Nat
  BY DEF ServiceInv
<1>7. u[a.path] = File(buffer[p], clock + 1)
  <2>1. FinishWrite(tree[to], a.path, buffer[p], clock + 1)[a.path] = File(buffer[p], clock + 1)
    BY <1>1 DEF FinishWrite, DropTmp
  <2>2. Upload(tree[to], a.path, buffer[p], clock + 1)[a.path] = File(buffer[p], clock + 1)
    BY <1>1 DEF Upload, MkdirAll
  <2> HIDE DEF to, local
  <2> QED
    BY <2>1, <2>2
<1>8. ASSUME local, NEW x \in Path, x # TmpOf[a.path], x # a.path
      PROVE  u[x] = tree[to][x]
  BY <1>8, FinishWriteElsewhere
<1>9. ASSUME ~local, NEW x \in Path, x # a.path, x \notin Ancestors[a.path] \/ tree[to][x].type # "none"
      PROVE  u[x] = tree[to][x]
  BY <1>9, UploadElsewhere
<1>10. ASSUME ~local, NEW x \in Ancestors[a.path] PROVE u[x].type = "dir"
  <2>1. x \in Path /\ x # a.path
    BY <1>1
  <2>2. tree[to][x].type \in {"none", "dir"}
    BY <1>1, <1>3, <1>10, <2>1, ProperFields DEF CanUpload, CanMkdirAll, ATree
  <2> QED
    BY <1>1, <1>10, <2>1, <2>2, EntryTypes DEF Upload, MkdirAll
<1> HIDE DEF u
<1>11. OwnFiles(p)'
  BY <1>4 DEF OwnFiles
<1>12. tree[to][a.path].type # "dir"
  BY <1>3 DEF CanFinishWrite, CanUpload
<1>13. ASSUME NEW b \in plan'[p] PROVE Apt(rule, tree', b)
  <2>1. b \in plan[p]
    BY <1>4
  <2>2. b.path \in Path
    BY <2>1, ActionSides
  <2>3. b.type \in {"mkdir", "copy", "delete"} => b.path # TmpOf[a.path]
    BY <1>1, <2>1 DEF OwnFiles, IsTmp
  <2>4. tree[to][a.path].type # "none" => u[a.path].type = tree[to][a.path].type
    BY <1>1, <1>7, <1>12, EntryTypes, ProperFields DEF ATree
  <2>5. ASSUME b.type \in {"mkdir", "copy", "delete"}, tree[to][b.path].type # "none"
        PROVE  tree'[to][b.path].type = tree[to][b.path].type
    <3>1. CASE b.path = a.path
      BY <1>5, <2>4, <2>5, <3>1
    <3>2. CASE b.path # a.path
      <4>1. u[b.path] = tree[to][b.path]
        BY <1>8, <1>9, <2>2, <2>3, <2>5, <3>2
      <4> QED
        BY <1>5, <4>1
    <3> QED
      BY <3>1, <3>2
  <2> QED
    BY <1>0, <1>5, <2>1, <2>5, StillApt
<1>14. Same(tree'["source"][a.path], tree'["target"][a.path])
  <2>1. /\ tree'[from][a.path].type = "file" /\ tree'[from][a.path].content = buffer[p]
        /\ tree'[to][a.path].type = "file" /\ tree'[to][a.path].content = buffer[p]
    BY <1>1, <1>2, <1>5, <1>7, EntryTypes
  <2>2. \A side \in Side : tree'[side][a.path].type = "file" /\ tree'[side][a.path].content = buffer[p]
    BY <1>1, <2>1, OtherSide
  <2> QED
    BY <2>2 DEF Side, Same
<1>15. ASSUME NEW x \in Path, x = TmpOf[a.path] PROVE Same(tree'["source"][x], tree'["target"][x])
  <2>1. IsTmp(x)
    BY <1>1, <1>15 DEF IsTmp
  <2>2. \A side \in Side : tree'[side][x].type = "none" /\ tree'[side] \in ATree
    BY <2>1, FinishCopyTmps DEF NoTmps, ServiceInv
  <2>3. \A side \in Side : tree'[side][x] = Nothing
    BY <2>2, ProperFields DEF ATree
  <2> QED
    BY <2>3 DEF Side, Same
<1>16. ASSUME ~local, NEW x \in Ancestors[a.path] PROVE Same(tree'["source"][x], tree'["target"][x])
  <2>1. tree[from][x].type = "dir"
    BY <1>1, <1>2 DEF ShapeInv, Shaped, WellFormed, Present
  <2>2. tree' \in [Side -> ATree] /\ x \in Path /\ tree'[from][x].type = "dir" /\ tree'[to][x].type = "dir"
    BY <1>1, <1>5, <1>10, <1>16, <2>1 DEF ServiceInv
  <2> QED
    BY <1>1, <2>2, SameDirectories
<1>17. ASSUME NEW x \in Path, x # a.path, x # TmpOf[a.path], local \/ x \notin Ancestors[a.path]
       PROVE  /\ \A side \in Side : tree'[side][x] = tree[side][x]
              /\ ~Making(p, x)
              /\ \A b \in plan[p] : b.path = x => Slack(b) \/ b \in plan'[p]
  BY <1>4, <1>5, <1>8, <1>9, <1>17 DEF Making
<1> HIDE DEF to, from, local
<1> QED
  BY <1>4, <1>11, <1>13, <1>14, <1>15, <1>16, <1>17, DueKept
-----------------------------------------------------------------------------
LEMMA PassDue ==
  ASSUME ServiceInv, ServiceInv', rule' = rule, NEW p \in Proc, NEW a \in plan[p],
         Due(p), OwnFiles(p), Pass(p, a)
  PROVE  Due(p)' /\ OwnFiles(p)'
<1>1. /\ a.type \in {"conflict", "skip"} /\ pc[p] = "exec" /\ tree' = tree
      /\ plan'[p] = plan[p] \ {a}
  BY DEF Pass, Executes, Done, ServiceInv
<1>2. OwnFiles(p)'
  BY <1>1 DEF OwnFiles
<1>3. \A b \in plan'[p] : Apt(rule, tree', b)
  BY <1>1 DEF Due
<1>4. \A x : ~Making(p, x) /\ \A b \in plan[p] : b.path = x => Slack(b) \/ b \in plan'[p]
  BY <1>1 DEF Making, Slack
<1> QED
  BY <1>1, <1>2, <1>3, <1>4, DueKept

(* A plan made of two listings of the trees as they are holds what is to   *)
(* do.                                                                     *)
LEMMA ListDue ==
  ASSUME ServiceInv, ServiceInv', rule' = rule, NEW p \in Proc, ListTarget(p),
         listed[p] = Listing(KindOf["source"], tree["source"])
  PROVE  Due(p)'
<1>1. tree' = tree /\ plan'[p] = Left(rule, tree)
  BY DEF ListTarget, ServiceInv, Left
<1>2. rule \in [mode : Modes, conflict : Strategies] /\ tree \in [Side -> ATree]
  BY DEF ServiceInv
<1>3. \A a \in plan'[p] : Apt(rule, tree, a)
  BY <1>1, <1>2, LeftFits
<1> QED
  BY <1>1, <1>3 DEF Due

(* Who has the lock finds no temporary file, so that what it planned from  *)
(* one and finds unchanged is none.                                        *)
LEMMA AcquireDue ==
  ASSUME ServiceInv, CalmInv, rule' = rule, NEW p \in Proc, Due(p), AcquireLock(p),
         lock \in {NoProc, p}
  PROVE  Due(p)' /\ OwnFiles(p)'
<1>1. tree' = tree /\ plan' = plan /\ pc[p] = "planned"
  BY DEF AcquireLock
<1>2. Due(p)'
  BY <1>1 DEF Due, Making
<1>3. NoTmps
  <2>1. \A q \in Proc : pc[q] # "copying"
    BY <1>1 DEF CalmInv, Held
  <2> QED
    BY <2>1, NobodyCopies DEF CalmInv
<1>4. ASSUME NEW a \in plan[p], a.type \in {"mkdir", "copy", "delete"} PROVE ~IsTmp(a.path)
  <2>1. Apt(rule, tree, a) /\ a.path \in Path /\ Origin(a) \in Side /\ Destination(a) \in Side
    BY ActionSides DEF Due
  <2>2. \E side \in Side : tree[side][a.path].type # "none"
    BY <1>4, <2>1 DEF Apt
  <2> QED
    BY <1>3, <2>1, <2>2 DEF NoTmps
<1>5. OwnFiles(p)'
  BY <1>1, <1>4 DEF OwnFiles
<1> QED
  BY <1>2, <1>5

LEMMA FinishDue ==
  ASSUME NEW p \in Proc, Due(p), Finish(p), rule' = rule
  PROVE  \A a \in Left(rule, tree)' : Slack(a)
<1>1. plan[p] = {} /\ pc[p] = "exec" /\ tree' = tree
  BY DEF Finish
<1> QED
  BY <1>1 DEF Due, Making, Left

(* What makes an action fail.                                              *)
LEMMA MismatchedThere ==
  ASSUME NEW T, NEW side \in Side, NEW x, T[side][x].type # "none", T[Other(side)][x].type # "none",
         T[side][x].type # T[Other(side)][x].type
  PROVE  /\ T["source"][x].type # "none" /\ T["target"][x].type # "none"
         /\ T["source"][x].type # T["target"][x].type
BY DEF Side, Other

LEMMA BeginCopyFails ==
  ASSUME ServiceInv, ShapeInv, CalmInv, NEW p \in Proc, NEW a \in plan[p], a.type = "copy", Due(p),
         ~(CanRead(a) /\ (KindOf[Destination(a)] = "local" => CanBeginWrite(tree[Destination(a)], a.path)))
  PROVE  \E x \in Path : Mismatched(x)
<1> DEFINE to == Destination(a)
           from == Origin(a)
<1>1. /\ a.path \in Path /\ to \in Side /\ from \in Side /\ Other(to) = from /\ Ancestors[a.path] \subseteq Path
  BY ActionSides
<1>2. tree[from][a.path].type = "file"
  BY DEF Due, Apt
<1>3. TmpOf[a.path] # NoPath => tree[to][TmpOf[a.path]].type # "dir"
  BY <1>1 DEF CalmInv, TmpsMade, IsTmp
<1>4. PICK y \in Ancestors[a.path] : tree[to][y].type = "file"
  BY <1>2, <1>3 DEF CanRead, CanBeginWrite, CanMkdirAll
<1>5. tree[from][y].type = "dir"
  BY <1>1, <1>2 DEF ShapeInv, Shaped, WellFormed, Present
<1> HIDE DEF to, from
<1> QED
  BY <1>1, <1>4, <1>5, MismatchedThere DEF Mismatched, Present

LEMMA FinishCopyFails ==
  ASSUME ServiceInv, ShapeInv, CalmInv, NEW p \in Proc, FinishCopy(p), Due(p), Ready(p), pc'[p] = "idle"
  PROVE  \E x \in Path : Mismatched(x)'
<1> SUFFICES ASSUME NEW a, a = First(plan[p]) PROVE \E x \in Path : Mismatched(x)'
  OBVIOUS
<1> DEFINE to == Destination(a)
           from == Origin(a)
           local == KindOf[to] = "local"
<1>0. a \in plan[p] /\ pc[p] = "copying"
  BY DEF ServiceInv, FinishCopy
<1>1. /\ a.path \in Path /\ to \in Side /\ from \in Side /\ from # to /\ Other(to) = from
      /\ Ancestors[a.path] \subseteq Path
  BY <1>0, ActionSides
<1>2. tree[from][a.path].type = "file" /\ ~IsTmp(a.path)
  BY <1>0 DEF Due, Apt, CalmInv, CopiesProper
<1>3. /\ ~(IF local THEN CanFinishWrite(tree[to], a.path) ELSE CanUpload(tree[to], a.path))
      /\ tree' = [tree EXCEPT ![to] = IF local THEN DropTmp(tree[to], a.path) ELSE tree[to]]
  BY DEF FinishCopy, Goto, Put, ServiceInv
<1>4. /\ tree'[from] = tree[from]
      /\ tree'[to] = IF local THEN DropTmp(tree[to], a.path) ELSE tree[to]
  BY <1>1, <1>3 DEF ServiceInv
<1>5. \A y \in Ancestors[a.path] : tree[from][y].type = "dir"
  BY <1>1, <1>2 DEF ShapeInv, Shaped, WellFormed, Present
<1>6. CASE local
  <2>1. tree[to][a.path].type = "dir"
    BY <1>3, <1>6 DEF Ready, CanFinishWrite
  <2>2. tree'[to][a.path] = tree[to][a.path]
    BY <1>1, <1>2, <1>4, <1>6 DEF DropTmp, IsTmp
  <2> HIDE DEF to, from, local
  <2> QED
    BY <1>1, <1>2, <1>4, <2>1, <2>2, MismatchedThere DEF Mismatched, Present
<1>7. CASE ~local
  <2>1. PICK y \in Path : tree[to][y].type \in {"dir", "file"} /\ tree[from][y].type \in {"dir", "file"}
                          /\ tree[to][y].type # tree[from][y].type
    BY <1>1, <1>2, <1>3, <1>5, <1>7 DEF CanUpload, CanMkdirAll
  <2>2. tree'[to] = tree[to]
    BY <1>4, <1>7
  <2> HIDE DEF to, from, local
  <2> QED
    BY <1>1, <1>4, <2>1, <2>2, MismatchedThere DEF Mismatched, Present
<1> QED
  BY <1>6, <1>7

LEMMA MkdirFails ==
  ASSUME ServiceInv, ShapeInv, NEW p \in Proc, NEW a \in plan[p], a.type = "mkdir", Due(p),
         ~CanMkdirAll(tree[Destination(a)], Ancestors[a.path] \cup {a.path})
  PROVE  \E x \in Path : Mismatched(x)
<1> DEFINE to == Destination(a)
           from == Origin(a)
<1>1. /\ a.path \in Path /\ to \in Side /\ from \in Side /\ Other(to) = from /\ Ancestors[a.path] \subseteq Path
  BY ActionSides
<1>2. tree[from][a.path].type = "dir"
  BY DEF Due, Apt
<1>3. PICK y \in Ancestors[a.path] \cup {a.path} : tree[to][y].type = "file"
  BY DEF CanMkdirAll
<1>4. tree[from][y].type = "dir"
  BY <1>1, <1>2 DEF ShapeInv, Shaped, WellFormed, Present
<1> HIDE DEF to, from
<1> QED
  BY <1>1, <1>3, <1>4, MismatchedThere DEF Mismatched, Present

(* A directory that is to go is empty by then, but for what no listing     *)
(* shows: what it held was to go too, and went before it.                  *)
LEMMA RemoveFails ==
  ASSUME ServiceInv, ShapeInv, Aimed, NEW p \in Proc, NEW a \in plan[p], Remove(p, a), Due(p),
         ~CanDelete(KindOf[Destination(a)], tree[Destination(a)], a.path)
  PROVE  \E side \in Side, x \in Path : Pinned(side, x)
<1>1. /\ a.type = "delete" /\ pc[p] = "exec" /\ a = First(plan[p])
      /\ rule.mode # "two-way" /\ a.direction = Direction
      /\ tree[Origin(a)][a.path].type = "none" /\ tree[Destination(a)][a.path].type # "none"
  BY DEF Remove, Executes, Due, Apt, Aimed
<1>2. Destination(a) = To /\ Origin(a) = From /\ To \in Side /\ From \in Side /\ a.path \in Path
  BY <1>1, FromTo, ActionSides
<1>3. PICK y \in Path : a.path \in Ancestors[y] /\ tree[To][y].type # "none"
  BY <1>1, <1>2 DEF CanDelete, Occupied, Present
<1>4. tree[To][a.path].type = "dir"
  BY <1>2, <1>3 DEF ShapeInv, Shaped, WellFormed, Present
<1>5. CASE y \in Ignored
  BY <1>2, <1>3, <1>4, <1>5 DEF Pinned, Present
<1>6. CASE y \notin Ignored
  <2> DEFINE b == Act("delete", Direction, y)
             i == FileInfo(KindOf["source"], tree["source"][y])
             j == FileInfo(KindOf["target"], tree["target"][y])
  <2>1. tree[From][y].type = "none"
    BY <1>1, <1>2, <1>3 DEF ShapeInv, Shaped, WellFormed, Present
  <2>2. i.type = tree["source"][y].type /\ j.type = tree["target"][y].type
    <3>1. tree["source"][y] \in Proper /\ tree["target"][y] \in Proper
      BY DEF ServiceInv, ATree, Side
    <3> QED
      BY <3>1, FileInfoFields
  <2>3. ActAt(rule, i, j, y, b)
    <3>1. rule.mode \in {"one-way-push", "one-way-pull"}
      BY <1>1 DEF ServiceInv, Modes
    <3> HIDE DEF i, j
    <3>2. CASE rule.mode = "one-way-push"
      <4>1. Listed(j) /\ ~Listed(i) /\ b = Act("delete", ToTarget, y)
        BY <1>3, <2>1, <2>2, <3>2 DEF From, To, Other, Direction, Listed
      <4> QED
        BY <3>2, <4>1 DEF ActAt, OneWayAct
    <3>3. CASE rule.mode = "one-way-pull"
      <4>1. Listed(i) /\ ~Listed(j) /\ b = Act("delete", ToSource, y)
        BY <1>3, <2>1, <2>2, <3>3 DEF From, To, Other, Direction, Listed
      <4> QED
        BY <3>3, <4>1 DEF ActAt, OneWayAct
    <3> QED
      BY <3>1, <3>2, <3>3
  <2>4. b \in Left(rule, tree)
    <3>1. rule \in [mode : Modes, conflict : Strategies] /\ tree \in [Side -> ATree]
      BY DEF ServiceInv
    <3> HIDE DEF b
    <3> QED
      BY <1>6, <2>3, <3>1, LeftAt
  <2>5. b.type = "delete" /\ b.path = y /\ b.direction = Direction
    BY DEF Act
  <2> HIDE DEF b
  <2>6. b \in plan[p]
    BY <1>1, <2>4, <2>5 DEF Due, Slack, Making
  <2>7. b # a
    BY <1>2, <1>3, <2>5
  <2>8. Before(a, b)
    <3>1. plan[p] \in SUBSET Action /\ plan[p] # {}
      BY DEF ServiceInv, Sound
    <3>2. \A c, d \in plan[p] : c.direction = d.direction
      BY <1>1 DEF Aimed
    <3> QED
      BY <1>1, <2>6, <2>7, <3>1, <3>2, FirstIsBefore
  <2>9. Depth(a.path) > Depth(y) \/ Depth(a.path) = Depth(y)
    BY <1>1, <2>5, <2>8 DEF Before, TypeOrder
  <2> QED
    BY <1>2, <1>3, <2>9, DeeperBelow
<1> QED
  BY <1>5, <1>6
-----------------------------------------------------------------------------
LEMMA NextAimed ==
  ASSUME ServiceInv, Aimed, [Next]_vars
  PROVE  Aimed'
<1>1. rule' = rule /\ Direction' = Direction
  BY OutsideKept DEF Direction
<1> SUFFICES ASSUME rule.mode # "two-way", NEW p \in Proc, NEW a \in plan'[p]
             PROVE  a.direction = Direction
  BY <1>1 DEF Aimed
<1>2. CASE a \in plan[p]
  BY <1>2 DEF Aimed
<1>3. CASE a \in Plan(rule, listed[p], Listing(KindOf["target"], tree["target"]))
  <2> DEFINE t == Listing(KindOf["target"], tree["target"])
  <2>1. a \in Plan(rule, listed[p], t)
    BY <1>3
  <2> HIDE DEF t
  <2> QED
    BY <2>1, PlanDirection
<1> QED
  BY <1>2, <1>3, PlanStep

LEMMA NextEnded ==
  ASSUME ServiceInv, RestInv, Ended, [Next]_vars
  PROVE  Ended'
<1> SUFFICES ASSUME NEW q \in Proc, outcome'[q] \in {"ok", "failed"} PROVE pc'[q] = "idle"
  BY DEF Ended
<1>1. ASSUME NEW result, End(q, result) PROVE pc'[q] = "idle"
  BY <1>1 DEF End, Goto, ServiceInv
<1>2. CASE Step(q)
  <2>1. \/ \E result : End(q, result)
        \/ outcome' = outcome /\ pc[q] # "idle"
        \/ outcome' = [outcome EXCEPT ![q] = "none"]
    BY <1>2 DEF Step, ExecuteAction, PlanSync, ListTarget, AcquireLock, BeginCopy, Mkdir, Remove,
                Pass, FinishCopy, Finish, Fail, Executes
  <2> QED
    BY <1>1, <2>1 DEF Ended, RestInv
<1>3. CASE Stays(q) /\ Undisturbed(q)
  BY <1>3 DEF Ended, Stays, Undisturbed
<1> QED
  BY <1>2, <1>3, QuietStep

LEMMA ObstructedKept ==
  ASSUME tree' = tree, NEW x, Obstructed(x)
  PROVE  Obstructed(x)'
BY DEF Obstructed, Mismatched, Pinned, Present

(* An action that fails is obstructed; one that succeeds keeps the run as  *)
(* it must be.                                                             *)
LEMMA ExecuteRuns ==
  ASSUME ServiceInv, ServiceInv', RestInv, ShapeInv, OrderInv, rule' = rule,
         NEW q \in Proc, quiet[q], NEW a \in plan[q], ExecuteAction(q, a)
  PROVE  RunInv(q)'
<1>1. /\ pc[q] = "exec" /\ Due(q) /\ OwnFiles(q) /\ CalmInv /\ Aimed
      /\ outcome[q] \notin {"ok", "failed"}
  <2>1. pc[q] = "exec"
    BY DEF ExecuteAction, BeginCopy, Mkdir, Remove, Pass, Executes
  <2> QED
    BY <2>1 DEF OrderInv, RunInv, Ended
<1>2. ASSUME Fail(q), \E x \in Path : Obstructed(x) PROVE RunInv(q)'
  <2>1. tree' = tree /\ pc'[q] = "idle" /\ outcome'[q] = "failed"
    BY <1>2 DEF Fail, End, Goto, ServiceInv, RestInv
  <2>2. \E x \in Path : Obstructed(x)'
    BY <1>2, <2>1, ObstructedKept
  <2> QED
    BY <2>1, <2>2 DEF RunInv
<1>3. ASSUME Due(q)', OwnFiles(q)', outcome' = outcome, pc'[q] = "exec" \/ (pc'[q] = "copying" /\ Ready(q)')
      PROVE  RunInv(q)'
  BY <1>1, <1>3 DEF RunInv
<1>4. ASSUME \E x \in Path : Mismatched(x) PROVE \E x \in Path : Obstructed(x)
  BY <1>4 DEF Obstructed
<1>5. CASE BeginCopy(q, a)
  <2> DEFINE can == CanRead(a) /\ (KindOf[Destination(a)] = "local" => CanBeginWrite(tree[Destination(a)], a.path))
  <2>1. CASE can
    <3>1. outcome' = outcome /\ pc'[q] = "copying"
      BY <1>5, <2>1 DEF BeginCopy, Goto, ServiceInv
    <3>2. Due(q)' /\ OwnFiles(q)' /\ Ready(q)'
      BY <1>1, <1>5, <2>1, BeginCopyDue
    <3> QED
      BY <1>3, <3>1, <3>2
  <2>2. CASE ~can
    <3>1. Fail(q) /\ a.type = "copy"
      BY <1>5, <2>2 DEF BeginCopy
    <3>2. \E x \in Path : Mismatched(x)
      BY <1>1, <2>2, <3>1, BeginCopyFails
    <3> QED
      BY <1>2, <1>4, <3>1, <3>2
  <2> QED
    BY <2>1, <2>2
<1>6. CASE Mkdir(q, a)
  <2> DEFINE can == CanMkdirAll(tree[Destination(a)], Ancestors[a.path] \cup {a.path})
  <2>1. CASE can
    <3>1. outcome' = outcome /\ pc' = pc /\ plan'[q] \subseteq plan[q]
      BY <1>6, <2>1 DEF Mkdir, Done, ServiceInv
    <3>2. Due(q)' /\ OwnFiles(q)'
      BY <1>1, <1>6, <2>1, <3>1, MkdirDue DEF OwnFiles
    <3> QED
      BY <1>1, <1>3, <3>1, <3>2
  <2>2. CASE ~can
    <3>1. Fail(q) /\ a.type = "mkdir"
      BY <1>6, <2>2 DEF Mkdir
    <3>2. \E x \in Path : Mismatched(x)
      BY <1>1, <2>2, <3>1, MkdirFails
    <3> QED
      BY <1>2, <1>4, <3>1, <3>2
  <2> QED
    BY <2>1, <2>2
<1>7. CASE Remove(q, a)
  <2> DEFINE can == CanDelete(KindOf[Destination(a)], tree[Destination(a)], a.path)
  <2>1. CASE can
    <3>1. outcome' = outcome /\ pc' = pc /\ plan'[q] \subseteq plan[q]
      BY <1>7, <2>1 DEF Remove, Done, ServiceInv
    <3>2. Due(q)' /\ OwnFiles(q)'
      BY <1>1, <1>7, <2>1, <3>1, RemoveDue DEF OwnFiles
    <3> QED
      BY <1>1, <1>3, <3>1, <3>2
  <2>2. CASE ~can
    <3>1. Fail(q)
      BY <1>7, <2>2 DEF Remove
    <3>2. \E side \in Side, x \in Path : Pinned(side, x)
      BY <1>1, <1>7, <2>2, RemoveFails
    <3>3. \E x \in Path : Obstructed(x)
      BY <3>2 DEF Obstructed
    <3> QED
      BY <1>2, <3>1, <3>3
  <2> QED
    BY <2>1, <2>2
<1>8. CASE Pass(q, a)
  <2>1. outcome' = outcome /\ pc' = pc
    BY <1>8 DEF Pass
  <2> QED
    BY <1>1, <1>3, <1>8, <2>1, PassDue
<1> QED
  BY <1>5, <1>6, <1>7, <1>8 DEF ExecuteAction

LEMMA StepRuns ==
  ASSUME ServiceInv, ServiceInv', RestInv, ShapeInv, OrderInv, rule' = rule,
         NEW q \in Proc, Step(q), quiet'[q]
  PROVE  RunInv(q)'
<1>1. ASSUME NEW result, End(q, result) PROVE pc'[q] = "idle" /\ outcome'[q] = result
  BY <1>1 DEF End, Goto, ServiceInv, RestInv
<1>2. CASE PlanSync(q)
  <2>1. /\ pc'[q] = "listing" /\ outcome'[q] = "none" /\ tree' = tree
        /\ listed'[q] = Listing(KindOf["source"], tree["source"])
    BY <1>2 DEF PlanSync, Goto, ServiceInv, RestInv
  <2> QED
    BY <2>1 DEF RunInv
<1>3. CASE ListTarget(q)
  <2>1. pc[q] = "listing" /\ pc'[q] = "planned" /\ outcome' = outcome /\ quiet[q]
    BY <1>3 DEF ListTarget, Goto, ServiceInv
  <2>2. listed[q] = Listing(KindOf["source"], tree["source"]) /\ outcome[q] \notin {"ok", "failed"}
    BY <2>1 DEF OrderInv, RunInv, Ended
  <2>3. Due(q)'
    BY <1>3, <2>2, ListDue
  <2> QED
    BY <2>1, <2>2, <2>3 DEF RunInv
<1>4. CASE AcquireLock(q)
  <2>1. pc[q] = "planned" /\ quiet[q]
    BY <1>4 DEF AcquireLock
  <2>2. Due(q) /\ outcome[q] \notin {"ok", "failed"} /\ CalmInv
    BY <2>1 DEF OrderInv, RunInv, Ended
  <2>3. CASE lock \in {NoProc, q}
    <3>1. pc'[q] = "exec" /\ outcome' = outcome
      BY <1>4, <2>3 DEF AcquireLock, Goto, ServiceInv
    <3>2. Due(q)' /\ OwnFiles(q)'
      BY <1>4, <2>2, <2>3, AcquireDue
    <3> QED
      BY <2>2, <3>1, <3>2 DEF RunInv
  <2>4. CASE lock \notin {NoProc, q}
    <3>1. pc'[q] = "idle" /\ outcome'[q] = "refused"
      BY <1>1, <1>4, <2>4 DEF AcquireLock
    <3> QED
      BY <3>1 DEF RunInv
  <2> QED
    BY <2>3, <2>4
<1>5. ASSUME (\E a \in plan[q] : ExecuteAction(q, a)) \/ FinishCopy(q) PROVE quiet[q]
  <2>1. quiet' = quiet \/ \E side, t : Put(q, side, t)
    BY <1>5 DEF ExecuteAction, BeginCopy, Mkdir, Remove, Pass, Fail, FinishCopy
  <2> QED
    BY <2>1, Zenon DEF Put
<1>6. ASSUME \E a \in plan[q] : ExecuteAction(q, a) PROVE RunInv(q)'
  BY <1>5, <1>6, ExecuteRuns
<1>7. CASE FinishCopy(q)
  <2>1. /\ pc[q] = "copying" /\ Due(q) /\ OwnFiles(q) /\ Ready(q) /\ CalmInv /\ Aimed
        /\ outcome[q] \notin {"ok", "failed"}
    <3>1. pc[q] = "copying"
      BY <1>7 DEF FinishCopy
    <3> QED
      BY <1>5, <1>7, <3>1 DEF OrderInv, RunInv, Ended
  <2>2. CASE pc'[q] = "idle"
    <3>1. outcome'[q] = "failed"
      BY <1>1, <1>7, <2>2 DEF FinishCopy, Goto, ServiceInv
    <3>2. \E x \in Path : Mismatched(x)'
      BY <1>7, <2>1, <2>2, FinishCopyFails
    <3> QED
      BY <2>2, <3>1, <3>2 DEF RunInv, Obstructed
  <2>3. CASE pc'[q] # "idle"
    <3>1. outcome' = outcome
      BY <1>1, <1>7, <2>3 DEF FinishCopy
    <3>2. Due(q)' /\ OwnFiles(q)' /\ pc'[q] = "exec"
      BY <1>7, <2>1, <2>3, FinishCopyDue
    <3> QED
      BY <2>1, <3>1, <3>2 DEF RunInv
  <2> QED
    BY <2>2, <2>3
<1>8. CASE Finish(q)
  <2>1. pc[q] = "exec" /\ pc'[q] = "idle" /\ outcome'[q] = "ok" /\ quiet[q]
    BY <1>1, <1>8 DEF Finish
  <2>2. Due(q)
    BY <2>1 DEF OrderInv, RunInv
  <2>3. \A a \in Left(rule, tree)' : Slack(a)
    BY <1>8, <2>2, FinishDue
  <2> QED
    BY <2>1, <2>3 DEF RunInv, Slack
<1> QED
  BY <1>2, <1>3, <1>4, <1>6, <1>7, <1>8 DEF Step

LEMMA NextOrderInv ==
  ASSUME TmpFree, ServiceInv, ServiceInv', RestInv, ShapeInv, OrderInv, mishaps' = mishaps, [Next]_vars
  PROVE  OrderInv'
<1>1. rule' = rule
  BY OutsideKept
<1>2. CalmInv' /\ Aimed' /\ Ended'
  BY NextCalmInv, NextAimed, NextEnded DEF OrderInv
<1>3. ASSUME NEW q \in Proc, quiet'[q] PROVE RunInv(q)'
  <2>1. CASE Step(q)
    BY <1>1, <1>3, <2>1, StepRuns
  <2>2. CASE Stays(q) /\ Undisturbed(q)
    <3>1. tree' = tree /\ outcome'[q] = outcome[q] /\ pc'[q] = pc[q] /\ plan'[q] = plan[q]
          /\ buffer'[q] = buffer[q] /\ listed'[q] = listed[q] /\ quiet[q]
      BY <1>3, <2>2 DEF Stays, Undisturbed
    <3>2. RunInv(q)
      BY <3>1 DEF OrderInv
    <3>3. Due(q) => Due(q)'
      BY <1>1, <3>1 DEF Due, Making
    <3>4. OwnFiles(q) => OwnFiles(q)'
      BY <3>1 DEF OwnFiles
    <3>5. Ready(q) => Ready(q)'
      BY <3>1 DEF Ready
    <3>6. (\E x \in Path : Obstructed(x)) => \E x \in Path : Obstructed(x)'
      BY <3>1, ObstructedKept
    <3> QED
      BY <1>1, <3>1, <3>2, <3>3, <3>4, <3>5, <3>6 DEF RunInv
  <2> QED
    BY <1>3, <2>1, <2>2, QuietStep
<1> QED
  BY <1>2, <1>3 DEF OrderInv

LEMMA InitOrderInv ==
  ASSUME TmpFree, Init
  PROVE  OrderInv
<1>1. \A p \in Proc : /\ pc[p] = "idle" /\ plan[p] = {} /\ listed[p] = Empty
                      /\ outcome[p] = "none" /\ ~quiet[p]
  BY DEF Init
<1>2. TmpsMade
  <2>1. tree \in Start
    BY DEF Init
  <2>2. ASSUME NEW side \in Side, NEW x \in Path, IsTmp(x) PROVE tree[side][x].type = "none"
    <3>1. PICK y \in Path : x = TmpOf[y]
      BY <2>2 DEF IsTmp
    <3>2. TmpOf[y] # NoPath
      BY <3>1
    <3> QED
      BY <2>1, <3>1, <3>2 DEF TmpFree
  <2> QED
    BY <2>2 DEF TmpsMade
<1>3. ListedClear
  BY <1>1, EmptyLists DEF ListedClear
<1> QED
  BY <1>1, <1>2, <1>3 DEF OrderInv, CalmInv, Held, CopiesProper, PlannedClear, Aimed, Ended
-----------------------------------------------------------------------------
(* As long as nothing has gone wrong, OrderInv holds.                      *)
Calm == mishaps = 0 => OrderInv

LEMMA CalmHolds ==
  ASSUME TmpFree
  PROVE  Spec => [](ServiceInv /\ RestInv /\ ShapeInv /\ Calm)
<1> DEFINE Inv == ServiceInv /\ RestInv /\ ShapeInv /\ Calm
<1>1. Init => Inv
  BY InitBase, InitOrderInv DEF Calm
<1>2. ASSUME Inv, [Next]_vars PROVE Inv'
  <2>1. ServiceInv' /\ RestInv' /\ ShapeInv'
    BY <1>2, NextServiceInv, NextRestInv, NextShapeInv
  <2>2. ASSUME mishaps' = 0 PROVE mishaps = 0
    <3>1. mishaps \in Nat
      BY <1>2 DEF RestInv
    <3>2. mishaps' = mishaps \/ mishaps' = mishaps + 1
      <4>1. \A p \in Proc : Step(p) => mishaps' = mishaps
        BY StepOutside DEF outside
      <4>2. \A p \in Proc : Cancel(p) \/ IOError(p) \/ Crash(p) \/ BreakOff(p) => mishaps' = mishaps + 1
        BY DEF Cancel, IOError, Crash, BreakOff, Mishap
      <4> QED
        BY <1>2, <4>1, <4>2 DEF Next, UserEdit, vars
    <3> QED
      BY <2>2, <3>1, <3>2
  <2>3. Calm'
    BY <1>2, <2>1, <2>2, NextOrderInv DEF Calm
  <2> QED
    BY <2>1, <2>3
<1> HIDE DEF Inv
<1>3. Spec => []Inv
  BY <1>1, <1>2, PTL DEF Spec
<1> QED
  BY <1>3 DEF Inv

(* A run that nobody disturbs does not fail, but for what the planner      *)
(* leaves alone (a file where the other side has a directory) or cannot    *)
(* see (ignored entries in a directory to delete), as planner.go:220-238   *)
(* has it: directories come before what goes into them, what they hold     *)
(* goes before them, and so, by the time an action's turn comes, what it   *)
(* needs is there.  For any trees, rules and patterns, and any number of   *)
(* processes and users' changes, until a first mishap leaves a temporary   *)
(* file behind.                                                            *)
THEOREM RunsSucceedInOrder ==
  ASSUME TmpFree
  PROVE  Spec => []OrderedRunSucceeds
<1>1. RestInv /\ Calm => OrderedRunSucceeds
  BY DEF Calm, OrderInv, RunInv, OrderedRunSucceeds
<1> QED
  BY <1>1, CalmHolds, PTL

(* After a run of any rule that nobody disturbed and that ended well, the  *)
(* next plan has nothing to do but to report conflicts and skips: a plan   *)
(* holds an action for whatever differs (planner.go:59-142, 145-216), none *)
(* undoes what another has done, and Compare finds nothing modified where  *)
(* contents are the same (diff.go).  The two sides are of one kind: the    *)
(* checksums of a directory and of Drive are never equal.                  *)
THEOREM RunsConverge ==
  ASSUME TmpFree, KindOf["source"] = KindOf["target"]
  PROVE  Spec => [](mishaps = 0 => Converged)
<1>1. RestInv /\ Calm => (mishaps = 0 => Converged)
  BY DEF Calm, OrderInv, RunInv, Converged, Left, Slack
<1> QED
  BY <1>1, CalmHolds, PTL

(* Of two kinds of entry Compare makes a conflict.                         *)
LEMMA ActAtMismatched ==
  ASSUME NEW r, NEW i, NEW j, NEW x, NEW a, ActAt(r, i, j, x, a),
         Listed(i), Listed(j), i.type # j.type
  PROVE  a.type = "conflict"
<1>1. ~(IsFile(i) /\ IsFile(j))
  BY DEF IsFile
<1>2. \E direction : a = Act("conflict", direction, x)
  BY <1>1 DEF ActAt, OneWayAct, TwoWayAct
<1> QED
  BY <1>2 DEF Act

(* With one-way rules it also holds when earlier runs have crashed or were *)
(* cancelled anywhere: a leftover temporary file is on the side that the   *)
(* rule writes on, where the next plan deletes it (planner.go:96-112), and *)
(* a run that mirrors leaves nothing to do but to report type conflicts.   *)
THEOREM OneWayRunsConverge ==
  ASSUME TmpFree, ToldApart, KindOf["source"] = KindOf["target"]
  PROVE  Spec => [](rule.mode # "two-way" => Converged)
<1> DEFINE Inv == ServiceInv /\ RestInv /\ ShapeInv /\ (rule.mode # "two-way" => OneSideInv /\ QuietInv)
<1>1. Spec => []Inv
  BY OneSideKept
<1>2. Inv => (rule.mode # "two-way" => Converged)
  <2> SUFFICES ASSUME Inv, rule.mode # "two-way", NEW p \in Proc, outcome[p] = "ok", quiet[p],
                      NEW a \in Left(rule, tree)
               PROVE  a.type \in {"conflict", "skip"}
    BY DEF Converged, Left
  <2>1. rule \in [mode : Modes, conflict : Strategies] /\ tree \in [Side -> ATree]
    BY DEF ServiceInv
  <2> DEFINE i(x) == FileInfo(KindOf["source"], tree["source"][x])
             j(x) == FileInfo(KindOf["target"], tree["target"][x])
  <2>2. PICK x \in Path \ Ignored : ActAt(rule, i(x), j(x), x, a)
    BY <2>1, LeftAt
  <2>3. a.path = x
    BY <2>2, ActAtFits
  <2>4. CASE Alike(x)
    <3>1. Same(tree["source"][x], tree["target"][x])
      BY <2>4 DEF Alike, Same, From, To, Other
    <3> QED
      BY <2>1, <2>3, <3>1, LeftSame DEF Slack
  <2>5. CASE Mismatched(x)
    <3>1. tree["source"][x] \in Proper /\ tree["target"][x] \in Proper
      BY <2>1 DEF ATree, Side
    <3>2. i(x).type = tree["source"][x].type /\ j(x).type = tree["target"][x].type
      BY <3>1, FileInfoFields
    <3>3. Listed(i(x)) /\ Listed(j(x)) /\ i(x).type # j(x).type
      BY <2>5, <3>2 DEF Mismatched, Present, Listed
    <3> HIDE DEF i, j
    <3> QED
      BY <2>2, <3>3, ActAtMismatched
  <2> QED
    BY <2>4, <2>5 DEF QuietInv
<1> HIDE DEF Inv
<1> QED
  BY <1>1, <1>2, PTL
=============================================================================
