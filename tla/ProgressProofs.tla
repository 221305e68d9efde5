--------------------------- MODULE ProgressProofs ---------------------------
(***************************************************************************)
(* What the progress of a run shows, for every set of files, sizes and     *)
(* rules: the two sets of books agree, and, while files hold what was      *)
(* announced, no update exceeds the totals and none goes back.             *)
(*                                                                         *)
(* The totals are a sum over the plan and the counters grow action by      *)
(* action, so the invariant balances them: what is counted and what is     *)
(* still to be copied make up the totals at every step.                    *)
(***************************************************************************)
EXTENDS Progress, WellFoundedInduction, FiniteSetTheorems, TLAPS

-----------------------------------------------------------------------------
(* Sums over finite sets (MapThenSumSet, a recursive function).            *)

Pick(s) == CHOOSE x \in s : TRUE

(* g adds up w over the subsets of S, one picked element after the other *)
IsSum(w, S, g) ==
  g = [s \in SUBSET S |-> IF s = {} THEN 0 ELSE w[Pick(s)] + g[s \ {Pick(s)}]]

Sum(w, S) == (CHOOSE f : IsSum(w, S, f))[S]

(* A set of finite sets has one that is minimal. *)
LEMMA Smallest ==
  ASSUME NEW S, IsFiniteSet(S), NEW B \in SUBSET SUBSET S, B # {}
  PROVE  \E T \in B : \A U \in B : U \subseteq T => U = T
<1>1. B \subseteq FiniteSubsetsOf(S)
  BY FS_Subset DEF FiniteSubsetsOf
<1>2. IsWellFoundedOn(StrictSubsetOrdering(S), FiniteSubsetsOf(S))
  BY FS_StrictSubsetOrderingWellFounded
<1>3. PICK T \in B : \A U \in B : ~(<<U, T>> \in StrictSubsetOrdering(S))
  BY <1>1, <1>2, WFMin
<1> QED
  BY <1>3 DEF StrictSubsetOrdering

LEMMA PickIsIn == ASSUME NEW s, s # {} PROVE Pick(s) \in s
BY DEF Pick

LEMMA SumStep ==
  ASSUME NEW w, NEW S, NEW g, IsSum(w, S, g), NEW s \in SUBSET S
  PROVE  g[s] = IF s = {} THEN 0 ELSE w[Pick(s)] + g[s \ {Pick(s)}]
<1> HIDE DEF Pick
<1> QED
  BY DEF IsSum

(* Two such functions agree where both are defined. *)
LEMMA SumUnique ==
  ASSUME NEW w, NEW S, NEW T, IsFiniteSet(S), NEW g, NEW h, IsSum(w, S, g), IsSum(w, T, h)
  PROVE  \A s \in SUBSET S : s \in SUBSET T => g[s] = h[s]
<1> DEFINE Bad == {s \in SUBSET S : s \in SUBSET T /\ g[s] # h[s]}
<1> SUFFICES ASSUME Bad # {} PROVE FALSE
  OBVIOUS
<1>0. Bad \in SUBSET SUBSET S /\ Bad # {}
  OBVIOUS
<1>1. PICK s \in Bad : \A u \in Bad : u \subseteq s => u = s
  <2> HIDE DEF Bad
  <2> QED
    BY <1>0, Smallest
<1>2. s # {}
  BY <1>1, SumStep
<1>3. Pick(s) \in s
  BY <1>2, PickIsIn
<1>4. s \ {Pick(s)} \notin Bad
  BY <1>1, <1>3
<1>5. g[s \ {Pick(s)}] = h[s \ {Pick(s)}]
  BY <1>1, <1>4
<1>6. g[s] = w[Pick(s)] + g[s \ {Pick(s)}] /\ h[s] = w[Pick(s)] + h[s \ {Pick(s)}]
  BY <1>1, <1>2, SumStep
<1> QED
  BY <1>1, <1>5, <1>6

(* Over a finite set there is one. *)
LEMMA SumExists ==
  ASSUME NEW w, NEW S, IsFiniteSet(S)
  PROVE  \E g : IsSum(w, S, g)
<1> DEFINE G(u) == CHOOSE g : IsSum(w, u, g)
           Bad == {u \in SUBSET S : ~\E g : IsSum(w, u, g)}
<1> SUFFICES ASSUME Bad # {} PROVE FALSE
  BY S \in SUBSET S
<1>0. Bad \in SUBSET SUBSET S /\ Bad # {}
  OBVIOUS
<1>1. PICK T \in Bad : \A u \in Bad : u \subseteq T => u = T
  <2> HIDE DEF Bad
  <2> QED
    BY <1>0, Smallest
<1> DEFINE F(u) == IF u = {} THEN 0 ELSE w[Pick(u)] + G(u \ {Pick(u)})[u \ {Pick(u)}]
           g == [u \in SUBSET T |-> F(u)]
<1>2. ASSUME NEW u \in SUBSET T, u # T PROVE IsSum(w, u, G(u)) /\ IsFiniteSet(u)
  <2>1. u \notin Bad /\ u \in SUBSET S
    BY <1>1, <1>2
  <2>2. \E f : IsSum(w, u, f)
    BY <2>1
  <2> QED
    BY <2>1, <2>2, FS_Subset
<1> HIDE DEF G
<1>3. ASSUME NEW u \in SUBSET T, u # T PROVE G(u)[u] = F(u)
  <2>1. CASE u = {}
    BY <1>2, <1>3, <2>1, SumStep, u \in SUBSET u
  <2>2. CASE u # {}
    <3> DEFINE v == u \ {Pick(u)}
    <3>1. v \in SUBSET u /\ v \in SUBSET T /\ v # T
      BY <1>3, <2>2, PickIsIn
    <3>2. G(u)[u] = w[Pick(u)] + G(u)[v]
      BY <1>2, <1>3, <2>2, SumStep
    <3>3. IsSum(w, u, G(u)) /\ IsFiniteSet(u) /\ IsSum(w, v, G(v))
      BY <1>2, <1>3, <3>1
    <3>4. G(u)[v] = G(v)[v]
      BY <3>1, <3>3, SumUnique
    <3> QED
      BY <2>2, <3>2, <3>4
  <2> QED
    BY <2>1, <2>2
<1>4. ASSUME NEW u \in SUBSET T, u # {} PROVE g[u] = w[Pick(u)] + g[u \ {Pick(u)}]
  <2>1. Pick(u) \in u
    BY <1>4, PickIsIn
  <2>2. u \ {Pick(u)} \in SUBSET T /\ u \ {Pick(u)} # T
    BY <2>1
  <2>3. G(u \ {Pick(u)})[u \ {Pick(u)}] = F(u \ {Pick(u)})
    BY <1>3, <2>2
  <2> HIDE DEF Pick
  <2> QED
    BY <1>4, <2>2, <2>3
<1>5. IsSum(w, T, g)
  <2>1. \A u \in SUBSET T : g[u] = IF u = {} THEN 0 ELSE w[Pick(u)] + g[u \ {Pick(u)}]
    BY <1>4
  <2>2. g = [u \in SUBSET T |-> g[u]]
    OBVIOUS
  <2> HIDE DEF g
  <2> QED
    BY <2>1, <2>2 DEF IsSum
<1> QED
  BY <1>1, <1>5

(* The sum is a number, and any element may be taken out of it first. *)
LEMMA SumTakesOut ==
  ASSUME NEW S, IsFiniteSet(S), NEW w, \A x \in S : w[x] \in Nat
  PROVE  /\ Sum(w, S) \in Nat
         /\ Sum(w, {}) = 0
         /\ \A a \in S : Sum(w, S) = w[a] + Sum(w, S \ {a})
<1> DEFINE g == CHOOSE f : IsSum(w, S, f)
<1>1. IsSum(w, S, g)
  BY SumExists
<1>2. ASSUME NEW T \in SUBSET S PROVE Sum(w, T) = g[T]
  <2>1. IsFiniteSet(T)
    BY FS_Subset
  <2>2. IsSum(w, T, CHOOSE f : IsSum(w, T, f))
    BY <2>1, SumExists
  <2>3. T \in SUBSET T
    OBVIOUS
  <2>4. g[T] = (CHOOSE f : IsSum(w, T, f))[T]
    <3> DEFINE h == CHOOSE f : IsSum(w, T, f)
    <3>1. IsSum(w, T, h)
      BY <2>2
    <3> HIDE DEF g, h
    <3>2. g[T] = h[T]
      BY <1>1, <2>3, <3>1, SumUnique
    <3> QED
      BY <3>2 DEF h
  <2> QED
    BY <2>4 DEF Sum
<1> HIDE DEF g
<1> DEFINE Bad == {T \in SUBSET S : ~(g[T] \in Nat /\ \A a \in T : g[T] = w[a] + g[T \ {a}])}
<1>3. Bad = {}
  <2> SUFFICES ASSUME Bad # {} PROVE FALSE
    OBVIOUS
  <2>0. Bad \in SUBSET SUBSET S /\ Bad # {}
    OBVIOUS
  <2>1. PICK T \in Bad : \A u \in Bad : u \subseteq T => u = T
    <3> HIDE DEF Bad
    <3> QED
      BY <2>0, Smallest
  <2>2. T # {}
    <3>1. T = {} => g[T] = 0
      BY <1>1, SumStep
    <3> QED
      BY <2>1, <3>1
  <2> DEFINE x == Pick(T)
  <2>3. x \in T /\ x \in S
    BY <2>1, <2>2, PickIsIn
  <2>4. g[T] = w[x] + g[T \ {x}]
    BY <1>1, <2>1, <2>2, SumStep
  <2> HIDE DEF x
  <2>5. ASSUME NEW a \in T PROVE T \ {a} \notin Bad /\ T \ {a} \in SUBSET S
    BY <2>1
  <2>6. ASSUME NEW a \in T
        PROVE g[T \ {a}] \in Nat /\ \A b \in T \ {a} : g[T \ {a}] = w[b] + g[(T \ {a}) \ {b}]
    <3>1. \A U \in SUBSET S : U \notin Bad => g[U] \in Nat /\ \A b \in U : g[U] = w[b] + g[U \ {b}]
      OBVIOUS
    <3> HIDE DEF Bad
    <3> QED
      BY <2>5, <3>1
  <2>7. g[T] \in Nat
    <3>1. g[T \ {x}] \in Nat /\ w[x] \in Nat
      BY <2>3, <2>6
    <3> HIDE DEF Bad
    <3> QED
      BY <2>4, <3>1
  <2>8. ASSUME NEW a \in T PROVE g[T] = w[a] + g[T \ {a}]
    <3>1. CASE a = x
      BY <2>4, <3>1
    <3>2. CASE a # x
      <4>1. g[T \ {x}] = w[a] + g[(T \ {x}) \ {a}]
        BY <2>3, <2>6, <3>2
      <4>2. g[T \ {a}] = w[x] + g[(T \ {a}) \ {x}]
        BY <2>3, <2>6, <3>2
      <4>3. (T \ {x}) \ {a} = (T \ {a}) \ {x}
        OBVIOUS
      <4>4. (T \ {x}) \ {a} \in SUBSET S /\ (T \ {x}) \ {a} \notin Bad
        BY <2>1, <2>3
      <4>5. g[(T \ {x}) \ {a}] \in Nat /\ w[a] \in Nat /\ w[x] \in Nat
        BY <2>1, <2>3, <4>4
      <4> QED
        BY <2>4, <4>1, <4>2, <4>3, <4>5
    <3> QED
      BY <3>1, <3>2
  <2> QED
    BY <2>1, <2>7, <2>8
<1>4. g[{}] = 0
  BY <1>1, SumStep
<1>5. S \in SUBSET S /\ S \notin Bad /\ {} \in SUBSET S
  BY <1>3
<1>6. g[S] \in Nat /\ \A a \in S : g[S] = w[a] + g[S \ {a}]
  BY <1>5
<1> QED
  BY <1>2, <1>4, <1>5, <1>6

(* The bytes of calculateStats are such a sum.                             *)
LEMMA StatsSum ==
  ASSUME NEW r, NEW i, NEW S, NEW w, \A a \in S : w[a] = FileSize(r, i, a)
  PROVE  MapThenSumSet(LAMBDA a : FileSize(r, i, a), S) = Sum(w, S)
<1> DEFINE F(g) == g = [s \in SUBSET S |-> IF s = {} THEN 0 ELSE FileSize(r, i, Pick(s)) + g[s \ {Pick(s)}]]
<1>1. MapThenSumSet(LAMBDA a : FileSize(r, i, a), S) = (CHOOSE f : F(f))[S]
  BY DEF MapThenSumSet, MapThenFoldSet, Pick
<1>2. ASSUME NEW g PROVE F(g) <=> IsSum(w, S, g)
  <2>1. \A s \in SUBSET S : s # {} => FileSize(r, i, Pick(s)) = w[Pick(s)]
    BY PickIsIn
  <2> HIDE DEF Pick
  <2> QED
    BY <2>1 DEF IsSum
<1> HIDE DEF F
<1>3. (CHOOSE f : F(f)) = (CHOOSE f : IsSum(w, S, f))
  BY <1>2
<1> QED
  BY <1>1, <1>3 DEF Sum

-----------------------------------------------------------------------------
(* Plans are finite sets of actions, and every file has a length.          *)

InfoTyped == \A p \in Path : info["source"][p].size \in Nat /\ info["target"][p].size \in Nat

LEMMA PlanIsPlan ==
  ASSUME NEW r \in [mode : Modes, conflict : Strategies], NEW s, NEW t
  PROVE  Plan(r, s, t) \subseteq Action
<1>1. ASSUME NEW from, NEW to, NEW direction \in {ToTarget, ToSource}
      PROVE  PlanOneWay(from, to, direction) \subseteq Action
  BY <1>1 DEF PlanOneWay, Transfer, Act, Action
<1>2. \A x : Resolve(r.conflict, x, s[x], t[x]) \in
               [type : {"copy", "skip", "conflict"}, direction : {ToTarget, ToSource}, path : {x}]
  BY DEF Resolve, Act
<1>3. PlanTwoWay(s, t, r.conflict) \subseteq Action
  BY <1>2 DEF PlanTwoWay, Transfer, Act, Action
<1> QED
  BY <1>1, <1>3 DEF Plan, Modes

LEMMA CopiesFinite ==
  ASSUME NEW actions, actions \subseteq Action
  PROVE  IsFiniteSet(Copies(actions))
<1>1. ASSUME NEW direction PROVE IsFiniteSet({Act("copy", direction, p) : p \in Path})
  <2> DEFINE f == [p \in Path |-> Act("copy", direction, p)]
             T == {Act("copy", direction, p) : p \in Path}
  <2>1. f \in Surjection(Path, T)
    BY DEF Surjection
  <2> HIDE DEF f, T
  <2>2. IsFiniteSet(T)
    BY <2>1, FS_Surjection, TreeAssumption
  <2> QED
    BY <2>2 DEF T
<1> DEFINE S == {Act("copy", ToTarget, p) : p \in Path}
           T == {Act("copy", ToSource, p) : p \in Path}
<1>2. Copies(actions) \in SUBSET (S \cup T)
  BY DEF Copies, Action, Act
<1>3. IsFiniteSet(S) /\ IsFiniteSet(T)
  BY <1>1
<1> HIDE DEF S, T
<1>4. IsFiniteSet(S \cup T)
  BY <1>3, FS_Union
<1> QED
  BY <1>2, <1>4, FS_Subset

LEMMA ListingSizes ==
  ASSUME NEW t \in Pairs, NEW side \in {"source", "target"}, NEW p \in Path
  PROVE  Listing("local", t[side])[p].size \in Nat
<1> DEFINE e == t[side][p]
<1>1. e.type = "file" => e.content \in Content
  BY ProgressAssumption, Zenon
<1>2. e.type = "file" => SizeOf[e.content] \in Nat
  BY <1>1, TreeAssumption
<1>3. FileInfo("local", e).size \in Nat
  <2> HIDE DEF e
  <2> QED
    BY <1>2 DEF FileInfo, NoInfo
<1> HIDE DEF e
<1>4. Listing("local", t[side])[p] = IF p \in Ignored THEN NoInfo ELSE FileInfo("local", e)
  BY DEF Listing, e
<1>5. NoInfo.size \in Nat
  BY DEF NoInfo
<1> QED
  BY <1>3, <1>4, <1>5

LEMMA FileSizeType ==
  ASSUME NEW r, NEW i, NEW a, a.path \in Path,
         \A p \in Path : i["source"][p].size \in Nat /\ i["target"][p].size \in Nat
  PROVE  FileSize(r, i, a) \in Nat
BY DEF FileSize, SourceInfo

(* The statistics of a plan, and what they lose when an action is done.    *)
LEMMA StatsLose ==
  ASSUME NEW r, NEW i, NEW actions, actions \subseteq Action, NEW a,
         \A p \in Path : i["source"][p].size \in Nat /\ i["target"][p].size \in Nat
  PROVE  /\ Stats(r, i, actions) \in Counts
         /\ actions = {} => Stats(r, i, actions) = NoCounts
         /\ a \in Copies(actions) =>
              /\ FileSize(r, i, a) \in Nat
              /\ Stats(r, i, actions) = Plus(Stats(r, i, actions \ {a}), 1, FileSize(r, i, a))
         /\ a \notin Copies(actions) => Stats(r, i, actions \ {a}) = Stats(r, i, actions)
<1> DEFINE w == [b \in Action |-> FileSize(r, i, b)]
           C(s) == Copies(s)
           Bytes(s) == MapThenSumSet(LAMBDA b : FileSize(r, i, b), Copies(s))
<1>1. \A b \in Action : w[b] = FileSize(r, i, b) /\ w[b] \in Nat
  BY FileSizeType DEF Action
<1>2. ASSUME NEW s, s \subseteq Action
      PROVE  /\ IsFiniteSet(Copies(s)) /\ Bytes(s) = Sum(w, Copies(s)) /\ Bytes(s) \in Nat
             /\ Cardinality(Copies(s)) \in Nat
  <2> HIDE DEF w
  <2>1. \A b \in Copies(s) : w[b] = FileSize(r, i, b) /\ w[b] \in Nat
    BY <1>1, <1>2 DEF Copies
  <2>2. IsFiniteSet(Copies(s))
    BY <1>2, CopiesFinite
  <2>3. Bytes(s) = Sum(w, Copies(s))
    BY <2>1, StatsSum
  <2> HIDE DEF Bytes
  <2> QED
    BY <2>1, <2>2, <2>3, SumTakesOut, FS_CardinalityType
<1> HIDE DEF w
<1>3. \A s : Stats(r, i, s) = [files |-> Cardinality(Copies(s)), bytes |-> Bytes(s)]
  BY DEF Stats
<1>4. \A b \in Copies(actions) : w[b] = FileSize(r, i, b) /\ w[b] \in Nat
  BY <1>1 DEF Copies
<1> HIDE DEF Bytes
<1>5. Stats(r, i, actions) \in Counts
  BY <1>2, <1>3 DEF Counts
<1>6. ASSUME actions = {} PROVE Stats(r, i, actions) = NoCounts
  <2>1. Copies(actions) = {}
    BY <1>6 DEF Copies
  <2>2. Cardinality(Copies(actions)) = 0 /\ Bytes(actions) = 0
    BY <1>2, <1>4, <2>1, FS_EmptySet, SumTakesOut
  <2> QED
    BY <1>3, <2>2 DEF NoCounts
<1>7. ASSUME a \in Copies(actions)
      PROVE  /\ FileSize(r, i, a) \in Nat
             /\ Stats(r, i, actions) = Plus(Stats(r, i, actions \ {a}), 1, FileSize(r, i, a))
  <2>1. Copies(actions \ {a}) = Copies(actions) \ {a}
    BY DEF Copies
  <2>2. Cardinality(Copies(actions)) = Cardinality(Copies(actions \ {a})) + 1
    <3>1. IsFiniteSet(Copies(actions)) /\ Cardinality(Copies(actions)) \in Nat
      BY <1>2
    <3>2. Cardinality(Copies(actions) \ {a}) = Cardinality(Copies(actions)) - 1
      BY <1>7, <3>1, FS_RemoveElement
    <3> QED
      BY <2>1, <3>1, <3>2
  <2>3. Sum(w, Copies(actions)) = w[a] + Sum(w, Copies(actions) \ {a})
    BY <1>2, <1>4, <1>7, SumTakesOut
  <2>4. Bytes(actions) = FileSize(r, i, a) + Bytes(actions \ {a}) /\ FileSize(r, i, a) \in Nat
    BY <1>2, <1>4, <1>7, <2>1, <2>3
  <2>5. Bytes(actions \ {a}) \in Nat /\ Cardinality(Copies(actions \ {a})) \in Nat
    BY <1>2
  <2> QED
    BY <1>3, <2>2, <2>4, <2>5 DEF Plus
<1>8. ASSUME a \notin Copies(actions) PROVE Stats(r, i, actions \ {a}) = Stats(r, i, actions)
  <2>1. Copies(actions \ {a}) = Copies(actions)
    BY <1>8 DEF Copies
  <2> QED
    BY <2>1 DEF Stats
<1> QED
  BY <1>5, <1>6, <1>7, <1>8

-----------------------------------------------------------------------------
(* The books balance: what is counted and what is left to copy make up the *)
(* totals, and the reporter is ahead of ExecuteSync by the copy of which   *)
(* only the reporter has been told.                                        *)
Left == Stats(rule, info, plan)

Ahead == IF pc = "copied" THEN [files |-> 1, bytes |-> FileSize(rule, info, First(plan))]
                          ELSE NoCounts

BooksInv ==
  /\ pc # "idle" =>
       /\ outcome = "none"
       /\ Plus(overall, Left.files, Left.bytes) = reporter.total
       /\ reporter.completed =
            Plus(base, overall.files + Ahead.files, overall.bytes + Ahead.bytes)
  /\ pc \in {"reading", "copied"} => First(plan) \in Copies(plan)
  /\ pc = "reading" => reporter.current = FileSize(rule, info, First(plan))
  /\ outcome = "ok" =>
       /\ overall = reporter.total
       /\ reporter.completed = Plus(base, overall.files, overall.bytes)

(* While files hold what was announced, an update shows no more than is    *)
(* completed and read.                                                     *)
Reached == Plus(reporter.completed, 0, IF pc = "reading" THEN transferred ELSE 0)

ShownInv ==
  exact /\ base = NoCounts =>
    /\ pc = "reading" => length = reporter.current
    /\ pc # "idle" => AtMost(shown.completed, Reached)
    /\ AtMost(shown.completed, reporter.total)

Typed == TypeOK /\ InfoTyped

-----------------------------------------------------------------------------
LEMMA InitTyped == Init => Typed
<1> SUFFICES ASSUME Init PROVE Typed
  OBVIOUS
<1>1. TypeOK
  BY ProgressAssumption DEF Init, TypeOK, NewReporter, NoCounts, NoUpdate, Counts
<1>2. InfoTyped
  BY DEF Init, InfoTyped, NoInfo
<1> QED
  BY <1>1, <1>2 DEF Typed

LEMMA PlusType ==
  ASSUME NEW m \in Counts, NEW files \in Nat, NEW bytes \in Nat
  PROVE  /\ Plus(m, files, bytes) \in Counts
         /\ Plus(m, files, bytes).files = m.files + files
         /\ Plus(m, files, bytes).bytes = m.bytes + bytes
BY DEF Plus, Counts

LEMMA CountsEqual ==
  ASSUME NEW m \in Counts, NEW n \in Counts, m.files = n.files, m.bytes = n.bytes
  PROVE  m = n
BY DEF Counts

(* Actions keep the types. *)
LEMMA NextTyped == Typed /\ BooksInv /\ [Next]_vars => Typed'
<1> SUFFICES ASSUME Typed, BooksInv, [Next]_vars PROVE Typed'
  OBVIOUS
<1> USE DEF Typed, TypeOK
<1>0. NoCounts \in Counts /\ Sizes \subseteq Nat /\ 0 \in Nat /\ 1 \in Nat
  BY TreeAssumption DEF NoCounts, Counts, Sizes
<1>1. CASE SetTotal
  <2>1. PICK r \in Rules, t \in Pairs, mine \in {reporter, NewReporter} :
          LET i == [source |-> Listing("local", t["source"]),
                    target |-> Listing("local", t["target"])] IN
          /\ rule' = r /\ info' = i
          /\ plan' = Plan(r, i["source"], i["target"])
          /\ reporter' = [mine EXCEPT !.total = Stats(r, i, plan')]
          /\ base' = mine.completed
    BY <1>1 DEF SetTotal
  <2> DEFINE i == [source |-> Listing("local", t["source"]),
                   target |-> Listing("local", t["target"])]
  <2>2. \A p \in Path : i["source"][p].size \in Nat /\ i["target"][p].size \in Nat
    BY ListingSizes
  <2>3. r \in [mode : Modes, conflict : Strategies]
    BY ProgressAssumption
  <2>4. plan' \subseteq Action
    BY <2>1, <2>3, PlanIsPlan
  <2>5. info' = i /\ rule' = r /\ reporter' = [mine EXCEPT !.total = Stats(r, i, plan')]
        /\ base' = mine.completed
    BY <2>1
  <2> HIDE DEF i
  <2>6. Stats(r, i, plan') \in Counts
    BY <2>2, <2>4, StatsLose
  <2>7. mine \in [total : Counts, completed : Counts, current : Nat]
    BY <1>0 DEF NewReporter
  <2>8. /\ reporter' \in [total : Counts, completed : Counts, current : Nat]
        /\ base' \in Counts
    BY <2>5, <2>6, <2>7
  <2>9. /\ rule' \in Rules /\ runs' \in 0..MaxRuns
        /\ pc' = "exec" /\ overall' = NoCounts /\ shown' = NoUpdate /\ outcome' = "none"
        /\ exact' = TRUE /\ UNCHANGED <<length, transferred>>
    BY <1>1, ProgressAssumption DEF SetTotal
  <2>10. TypeOK'
    BY <1>0, <2>4, <2>8, <2>9 DEF NoUpdate
  <2> QED
    BY <2>2, <2>5, <2>10 DEF InfoTyped
<1>2. ASSUME NEW a \in plan, StartCopy(a) PROVE Typed'
  <2>1. FileSize(rule, info, a) \in Nat
    BY FileSizeType DEF InfoTyped, Action
  <2> QED
    BY <1>0, <1>2, <2>1 DEF StartCopy, Show, InfoTyped
<1>3. CASE Update
  <2>1. transferred' \in 0..length /\ transferred' \in Nat
    BY <1>0, <1>3 DEF Update
  <2> QED
    BY <1>0, <1>3, <2>1, PlusType DEF Update, Show, InfoTyped
<1>4. CASE Complete
  BY <1>0, <1>4, PlusType DEF Complete, Show, InfoTyped
<1>5. CASE OverallProgress
  <2> DEFINE a == First(plan)
  <2>1. a \in plan
    BY <1>5 DEF OverallProgress, BooksInv, Copies
  <2>2. FileSize(rule, info, a) \in Nat
    BY <2>1, FileSizeType DEF InfoTyped, Action
  <2> QED
    BY <1>0, <1>5, <2>2, PlusType DEF OverallProgress, Show, InfoTyped
<1>6. CASE OtherAction
  BY <1>6 DEF OtherAction, InfoTyped
<1>7. CASE Error
  BY <1>0, <1>7 DEF Error, Show, InfoTyped
<1>8. CASE Finish
  BY <1>0, <1>8 DEF Finish, InfoTyped
<1>9. CASE UNCHANGED vars
  BY <1>9 DEF vars, InfoTyped
<1> QED
  BY <1>1, <1>2, <1>3, <1>4, <1>5, <1>6, <1>7, <1>8, <1>9 DEF Next

-----------------------------------------------------------------------------
LEMMA NextBooksInv == Typed /\ BooksInv /\ [Next]_vars => BooksInv'
<1> SUFFICES ASSUME Typed, BooksInv, [Next]_vars PROVE BooksInv'
  OBVIOUS
<1> USE DEF Typed, TypeOK
<1>0. /\ Left \in Counts
      /\ plan = {} => Left = NoCounts
      /\ \A a \in Copies(plan) :
           /\ FileSize(rule, info, a) \in Nat
           /\ Left = Plus(Stats(rule, info, plan \ {a}), 1, FileSize(rule, info, a))
           /\ Stats(rule, info, plan \ {a}) \in Counts
      /\ \A a : a \notin Copies(plan) => Stats(rule, info, plan \ {a}) = Left
  <2>1. \A a : plan \ {a} \subseteq Action
    OBVIOUS
  <2> QED
    BY <2>1, StatsLose DEF Left, InfoTyped
<1>1. CASE SetTotal
  <2>1. pc' = "exec" /\ overall' = NoCounts /\ outcome' = "none"
    BY <1>1 DEF SetTotal
  <2>2. Left' = reporter'.total /\ reporter'.completed = base' /\ base' \in Counts
        /\ Left' \in Counts
    <3>1. PICK r \in Rules, t \in Pairs, mine \in {reporter, NewReporter} :
            LET i == [source |-> Listing("local", t["source"]),
                      target |-> Listing("local", t["target"])] IN
            /\ rule' = r /\ info' = i
            /\ reporter' = [mine EXCEPT !.total = Stats(r, i, plan')]
            /\ base' = mine.completed
      BY <1>1 DEF SetTotal
    <3>2. mine \in [total : Counts, completed : Counts, current : Nat]
      BY DEF NewReporter, NoCounts, Counts
    <3>3. reporter' = [mine EXCEPT !.total = Stats(rule', info', plan')]
      BY <3>1
    <3>4. Typed'
      BY NextTyped DEF Typed
    <3>5. Left' \in Counts
      BY <3>4, StatsLose DEF Left, InfoTyped
    <3> QED
      BY <3>1, <3>2, <3>3, <3>5 DEF Left
  <2>3. Plus(overall', Left'.files, Left'.bytes) = Left' /\ Plus(base', 0, 0) = base'
    BY <2>1, <2>2 DEF Plus, NoCounts, Counts
  <2> QED
    BY <2>1, <2>2, <2>3 DEF BooksInv, Ahead, NoCounts
<1>2. ASSUME NEW a \in plan, StartCopy(a) PROVE BooksInv'
  <2>1. /\ pc = "exec" /\ a = First(plan) /\ a.type = "copy" /\ pc' = "reading"
        /\ reporter' = [reporter EXCEPT !.current = FileSize(rule, info, a)]
        /\ UNCHANGED <<rule, info, plan, overall, outcome, base>>
    BY <1>2 DEF StartCopy
  <2>2. /\ reporter'.current = FileSize(rule, info, a) /\ reporter'.total = reporter.total
        /\ reporter'.completed = reporter.completed /\ Left' = Left
    BY <2>1 DEF Left
  <2> QED
    BY <2>1, <2>2 DEF BooksInv, Ahead, Copies
<1>3. CASE Update
  BY <1>3 DEF Update, BooksInv, Ahead, Left
<1>4. CASE Complete
  <2> DEFINE a == First(plan)
  <2>1. /\ pc = "reading" /\ pc' = "copied" /\ a \in Copies(plan)
        /\ reporter' = [reporter EXCEPT !.completed = Plus(@, 1, reporter.current)]
        /\ UNCHANGED <<rule, info, plan, overall, outcome, base>>
    BY <1>4 DEF Complete, BooksInv
  <2>2. /\ reporter'.completed = Plus(reporter.completed, 1, FileSize(rule, info, a))
        /\ reporter'.total = reporter.total /\ Left' = Left
    BY <2>1 DEF Left, BooksInv
  <2>3. reporter.completed = Plus(base, overall.files, overall.bytes)
    <3>1. overall.files + 0 = overall.files /\ overall.bytes + 0 = overall.bytes
      BY DEF Counts
    <3> QED
      BY <2>1, <3>1 DEF BooksInv, Ahead, NoCounts
  <2>4. FileSize(rule, info, a) \in Nat
    BY <1>0, <2>1
  <2>5. reporter'.completed = Plus(base, overall.files + 1, overall.bytes + FileSize(rule, info, a))
    BY <2>2, <2>3, <2>4 DEF Plus, Counts
  <2> QED
    BY <2>1, <2>2, <2>5 DEF BooksInv, Ahead
<1>5. CASE OverallProgress
  <2> DEFINE a == First(plan)
  <2>1. /\ pc = "copied" /\ pc' = "exec" /\ a \in Copies(plan) /\ plan' = plan \ {a}
        /\ overall' = Plus(overall, 1, FileSize(rule, info, a)) /\ outcome = "none"
        /\ UNCHANGED <<rule, info, reporter, outcome, base>>
    BY <1>5 DEF OverallProgress, BooksInv
  <2> HIDE DEF a
  <2>2. /\ FileSize(rule, info, a) \in Nat /\ Left' \in Counts
        /\ Left = Plus(Left', 1, FileSize(rule, info, a))
    BY <1>0, <2>1 DEF Left
  <2>3. Plus(overall', Left'.files, Left'.bytes) = Plus(overall, Left.files, Left.bytes)
    BY <2>1, <2>2 DEF Plus, Counts
  <2>4. reporter.completed = Plus(base, overall.files + 1, overall.bytes + FileSize(rule, info, a))
    BY <2>1 DEF BooksInv, Ahead, a
  <2>5. reporter.completed = Plus(base, overall'.files + 0, overall'.bytes + 0)
    BY <2>1, <2>2, <2>4 DEF Plus, Counts
  <2> QED
    BY <2>1, <2>3, <2>5 DEF BooksInv, Ahead, NoCounts
<1>6. CASE OtherAction
  <2>1. First(plan) \notin Copies(plan)
    BY <1>6 DEF OtherAction, Copies
  <2>2. Left' = Left /\ pc = "exec"
    BY <1>0, <1>6, <2>1 DEF OtherAction, Left
  <2> QED
    BY <1>6, <2>2 DEF OtherAction, BooksInv, Ahead
<1>7. CASE Error
  BY <1>7 DEF Error, BooksInv
<1>8. CASE Finish
  <2>1. Left = NoCounts
    BY <1>0, <1>8 DEF Finish
  <2>2. Plus(overall, 0, 0) = overall /\ overall.files + 0 = overall.files
        /\ overall.bytes + 0 = overall.bytes
    BY DEF Plus, Counts
  <2> QED
    BY <1>8, <2>1, <2>2 DEF Finish, BooksInv, Ahead, NoCounts
<1>9. CASE UNCHANGED vars
  BY <1>9 DEF vars, BooksInv, Ahead, Left
<1> QED
  BY <1>1, <1>2, <1>3, <1>4, <1>5, <1>6, <1>7, <1>8, <1>9 DEF Next

(* Whatever is completed is within the totals, and so is the file that is  *)
(* being copied.                                                           *)
LEMMA RoomLeft ==
  ASSUME Typed, BooksInv, pc # "idle", base = NoCounts
  PROVE  /\ AtMost(reporter.completed, reporter.total)
         /\ pc = "reading" =>
              AtMost(Plus(reporter.completed, 1, reporter.current), reporter.total)
<1> USE DEF Typed, TypeOK
<1>1. Left \in Counts
  BY StatsLose DEF Left, InfoTyped
<1>2. /\ reporter.total.files = overall.files + Left.files
      /\ reporter.total.bytes = overall.bytes + Left.bytes
      /\ reporter.completed.files = overall.files + Ahead.files
      /\ reporter.completed.bytes = overall.bytes + Ahead.bytes
  <2>1. /\ reporter.total = Plus(overall, Left.files, Left.bytes)
        /\ reporter.completed = Plus(base, overall.files + Ahead.files, overall.bytes + Ahead.bytes)
    BY DEF BooksInv
  <2>2. Ahead \in Counts
    <3>1. pc = "copied" => FileSize(rule, info, First(plan)) \in Nat
      BY StatsLose DEF BooksInv, InfoTyped
    <3> QED
      BY <3>1 DEF Ahead, Counts, NoCounts
  <2> QED
    BY <1>1, <2>1, <2>2 DEF Plus, NoCounts, Counts
<1>3. CASE pc \in {"reading", "copied"}
  <2> DEFINE a == First(plan)
             rest == Stats(rule, info, plan \ {a})
  <2>1. a \in Copies(plan)
    BY <1>3 DEF BooksInv
  <2>2. /\ FileSize(rule, info, a) \in Nat /\ rest \in Counts
        /\ Left = Plus(rest, 1, FileSize(rule, info, a))
    BY <2>1, StatsLose DEF Left, InfoTyped
  <2> HIDE DEF a, rest
  <2>3. /\ Left.files = rest.files + 1 /\ rest.files \in Nat /\ rest.bytes \in Nat
        /\ Left.bytes = rest.bytes + FileSize(rule, info, a)
    BY <2>2 DEF Plus, Counts
  <2>4. pc = "reading" => reporter.current = FileSize(rule, info, a) /\ Ahead = NoCounts
    BY DEF BooksInv, Ahead, a
  <2>5. pc = "copied" => Ahead.files = 1 /\ Ahead.bytes = FileSize(rule, info, a)
    BY DEF Ahead, a
  <2> QED
    BY <1>2, <1>3, <2>2, <2>3, <2>4, <2>5 DEF AtMost, Plus, NoCounts, Counts
<1>4. CASE pc = "exec"
  BY <1>1, <1>2, <1>4 DEF Ahead, AtMost, NoCounts, Counts
<1> QED
  BY <1>3, <1>4

-----------------------------------------------------------------------------
(* A step within a run of a new reporter shows no less than was shown, and *)
(* no more than is completed and read.                                     *)
LEMMA StepShows ==
  ASSUME Typed, BooksInv, ShownInv, Typed', BooksInv', Next, ~SetTotal, exact', base' = NoCounts
  PROVE  /\ exact /\ base = NoCounts /\ pc # "idle"
         /\ reporter'.total = reporter.total
         /\ pc' = "reading" => length' = reporter'.current
         /\ pc' # "idle" => AtMost(shown'.completed, Reached')
         /\ \/ shown'.completed = shown.completed
            \/ AtMost(shown'.completed, reporter.completed)
            \/ /\ AtMost(shown'.completed, Plus(reporter.completed, 1, reporter.current))
               /\ pc = "reading"
         /\ shown'.type # "error" => AtMost(shown.completed, shown'.completed)
<1> USE DEF Typed, TypeOK, AtMost, Counts
<1>0. /\ base = NoCounts => (pc # "idle" => AtMost(reporter.completed, reporter.total))
      /\ transferred \in Nat /\ length \in Nat
  BY RoomLeft, TreeAssumption DEF Sizes
<1>1. ASSUME NEW a \in plan, StartCopy(a)
      PROVE  /\ exact /\ base = NoCounts /\ pc = "exec" /\ pc' = "reading"
             /\ transferred' = 0 /\ reporter'.total = reporter.total
             /\ reporter'.completed = reporter.completed
             /\ length' = reporter'.current /\ shown'.completed = reporter.completed
  BY <1>1 DEF StartCopy, Show
<1>2. CASE \E a \in plan : StartCopy(a)
  BY <1>0, <1>1, <1>2 DEF ShownInv, Reached, Plus
<1>3. CASE Update
  <2>1. /\ exact /\ base = NoCounts /\ pc = "reading" /\ pc' = "reading" /\ reporter' = reporter
        /\ length' = length /\ transferred' \in Nat /\ transferred < transferred'
        /\ transferred' <= length /\ shown'.completed = Plus(reporter.completed, 0, transferred')
    BY <1>0, <1>3 DEF Update, Show
  <2> QED
    BY <1>0, <2>1 DEF ShownInv, Reached, Plus
<1>4. CASE Complete
  <2>1. /\ exact /\ base = NoCounts /\ pc = "reading" /\ pc' = "copied" /\ transferred = length
        /\ reporter'.completed = Plus(reporter.completed, 1, reporter.current)
        /\ reporter'.total = reporter.total /\ shown'.completed = reporter'.completed
    BY <1>4 DEF Complete, Show
  <2> QED
    BY <1>0, <2>1 DEF ShownInv, Reached, Plus
<1>5. CASE OverallProgress
  <2>1. /\ exact /\ base = NoCounts /\ pc = "copied" /\ pc' = "exec" /\ reporter' = reporter
        /\ shown'.completed = overall'
    BY <1>5 DEF OverallProgress, Show
  <2>2. reporter.completed = overall'
    <3>1. /\ reporter.completed = Plus(NoCounts, overall'.files + 0, overall'.bytes + 0)
          /\ overall' \in Counts
      BY <2>1 DEF BooksInv, Ahead, NoCounts
    <3> QED
      BY <3>1 DEF Plus, NoCounts
  <2> QED
    BY <1>0, <2>1, <2>2 DEF ShownInv, Reached, Plus
<1>6. CASE OtherAction
  BY <1>0, <1>6 DEF OtherAction, ShownInv, Reached, Plus
<1>7. CASE Error
  BY <1>0, <1>7 DEF Error, Show, ShownInv, Reached, Plus
<1>8. CASE Finish
  BY <1>0, <1>8 DEF Finish, ShownInv, Reached, Plus
<1> QED
  BY <1>2, <1>3, <1>4, <1>5, <1>6, <1>7, <1>8 DEF Next

LEMMA NextShownInv ==
  ASSUME Typed, BooksInv, ShownInv, Typed', BooksInv', [Next]_vars
  PROVE  ShownInv'
<1> USE DEF Typed, TypeOK
<1>1. CASE SetTotal
  BY <1>1 DEF SetTotal, ShownInv, NoUpdate, NoCounts, AtMost, Reached, Plus, Counts
<1>2. CASE Next /\ ~SetTotal
  <2> SUFFICES ASSUME exact', base' = NoCounts PROVE ShownInv'
    BY DEF ShownInv
  <2>1. /\ AtMost(shown.completed, reporter.total)
        /\ AtMost(reporter.completed, reporter.total)
        /\ pc = "reading" =>
             AtMost(Plus(reporter.completed, 1, reporter.current), reporter.total)
    <3>1. exact /\ base = NoCounts /\ pc # "idle"
      BY <1>2, StepShows
    <3> QED
      BY <3>1, RoomLeft DEF ShownInv
  <2>2. AtMost(shown'.completed, reporter'.total)
    <3>1. /\ reporter'.total = reporter.total /\ reporter.total \in Counts
          /\ reporter.completed \in Counts /\ reporter'.completed \in Counts
          /\ shown'.completed \in Counts /\ reporter.current \in Nat
      BY <1>2, StepShows
    <3>2. \/ shown'.completed = shown.completed
          \/ AtMost(shown'.completed, reporter.completed)
          \/ AtMost(shown'.completed, Plus(reporter.completed, 1, reporter.current))
             /\ pc = "reading"
      BY <1>2, StepShows
    <3>3. ASSUME NEW m \in Counts, NEW n \in Counts, NEW k \in Counts, AtMost(m, n), AtMost(n, k)
          PROVE  AtMost(m, k)
      BY <3>3 DEF AtMost, Counts
    <3>4. Plus(reporter.completed, 1, reporter.current) \in Counts
      BY <3>1 DEF Plus, Counts
    <3> QED
      BY <2>1, <3>1, <3>2, <3>3, <3>4
  <2> QED
    BY <1>2, <2>2, StepShows DEF ShownInv
<1>3. CASE UNCHANGED vars
  BY <1>3 DEF vars, ShownInv, Reached
<1> QED
  BY <1>1, <1>2, <1>3

-----------------------------------------------------------------------------
LEMMA Invariants == Spec => [](Typed /\ BooksInv /\ ShownInv)
<1>1. Init => Typed /\ BooksInv /\ ShownInv
  BY InitTyped DEF Init, BooksInv, ShownInv, NoUpdate, NoCounts, AtMost, NewReporter
<1>2. Typed /\ BooksInv /\ ShownInv /\ [Next]_vars => (Typed /\ BooksInv /\ ShownInv)'
  BY NextTyped, NextBooksInv, NextShownInv
<1> QED
  BY <1>1, <1>2, PTL DEF Spec

THEOREM TypeCorrect == Spec => []TypeOK
BY Invariants, PTL DEF Typed

(* The counts the reporter keeps (progress.go:133-215) and those that      *)
(* ExecuteSync keeps (sync.go:216-239) agree between two actions, and a    *)
(* good run ends with exactly the totals its plan was given, whatever the  *)
(* files held by then.                                                     *)
THEOREM BooksBalance == Spec => []BooksAgree
<1>1. Typed /\ BooksInv => BooksAgree
  <2> SUFFICES ASSUME Typed, BooksInv PROVE BooksAgree
    OBVIOUS
  <2>1. overall.files + 0 = overall.files /\ overall.bytes + 0 = overall.bytes
    BY DEF Typed, TypeOK, Counts
  <2> QED
    BY <2>1 DEF BooksInv, BooksAgree, Ahead, NoCounts
<1> QED
  BY <1>1, Invariants, PTL

(* As long as files hold what was announced no update of a new reporter    *)
(* shows more than the totals of calculateStats ...                        *)
THEOREM TotalsHold == Spec => []WithinTotals
<1>1. ShownInv => WithinTotals
  BY DEF ShownInv, WithinTotals
<1> QED
  BY <1>1, Invariants, PTL

(* ... and none less than the one before, the report of a failure aside.   *)
THEOREM ProgressIsMonotone == Spec => NeverBack
<1>1. Typed /\ BooksInv /\ ShownInv /\ Typed' /\ BooksInv' /\ [Next]_vars =>
        [exact' /\ base' = NoCounts /\ pc # "idle" /\ shown'.type # "error" =>
           AtMost(shown.completed, shown'.completed)]_vars
  <2> SUFFICES ASSUME Typed, BooksInv, ShownInv, Typed', BooksInv', Next,
                      exact', base' = NoCounts, pc # "idle", shown'.type # "error"
               PROVE  AtMost(shown.completed, shown'.completed)
    OBVIOUS
  <2>1. ~SetTotal
    BY DEF SetTotal
  <2> QED
    BY <2>1, StepShows
<1> QED
  BY <1>1, Invariants, PTL DEF Spec, NeverBack
=============================================================================
