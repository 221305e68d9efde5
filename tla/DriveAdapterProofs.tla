-------------------------- MODULE DriveAdapterProofs --------------------------
(***************************************************************************)
(* What adapters of Google Drive can rely on, for every number of them,    *)
(* every set of paths and every bound.                                     *)
(*                                                                         *)
(* Drive knows no paths, so every proof is about a function P from ids to  *)
(* the paths at which their files and folders were made: an id keeps its   *)
(* path for ever (Placed), the caches and the loops only ever connect a    *)
(* path with an id made there, and what can go wrong is that the id is no  *)
(* longer live, or that there are two.                                     *)
(***************************************************************************)
EXTENDS DriveAdapter, SequenceTheorems, FiniteSetTheorems, WellFoundedInduction, TLAPS

-----------------------------------------------------------------------------
(* Beginnings of paths.                                                    *)

LEMMA SubSeqIs ==
  ASSUME NEW s \in Seq(Name), NEW k \in 0..Len(s)
  PROVE  /\ SubSeq(s, 1, k) \in Seq(Name)
         /\ Len(SubSeq(s, 1, k)) = k
         /\ \A j \in 1..k : SubSeq(s, 1, k)[j] = s[j]
<1>1. \A i \in 1..k : s[i] \in Name
  BY ElementOfSeq, LenProperties
<1> QED
  BY <1>1, SubSeqProperties, LenProperties

LEMMA SubSub ==
  ASSUME NEW s \in Seq(Name), NEW k \in 0..Len(s), NEW j \in 0..k
  PROVE  SubSeq(SubSeq(s, 1, k), 1, j) = SubSeq(s, 1, j)
<1> DEFINE t == SubSeq(s, 1, k)
<1>1. t \in Seq(Name) /\ Len(t) = k /\ \A i \in 1..k : t[i] = s[i]
  BY SubSeqIs
<1>0. Len(s) \in Nat
  BY LenProperties
<1> HIDE DEF t
<1>2. j \in 0..Len(t) /\ j \in 0..Len(s)
  BY <1>0, <1>1
<1>3. SubSeq(t, 1, j) \in Seq(Name) /\ Len(SubSeq(t, 1, j)) = j /\ \A i \in 1..j : SubSeq(t, 1, j)[i] = t[i]
  BY <1>1, <1>2, SubSeqIs
<1>4. SubSeq(s, 1, j) \in Seq(Name) /\ Len(SubSeq(s, 1, j)) = j /\ \A i \in 1..j : SubSeq(s, 1, j)[i] = s[i]
  BY <1>1, <1>2, SubSeqIs
<1>5. SubSeq(t, 1, j) = SubSeq(s, 1, j)
  BY <1>0, <1>1, <1>3, <1>4, SeqEqual
<1> QED
  BY <1>5 DEF t

LEMMA SubNext ==
  ASSUME NEW s \in Seq(Name), NEW k \in 0..Len(s), k < Len(s)
  PROVE  SubSeq(s, 1, k + 1) = Append(SubSeq(s, 1, k), s[k + 1]) /\ s[k + 1] \in Name
<1>0. Len(s) \in Nat /\ k + 1 \in 0..Len(s) /\ k + 1 \in 1..Len(s)
  BY LenProperties
<1>1. s[k + 1] \in Name
  BY <1>0, ElementOfSeq
<1> DEFINE t == SubSeq(s, 1, k)
           u == SubSeq(s, 1, k + 1)
<1>2. t \in Seq(Name) /\ Len(t) = k /\ \A i \in 1..k : t[i] = s[i]
  BY SubSeqIs
<1>3. u \in Seq(Name) /\ Len(u) = k + 1 /\ \A i \in 1..k + 1 : u[i] = s[i]
  BY <1>0, SubSeqIs
<1> HIDE DEF t, u
<1>4. Append(t, s[k + 1]) \in Seq(Name) /\ Len(Append(t, s[k + 1])) = k + 1
      /\ (\A i \in 1..k : Append(t, s[k + 1])[i] = t[i]) /\ Append(t, s[k + 1])[k + 1] = s[k + 1]
  BY <1>1, <1>2, AppendProperties
<1>5. \A i \in 1..k + 1 : Append(t, s[k + 1])[i] = u[i]
  BY <1>0, <1>2, <1>3, <1>4
<1>6. u = Append(t, s[k + 1])
  BY <1>3, <1>4, <1>5, SeqEqual
<1> QED
  BY <1>1, <1>6 DEF t, u

LEMMA SubEnds ==
  ASSUME NEW s \in Seq(Name)
  PROVE  SubSeq(s, 1, 0) = <<>> /\ SubSeq(s, 1, Len(s)) = s /\ Len(s) \in Nat
BY LenProperties, SubSeqFull, SubSeqEmpty

LEMMA AppendIs ==
  ASSUME NEW s \in Seq(Name), NEW x \in Name
  PROVE  Append(s, x) \in Seq(Name) /\ Append(s, x) # <<>> /\ Len(Append(s, x)) = Len(s) + 1
BY AppendProperties

LEMMA AppendOne ==
  ASSUME NEW s \in Seq(Name), NEW t \in Seq(Name), NEW x \in Name, NEW y \in Name,
         Append(s, x) = Append(t, y)
  PROVE  s = t /\ x = y
BY AppendInjective

LEMMA BeginningOfConcat ==
  ASSUME NEW s \in Seq(Name), NEW t \in Seq(Name)
  PROVE  /\ s \o t \in Seq(Name)
         /\ Len(s) \in 0..Len(s \o t)
         /\ SubSeq(s \o t, 1, Len(s)) = s
         /\ \A k \in 0..Len(s) : SubSeq(s \o t, 1, k) = SubSeq(s, 1, k)
         /\ t # <<>> => Len(s) < Len(s \o t)
<1> DEFINE u == s \o t
<1>1. /\ u \in Seq(Name) /\ Len(u) = Len(s) + Len(t) /\ Len(s) \in Nat /\ Len(t) \in Nat
      /\ \A i \in 1..Len(s) : u[i] = s[i]
  BY ConcatProperties, LenProperties
<1>0. t # <<>> => Len(t) # 0
  BY EmptySeq
<1> HIDE DEF u
<1>2. ASSUME NEW k \in 0..Len(s) PROVE SubSeq(u, 1, k) = SubSeq(s, 1, k)
  <2>1. k \in 0..Len(u)
    BY <1>1, <1>2
  <2>2. SubSeq(u, 1, k) \in Seq(Name) /\ Len(SubSeq(u, 1, k)) = k /\ \A i \in 1..k : SubSeq(u, 1, k)[i] = u[i]
    BY <1>1, <2>1, SubSeqIs
  <2>3. SubSeq(s, 1, k) \in Seq(Name) /\ Len(SubSeq(s, 1, k)) = k /\ \A i \in 1..k : SubSeq(s, 1, k)[i] = s[i]
    BY <1>2, SubSeqIs
  <2> QED
    BY <1>1, <1>2, <2>2, <2>3, SeqEqual
<1>3. SubSeq(u, 1, Len(s)) = s
  BY <1>1, <1>2, SubEnds
<1> QED
  BY <1>0, <1>1, <1>2, <1>3 DEF u

-----------------------------------------------------------------------------
(* The constants.                                                          *)

LEMMA Keys ==
  /\ Key \subseteq Seq(Name)
  /\ \A k \in Key : \A m \in 0..Len(k) : SubSeq(k, 1, m) \in Key
  /\ \A a \in Adapter : \A p \in Path \cup {<<>>} : Root[a] \o p \in Key
  /\ <<>> \in Key /\ <<Dot>> \in Key
<1> DEFINE nil == <<>>
           dot == <<Dot>>
<1>0. nil \in Seq(Name) /\ dot \in Seq(Name) /\ Len(dot) = 1 /\ Len(nil) = 0
  BY DriveAssumption
<1>1. ASSUME NEW a \in Adapter, NEW p \in Path
      PROVE  Root[a] \o p \in Seq(Name)
  BY <1>1, DriveAssumption, ConcatProperties
<1>2. ASSUME NEW s \in Seq(Name), NEW k \in Prefixes(s)
      PROVE  k \in Seq(Name) /\ \A m \in 0..Len(k) : SubSeq(k, 1, m) \in Prefixes(s)
  <2>1. PICK l \in 0..Len(s) : k = SubSeq(s, 1, l)
    BY <1>2 DEF Prefixes
  <2>2. k \in Seq(Name) /\ Len(k) = l /\ Len(s) \in Nat
    BY <2>1, SubSeqIs, LenProperties
  <2>3. ASSUME NEW m \in 0..Len(k) PROVE SubSeq(k, 1, m) \in Prefixes(s)
    <3>1. SubSeq(k, 1, m) = SubSeq(s, 1, m) /\ m \in 0..Len(s)
      BY <2>1, <2>2, <2>3, SubSub
    <3> QED
      BY <3>1 DEF Prefixes
  <2> QED
    BY <2>2, <2>3
<1>3. ASSUME NEW k \in {nil, dot}, NEW m \in 0..Len(k)
      PROVE  SubSeq(k, 1, m) \in {nil, dot}
  <2>1. SubSeq(k, 1, 0) = nil
    BY <1>0, <1>3, SubEnds
  <2> HIDE DEF nil, dot
  <2>2. k = nil \/ k = dot
    BY <1>3
  <2>3. k \in Seq(Name)
    BY <1>0, <2>2
  <2>4. m \in 0..Len(k)
    BY <1>3
  <2>5. CASE k = nil
    <3>1. m = 0
      BY <1>0, <2>4, <2>5
    <3> QED
      BY <2>1, <3>1
  <2>6. CASE k = dot
    <3>1. m \in 0..1
      BY <1>0, <2>4, <2>6
    <3>2. m = 0 \/ m = Len(k)
      BY <1>0, <2>6, <3>1
    <3> QED
      BY <2>1, <2>2, <2>3, <3>2, SubEnds
  <2> QED
    BY <2>2, <2>5, <2>6
<1> DEFINE Under == {Prefixes(Root[a] \o p) : a \in Adapter, p \in Path}
<1>6. Key = (UNION Under) \cup {nil, dot}
  BY DEF Key
<1>7. \A a \in Adapter : \A p \in Path : Prefixes(Root[a] \o p) \in Under
  OBVIOUS
<1>8. \A u \in Under : \E a \in Adapter, p \in Path : u = Prefixes(Root[a] \o p)
  OBVIOUS
<1> HIDE DEF Under, nil, dot
<1>9. \A a \in Adapter, p \in Path : Prefixes(Root[a] \o p) \subseteq Key
  BY <1>6, <1>7
<1>4. ASSUME NEW k \in Key
      PROVE  k \in Seq(Name) /\ \A m \in 0..Len(k) : SubSeq(k, 1, m) \in Key
  <2>1. CASE k \in {nil, dot}
    BY <1>0, <1>3, <1>6, <2>1
  <2>2. CASE \E a \in Adapter, p \in Path : k \in Prefixes(Root[a] \o p)
    <3>1. PICK a \in Adapter, p \in Path : k \in Prefixes(Root[a] \o p)
      BY <2>2
    <3>2. /\ k \in Seq(Name)
          /\ \A m \in 0..Len(k) : SubSeq(k, 1, m) \in Prefixes(Root[a] \o p)
      BY <1>1, <1>2, <3>1
    <3> QED
      BY <1>9, <3>1, <3>2
  <2>3. (\E u \in Under : k \in u) \/ k \in {nil, dot}
    BY <1>4, <1>6
  <2> QED
    BY <1>8, <2>1, <2>2, <2>3
<1>5. ASSUME NEW a \in Adapter, NEW p \in Path \cup {nil}
      PROVE  Root[a] \o p \in Key
  <2>1. CASE p \in Path
    <3>1. SubSeq(Root[a] \o p, 1, Len(Root[a] \o p)) = Root[a] \o p /\ Len(Root[a] \o p) \in Nat
      BY <1>1, <2>1, SubEnds
    <3>2. Root[a] \o p \in Prefixes(Root[a] \o p)
      BY <3>1 DEF Prefixes
    <3> QED
      BY <1>9, <2>1, <3>2
  <2>2. CASE p = nil
    <3>1. PICK q \in Path : TRUE
      BY DriveAssumption
    <3>2. Root[a] \in Seq(Name) /\ q \in Seq(Name)
      BY DriveAssumption
    <3>3. SubSeq(Root[a] \o q, 1, Len(Root[a])) = Root[a] /\ Len(Root[a]) \in 0..Len(Root[a] \o q)
      BY <3>2, BeginningOfConcat
    <3>4. Root[a] \o p = Root[a]
      BY <2>2, <3>2, ConcatEmptySeq DEF nil
    <3>5. Root[a] \o p \in Prefixes(Root[a] \o q)
      BY <3>3, <3>4 DEF Prefixes
    <3> QED
      BY <1>9, <3>5
  <2> QED
    BY <2>1, <2>2
<1> QED
  <2>1. nil \in Key /\ dot \in Key
    BY <1>6
  <2>2. Key \subseteq Seq(Name) /\ \A k \in Key : \A m \in 0..Len(k) : SubSeq(k, 1, m) \in Key
    BY <1>4
  <2>3. \A a \in Adapter : \A p \in Path \cup {nil} : Root[a] \o p \in Key
    BY <1>5
  <2> QED
    BY <2>1, <2>2, <2>3 DEF nil, dot

-----------------------------------------------------------------------------
(* Types.                                                                  *)

(* A set of numbers has a least one. *)
LEMMA Least ==
  ASSUME NEW N, N \subseteq Nat, N # {}
  PROVE  \E m \in N : \A k \in N : m <= k
<1> DEFINE R == {ss \in Nat \X Nat : ss[1] < ss[2]}
<1>1. OpToRel(<, Nat) = R
  BY Zenon DEF OpToRel
<1>2. IsWellFoundedOn(R, Nat)
  BY <1>1, NatLessThanWellFounded, Zenon
<1> HIDE DEF R
<1>3. PICK m \in N : \A k \in N : ~(<<k, m>> \in R)
  BY <1>2, WFMin, Zenon
<1>4. \A k \in N : ~(k < m)
  BY <1>3 DEF R
<1> QED
  BY <1>4

Busy(a) == pc[a] \notin {"idle", "closed"}

(* the path whose folders the call of a wants *)
Target(a) == IF op[a].kind = "write" THEN DirOf(a) ELSE Full(a)

(* where a is in its call fits the call *)
Fits(a) ==
  /\ op[a].path = <<>> <=> op[a].kind = "open"
  /\ op[a].kind \in {"write", "read"} => op[a].path \in FilePaths
  /\ op[a].kind = "mkdir" => op[a].path \in FolderPaths
  /\ pc[a] = "lookup" => op[a].kind \notin {"open", "mkdir"} /\ n[a] <= Len(Full(a))
  /\ pc[a] \in {"folders", "mkfolder"} =>
       op[a].kind \in {"open", "mkdir", "write"} /\ dir[a] = Target(a) /\ n[a] <= Len(dir[a])
  /\ pc[a] = "mkfolder" => n[a] < Len(dir[a])

(* what is in a folder was made after it: no folder is below itself *)
Older == \A i \in Live : remote[i].parent < i

RemoteOK ==
  /\ remote \in [Id -> {Free, Gone} \cup
                       [state : {"live"}, name : Name, parent : Id \cup {Top},
                        kind : {"folder", "file"}, content : Content]]
  /\ Given = 1..Cardinality(Given)
  /\ \A i \in Live : remote[i].parent \in Live \cup {Top}
  /\ Older

CallsOK ==
  /\ cache \in [Adapter -> [Key -> Given \cup {Top, NoId}]]
  /\ op \in [Adapter -> [kind : Kinds \cup {"open"}, path : Path \cup {<<>>}, content : Content]]
  /\ pc \in [Adapter -> {"closed", "idle", "lookup", "folders", "mkfolder"}]
  /\ n \in [Adapter -> Nat] /\ cur \in [Adapter -> Given \cup {Top}]
  /\ dir \in [Adapter -> Key]
  /\ answer \in [Adapter -> [result : {"none", "ok", "notfound", "error", "failed"},
                             got : Content]]
  /\ calls \in [Adapter -> Nat] /\ \A a \in Adapter : calls[a] <= MaxCalls[a]
  /\ changers \subseteq Adapter /\ overlapped \in BOOLEAN /\ orderly \in BOOLEAN
  /\ quiet \in [Adapter -> BOOLEAN]
  /\ \A a \in Adapter : Fits(a)

Typed == RemoteOK /\ CallsOK

LEMMA TypedIsTypeOK == Typed => TypeOK
BY DEF Typed, RemoteOK, CallsOK, TypeOK

(* Drive's numbers *)
LEMMA RemoteFacts ==
  ASSUME RemoteOK
  PROVE  /\ Live \subseteq Given /\ Given \subseteq Id /\ Top \notin Given /\ NoId \notin Given
         /\ NoId # Top
         /\ NextId \notin Given /\ NextId \in Nat \ {0} /\ IsFiniteSet(Given)
         /\ \A i \in Given : i < NextId
<1>1. Free.state # "live" /\ Gone.state # "live" /\ Free # Gone
  <2>1. Free.state = "free" /\ Gone.state = "gone"
    BY DEF Free, Gone
  <2> QED
    BY <2>1
<1>2. Live \subseteq Given /\ Given \subseteq Id
  BY <1>1 DEF Live, Given, RemoteOK
<1>3. IsFiniteSet(1..MaxIds)
  BY FS_Interval, DriveAssumption
<1>4. IsFiniteSet(Given) /\ Cardinality(Given) \in Nat
  BY <1>2, <1>3, FS_Subset, FS_CardinalityType DEF Id
<1>5. Given = 1..Cardinality(Given)
  BY DEF RemoteOK
<1> HIDE DEF Given
<1> QED
  BY <1>2, <1>4, <1>5, DriveAssumption DEF NextId, Id, Top

(* the paths of a call *)
LEMMA CallPaths ==
  ASSUME CallsOK, NEW a \in Adapter
  PROVE  /\ Full(a) \in Key /\ DirOf(a) \in Key /\ Target(a) \in Key
         /\ Full(a) \in Seq(Name) /\ DirOf(a) \in Seq(Name) /\ Target(a) \in Seq(Name)
         /\ op[a].kind # "open" => Full(a) # <<>> /\ op[a].path \in Path
         /\ op[a].kind = "open" => Full(a) = Root[a]
         /\ Named(a) => Full(a) # <<>>
         /\ Named(a) /\ op[a].kind = "write" =>
              /\ Len(Full(a)) > 1
              /\ DirOf(a) = SubSeq(Full(a), 1, Len(Full(a)) - 1)
<1>1. op[a].path \in Path \cup {<<>>} /\ Fits(a)
  BY DEF CallsOK
<1>2. Full(a) \in Key /\ Full(a) \in Seq(Name)
  BY <1>1, Keys DEF Full
<1>3. Len(Full(a)) \in Nat
  BY <1>2, LenProperties
<1>4. DirOf(a) \in Key
  <2>1. CASE Len(Full(a)) > 1
    <3>1. Len(Full(a)) - 1 \in 0..Len(Full(a))
      BY <1>3, <2>1
    <3> QED
      BY <1>2, <2>1, <3>1, Keys DEF DirOf
  <2>2. CASE ~(Len(Full(a)) > 1)
    BY <2>2, Keys DEF DirOf
  <2> QED
    BY <2>1, <2>2
<1>5. Target(a) \in Key
  BY <1>2, <1>4 DEF Target
<1>6. Root[a] \in Seq(Name) /\ op[a].path \in Seq(Name)
  BY <1>1, DriveAssumption, EmptySeq
<1>7. op[a].kind # "open" => Full(a) # <<>> /\ op[a].path \in Path
  BY <1>1, <1>6, ConcatEqualIffEmpty DEF Full, Fits
<1>8. op[a].kind = "open" => Full(a) = Root[a]
  BY <1>1, <1>6, ConcatEmptySeq DEF Full, Fits
<1>9. Named(a) => Full(a) # <<>>
  BY <1>6, ConcatEqualIffEmpty DEF Full, Named
<1>10. Named(a) /\ op[a].kind = "write" => Len(Full(a)) > 1
  <2>1. SUFFICES ASSUME Named(a), op[a].kind = "write" PROVE Len(Full(a)) > 1
    OBVIOUS
  <2>2. op[a].path # <<>> /\ Root[a] # <<>>
    BY <1>1, <2>1 DEF Fits, Named
  <2>3. Len(op[a].path) \in Nat /\ Len(Root[a]) \in Nat /\ Len(op[a].path) > 0 /\ Len(Root[a]) > 0
    BY <1>6, <2>2, EmptySeq
  <2>4. Len(Full(a)) = Len(Root[a]) + Len(op[a].path)
    BY <1>6, ConcatProperties DEF Full
  <2>5. \A x, y \in Nat : x > 0 /\ y > 0 => x + y > 1
    OBVIOUS
  <2> QED
    BY <2>3, <2>4, <2>5
<1>11. Named(a) /\ op[a].kind = "write" => DirOf(a) = SubSeq(Full(a), 1, Len(Full(a)) - 1)
  BY <1>10 DEF DirOf
<1> QED
  BY <1>2, <1>4, <1>5, <1>7, <1>8, <1>9, <1>10, <1>11, Keys

(* The parts the cache knows end somewhere. *)
LEMMA PassedIs ==
  ASSUME RemoteOK, CallsOK, NEW a \in Adapter, pc[a] = "folders"
  PROVE  /\ Passed(a) \in n[a]..Len(dir[a]) /\ Len(dir[a]) \in Nat
         /\ Passed(a) = Len(dir[a]) \/ cache[a][SubSeq(dir[a], 1, Passed(a) + 1)] = NoId
         /\ \A j \in n[a] + 1..Passed(a) : cache[a][SubSeq(dir[a], 1, j)] # NoId
         /\ Passed(a) = n[a] => InFolder(a) = cur[a]
         /\ Passed(a) # n[a] => /\ InFolder(a) = cache[a][SubSeq(dir[a], 1, Passed(a))]
                                /\ cache[a][SubSeq(dir[a], 1, Passed(a))] # NoId
         /\ SubSeq(dir[a], 1, Passed(a)) \in Key
         /\ Passed(a) # Len(dir[a]) => SubSeq(dir[a], 1, Passed(a) + 1) \in Key
         /\ InFolder(a) \in Given \cup {Top}
<1>0. dir[a] \in Key /\ dir[a] \in Seq(Name)
  BY Keys DEF CallsOK
<1>1. Len(dir[a]) \in Nat /\ n[a] \in Nat /\ n[a] <= Len(dir[a])
  BY <1>0, LenProperties DEF CallsOK, Fits
<1> DEFINE c(j) == cache[a][SubSeq(dir[a], 1, j)]
           Ends == {k \in n[a]..Len(dir[a]) : k = Len(dir[a]) \/ c(k + 1) = NoId}
           Is(k) == /\ k = Len(dir[a]) \/ c(k + 1) = NoId
                    /\ \A j \in n[a] + 1..k : c(j) # NoId
<1> HIDE DEF c
<1>2. Len(dir[a]) \in Ends /\ Ends \subseteq Nat
  BY <1>1
<1>3. PICK m \in Ends : \A k \in Ends : m <= k
  <2> HIDE DEF Ends
  <2> QED
    BY <1>2, Least
<1>4. ASSUME NEW j \in n[a] + 1..m PROVE c(j) # NoId
  <2>1. j - 1 \in n[a]..Len(dir[a]) /\ ~(m <= j - 1) /\ (j - 1) + 1 = j
    BY <1>1, <1>2, <1>3, <1>4
  <2>2. j - 1 \notin Ends
    BY <1>3, <2>1
  <2> QED
    BY <2>1, <2>2
<1>5. \E k \in n[a]..Len(dir[a]) : Is(k)
  BY <1>3, <1>4
<1>6. Passed(a) = CHOOSE k \in n[a]..Len(dir[a]) : Is(k)
  BY DEF Passed, c
<1> HIDE DEF Is
<1>7. Passed(a) \in n[a]..Len(dir[a]) /\ Is(Passed(a))
  BY <1>5, <1>6
<1>8. Passed(a) # n[a] => Passed(a) \in n[a] + 1..Passed(a)
  BY <1>1, <1>7
<1>9. Passed(a) \in 0..Len(dir[a]) /\ (Passed(a) # Len(dir[a]) => Passed(a) + 1 \in 0..Len(dir[a]))
  BY <1>1, <1>7
<1>10. /\ SubSeq(dir[a], 1, Passed(a)) \in Key
       /\ Passed(a) # Len(dir[a]) => SubSeq(dir[a], 1, Passed(a) + 1) \in Key
  BY <1>0, <1>9, Keys
<1>11. Passed(a) # n[a] => c(Passed(a)) # NoId
  BY <1>7, <1>8 DEF Is
<1>12. InFolder(a) = IF Passed(a) = n[a] THEN cur[a] ELSE c(Passed(a))
  BY DEF InFolder, c
<1>13. InFolder(a) \in Given \cup {Top}
  <2>1. cur[a] \in Given \cup {Top}
    BY DEF CallsOK
  <2>2. c(Passed(a)) \in Given \cup {Top, NoId}
    BY <1>10 DEF CallsOK, c
  <2> QED
    BY <1>11, <1>12, <2>1, <2>2
<1> HIDE DEF Passed, InFolder
<1> QED
  BY <1>1, <1>7, <1>10, <1>11, <1>12, <1>13 DEF Is, c

-----------------------------------------------------------------------------
(* What lies below a folder.                                               *)

(* A function on 0..m may be given by its first value and by what follows  *)
(* each.                                                                   *)
Follows(f, m, V, x, g) ==
  f \in [0..m -> V] /\ f[0] = x /\ \A k \in 1..m : f[k] = g[k][f[k - 1]]

LEMMA Recursion ==
  ASSUME NEW m \in Nat, NEW V, NEW x \in V, NEW g \in [1..m -> [V -> V]]
  PROVE  \E f : Follows(f, m, V, x, g)
<1> DEFINE Starts(l, f) == /\ f \in [0..l -> V] /\ f[0] = x
                           /\ \A k \in 1..l : f[k] = g[k][f[k - 1]]
           Bad == {l \in 0..m : ~\E f : Starts(l, f)}
<1>1. Bad = {}
  <2>1. SUFFICES ASSUME Bad # {} PROVE FALSE
    OBVIOUS
  <2>2. Bad \subseteq Nat
    OBVIOUS
  <2>3. PICK l \in Bad : \A k \in Bad : l <= k
    <3> HIDE DEF Bad
    <3> QED
      BY <2>1, <2>2, Least
  <2>4. CASE l = 0
    <3>1. Starts(0, [k \in 0..0 |-> x])
      OBVIOUS
    <3> QED
      BY <2>3, <2>4, <3>1
  <2>5. CASE l # 0
    <3>1. l - 1 \in 0..m /\ ~(l <= l - 1) /\ l \in 1..m
      BY <2>3, <2>5
    <3>2. l - 1 \notin Bad
      BY <2>3, <3>1
    <3>3. PICK f : Starts(l - 1, f)
      BY <3>1, <3>2
    <3> DEFINE h == [k \in 0..l |-> IF k = l THEN g[l][f[l - 1]] ELSE f[k]]
    <3>4. f[l - 1] \in V /\ g[l][f[l - 1]] \in V
      BY <3>1, <3>3
    <3>5. h \in [0..l -> V] /\ h[0] = x
      BY <3>1, <3>3, <3>4
    <3>6. ASSUME NEW k \in 1..l PROVE h[k] = g[k][h[k - 1]]
      <4>1. k \in 0..l /\ k - 1 \in 0..l /\ k - 1 # l /\ h[k - 1] = f[k - 1]
        BY <3>1, <3>6
      <4>2. CASE k = l
        BY <4>1, <4>2
      <4>3. CASE k # l
        <5>1. k \in 1..l - 1 /\ h[k] = f[k]
          BY <3>1, <3>6, <4>3
        <5> QED
          BY <3>3, <4>1, <5>1
      <4> QED
        BY <4>2, <4>3
    <3>7. Starts(l, h)
      BY <3>5, <3>6
    <3> QED
      BY <2>3, <3>7
  <2> QED
    BY <2>4, <2>5
<1>2. \E f : Starts(m, f)
  <2>1. m \in 0..m
    OBVIOUS
  <2> QED
    BY <1>1, <2>1
<1> QED
  BY <1>2 DEF Follows

(* i and all it holds are closed: nothing below is left out. *)
LEMMA SubtreeIs ==
  \A i \in Id \cup {Top} : RemoteOK =>
    /\ i \in Subtree(i) /\ Subtree(i) \subseteq Live \cup {i}
    /\ \A j \in Live : remote[j].parent \in Subtree(i) => j \in Subtree(i)
<1> SUFFICES ASSUME NEW i \in Id \cup {Top}, RemoteOK
             PROVE  /\ i \in Subtree(i) /\ Subtree(i) \subseteq Live \cup {i}
                    /\ \A j \in Live : remote[j].parent \in Subtree(i) => j \in Subtree(i)
  OBVIOUS
<1> DEFINE U == SUBSET (Live \cup {i})
           g == [k \in 1..MaxIds |-> [v \in U |-> v \cup {j \in Live : remote[j].parent \in v}]]
           Below(f) == f = [k \in 0..MaxIds |->
                             IF k = 0 THEN {i}
                             ELSE f[k - 1] \cup {j \in Live : remote[j].parent \in f[k - 1]}]
<1>0. MaxIds \in Nat /\ {i} \in U
  BY DriveAssumption
<1>1. \A k \in 1..MaxIds : \A v \in U : g[k][v] = v \cup {j \in Live : remote[j].parent \in v}
  OBVIOUS
<1>2. g \in [1..MaxIds -> [U -> U]]
  OBVIOUS
<1>3. \E f : Below(f) /\ \A k \in 0..MaxIds : f[k] \in U
  <2> HIDE DEF g, U
  <2>0. \E f : Follows(f, MaxIds, U, {i}, g)
    BY <1>0, <1>2, Recursion
  <2>1. PICK f : /\ f \in [0..MaxIds -> U] /\ f[0] = {i}
                 /\ \A k \in 1..MaxIds : f[k] = g[k][f[k - 1]]
    BY <2>0 DEF Follows
  <2>2. ASSUME NEW k \in 0..MaxIds
        PROVE  f[k] = IF k = 0 THEN {i}
                      ELSE f[k - 1] \cup {j \in Live : remote[j].parent \in f[k - 1]}
    <3>1. CASE k = 0
      BY <2>1, <3>1
    <3>2. CASE k # 0
      <4>1. k \in 1..MaxIds /\ k - 1 \in 0..MaxIds
        BY <1>0, <2>2, <3>2
      <4> QED
        BY <1>1, <2>1, <3>2, <4>1
    <3> QED
      BY <3>1, <3>2
  <2>3. f = [k \in 0..MaxIds |-> f[k]]
    BY <2>1
  <2>4. Below(f)
    BY <2>2, <2>3
  <2> QED
    BY <2>1, <2>4
<1> DEFINE b == CHOOSE f : Below(f)
<1>4. Below(b)
  BY <1>3
<1>5. Subtree(i) = b[MaxIds]
  BY DEF Subtree
<1> HIDE DEF b
<1>6. b[0] = {i} /\ \A k \in 1..MaxIds :
        b[k] = b[k - 1] \cup {j \in Live : remote[j].parent \in b[k - 1]}
  BY <1>0, <1>4
<1> HIDE DEF Below, g
<1>7. ASSUME NEW k \in 0..MaxIds, NEW l \in k..MaxIds PROVE b[k] \subseteq b[l]
  <2> DEFINE Bad == {m \in k..MaxIds : ~(b[k] \subseteq b[m])}
  <2>1. SUFFICES ASSUME Bad # {} PROVE FALSE
    BY <1>7
  <2>2. Bad \subseteq Nat
    BY <1>0
  <2>3. PICK m \in Bad : \A o \in Bad : m <= o
    <3> HIDE DEF Bad
    <3> QED
      BY <2>1, <2>2, Least
  <2>4. m \in k..MaxIds /\ m # k
    BY <2>3
  <2>5. m - 1 \in k..MaxIds /\ ~(m <= m - 1) /\ m \in 1..MaxIds
    BY <1>0, <1>7, <2>4
  <2>6. b[k] \subseteq b[m - 1]
    BY <2>3, <2>5
  <2> QED
    BY <1>6, <2>3, <2>5, <2>6
<1>8. ASSUME NEW j \in Live, remote[j].parent = i
      PROVE  \A l \in j..MaxIds : j \in b[l]
  <2>1. j \in 1..MaxIds
    BY DEF Live, Id
  <2>2. 1 \in 1..MaxIds /\ 1 \in 0..MaxIds
    BY <1>0, <2>1
  <2>3. j \in b[1]
    BY <1>6, <1>8, <2>2
  <2>4. \A l \in j..MaxIds : l \in 1..MaxIds
    BY <1>0, <2>1
  <2> QED
    BY <1>7, <2>2, <2>3, <2>4
<1>9. ASSUME NEW j \in Live, NEW p \in Live, remote[j].parent = p, p \in b[p]
      PROVE  \A l \in j..MaxIds : j \in b[l]
  <2>1. j \in 1..MaxIds /\ p \in 1..MaxIds
    BY DEF Live, Id
  <2>2. p < j
    BY <1>9 DEF RemoteOK, Older
  <2>3. p + 1 \in 1..MaxIds /\ (p + 1) - 1 = p /\ p + 1 \in 0..MaxIds
    BY <1>0, <2>1, <2>2
  <2>4. j \in b[p + 1]
    BY <1>6, <1>9, <2>3
  <2>5. \A l \in j..MaxIds : l \in p + 1..MaxIds
    BY <1>0, <2>1, <2>2
  <2> QED
    BY <1>7, <2>3, <2>4, <2>5
<1>10. \A k \in 0..MaxIds : \A j \in b[k] : j = i \/ (j \in Live /\ j \in b[j])
  <2> DEFINE Bad == {k \in 0..MaxIds : ~\A j \in b[k] : j = i \/ (j \in Live /\ j \in b[j])}
  <2>1. SUFFICES ASSUME Bad # {} PROVE FALSE
    OBVIOUS
  <2>2. Bad \subseteq Nat
    BY <1>0
  <2>3. PICK m \in Bad : \A o \in Bad : m <= o
    <3> HIDE DEF Bad
    <3> QED
      BY <2>1, <2>2, Least
  <2>4. m # 0
    BY <1>6, <2>3
  <2>5. m - 1 \in 0..MaxIds /\ ~(m <= m - 1) /\ m \in 1..MaxIds
    BY <1>0, <2>3, <2>4
  <2>6. \A j \in b[m - 1] : j = i \/ (j \in Live /\ j \in b[j])
    BY <2>3, <2>5
  <2>7. PICK j \in b[m] : ~(j = i \/ (j \in Live /\ j \in b[j]))
    BY <2>3
  <2>8. j \in Live /\ remote[j].parent \in b[m - 1]
    BY <1>6, <2>5, <2>6, <2>7
  <2>9. j \in j..MaxIds
    BY <1>0, <2>8 DEF Live, Id
  <2>10. CASE remote[j].parent = i
    BY <1>8, <2>7, <2>8, <2>9, <2>10
  <2>11. CASE remote[j].parent # i
    <3>1. remote[j].parent \in Live /\ remote[j].parent \in b[remote[j].parent]
      BY <2>6, <2>8, <2>11
    <3> QED
      BY <1>9, <2>7, <2>8, <2>9, <3>1
  <2> QED
    BY <2>10, <2>11
<1>11. MaxIds \in 0..MaxIds /\ 0 \in 0..MaxIds /\ MaxIds \in 0..MaxIds
  BY <1>0
<1>12. i \in b[MaxIds]
  BY <1>6, <1>7, <1>11
<1>13. b[MaxIds] \subseteq Live \cup {i}
  BY <1>10, <1>11
<1>14. ASSUME NEW j \in Live, remote[j].parent \in b[MaxIds] PROVE j \in b[MaxIds]
  <2>1. MaxIds \in j..MaxIds
    BY <1>0 DEF Live, Id
  <2>2. CASE remote[j].parent = i
    BY <1>8, <2>1, <2>2
  <2>3. CASE remote[j].parent # i
    <3>1. remote[j].parent \in Live /\ remote[j].parent \in b[remote[j].parent]
      BY <1>10, <1>11, <1>14, <2>3
    <3> QED
      BY <1>9, <2>1, <3>1
  <2> QED
    BY <2>2, <2>3
<1> QED
  BY <1>5, <1>12, <1>13, <1>14

-----------------------------------------------------------------------------
(* The steps, in terms of the adapter that takes them.                     *)

Still == UNCHANGED <<remote, changers, overlapped, orderly, quiet>>

(* the other adapters' calls stay where they are *)
Only(a) ==
  /\ cache' = [cache EXCEPT ![a] = cache'[a]]
  /\ op' = [op EXCEPT ![a] = op'[a]]
  /\ pc' = [pc EXCEPT ![a] = pc'[a]]
  /\ dir' = [dir EXCEPT ![a] = dir'[a]]
  /\ n' = [n EXCEPT ![a] = n'[a]]
  /\ cur' = [cur EXCEPT ![a] = cur'[a]]
  /\ answer' = [answer EXCEPT ![a] = answer'[a]]
  /\ calls' = [calls EXCEPT ![a] = calls'[a]]
  /\ calls'[a] \in Nat /\ calls'[a] <= MaxCalls[a]

SameCall(a) == op'[a] = op[a] /\ answer'[a] = answer[a]

Over(a) ==
  /\ op'[a] = op[a] /\ n'[a] = 0 /\ cur'[a] = Top /\ dir'[a] = <<>>

(* a's loop begins at the top, or with the whole path from the cache *)
Enters(a, full) ==
  \/ n'[a] = 0 /\ cur'[a] = Top
  \/ n'[a] = Len(full) /\ cur'[a] = cache[a][full] /\ cache[a][full] # NoId

Starts(a) ==
  /\ ~Busy(a)
  /\ UNCHANGED <<remote, changers, orderly>>
  /\ cache'[a] = cache[a]
  /\ quiet' = [quiet EXCEPT ![a] = TRUE]
  /\ overlapped' = (overlapped \/ \E b \in Adapter \ {a} : pc[b] \notin {"idle", "closed"})
  /\ op'[a] \in [kind : Kinds \cup {"open"}, path : Path \cup {<<>>}, content : Content]
  /\ op'[a].path = <<>> <=> op'[a].kind = "open"
  /\ op'[a].kind \in {"write", "read"} => op'[a].path \in FilePaths
  /\ op'[a].kind = "mkdir" => op'[a].path \in FolderPaths
  /\ answer'[a] = [result |-> "none", got |-> NoContent]
  /\ Enters(a, Full(a)')
  /\ \/ pc'[a] = "lookup" /\ op'[a].kind \notin {"open", "mkdir"} /\ dir'[a] = dir[a]
     \/ pc'[a] = "folders" /\ op'[a].kind \in {"open", "mkdir"} /\ dir'[a] = Full(a)'

(* why a call returns without having changed Drive in its last step *)
Why(a, result, got) ==
  \/ result = "failed"
  \/ /\ pc[a] = "lookup" /\ n[a] < Len(Full(a)) /\ op[a].kind # "write"
     /\ Children(cur[a], Full(a)[n[a] + 1]) = {} /\ result = "notfound"
  \/ pc[a] = "mkfolder" /\ ~IsFolder(cur[a]) /\ result \in {"notfound", "error"}
  \/ /\ FoldersDone(a) /\ op[a].kind = "write" /\ ~IsFolder(InFolder(a))
     /\ result \in {"notfound", "error"}
  \/ FoldersDone(a) /\ op[a].kind = "mkdir" /\ result = "ok"
  \/ Found(a, "write") /\ ~IsFile(cur[a]) /\ result \in {"notfound", "error"}
  \/ Found(a, "delete") /\ IsGone(cur[a]) /\ result = "notfound"
  \/ Found(a, "exists") /\ result = "ok"
  \/ Found(a, "stat") /\ result = IF IsGone(cur[a]) THEN "notfound" ELSE "ok"
  \/ Found(a, "list") /\ (result = "ok" \/ (IsGone(cur[a]) /\ result = "notfound"))
  \/ Found(a, "read") /\ IF IsFile(cur[a]) THEN result = "ok" /\ got = remote[cur[a]].content
                         ELSE result \in {"notfound", "error"}

Ends(a) ==
  /\ Still
  /\ \/ Over(a) /\ Busy(a)
     \/ op'[a] = op[a] /\ n'[a] = n[a] /\ cur'[a] = cur[a] /\ dir'[a] = dir[a]
  /\ cache'[a] = cache[a] \/ cache'[a] = [k \in Key |-> NoId]
  /\ pc'[a] \in {"idle", "closed"}
  /\ answer'[a] \in [result : {"none", "ok", "notfound", "error", "failed"}, got : Content]
  /\ pc'[a] = "closed" \/ Why(a, answer'[a].result, answer'[a].got)

Finds(a) ==
  /\ Still /\ SameCall(a) /\ dir'[a] = dir[a]
  /\ pc[a] = "lookup" /\ n[a] < Len(Full(a)) /\ pc'[a] = "lookup"
  /\ n'[a] = n[a] + 1
  /\ cur'[a] \in Children(cur[a], Full(a)[n[a] + 1])
  /\ cache'[a] = [cache[a] EXCEPT ![SubSeq(Full(a), 1, n[a] + 1)] = cur'[a]]

TurnsToFolders(a) ==
  /\ Still /\ SameCall(a) /\ cache'[a] = cache[a]
  /\ pc[a] = "lookup" /\ n[a] < Len(Full(a)) /\ op[a].kind = "write"
  /\ Children(cur[a], Full(a)[n[a] + 1]) = {}
  /\ pc'[a] = "folders" /\ dir'[a] = DirOf(a) /\ Enters(a, DirOf(a))

FindsFolder(a) ==
  /\ Still /\ SameCall(a) /\ dir'[a] = dir[a]
  /\ pc[a] = "folders" /\ Passed(a) # Len(dir[a]) /\ pc'[a] = "folders"
  /\ n'[a] = Passed(a) + 1
  /\ cur'[a] \in Children(InFolder(a), dir[a][Passed(a) + 1]) /\ IsFolder(cur'[a])
  /\ cache'[a] = [cache[a] EXCEPT ![SubSeq(dir[a], 1, Passed(a) + 1)] = cur'[a]]

FindsNoFolder(a) ==
  /\ Still /\ SameCall(a) /\ dir'[a] = dir[a] /\ cache'[a] = cache[a]
  /\ pc[a] = "folders" /\ Passed(a) # Len(dir[a]) /\ pc'[a] = "mkfolder"
  /\ \A i \in Children(InFolder(a), dir[a][Passed(a) + 1]) : ~IsFolder(i)
  /\ n'[a] = Passed(a) /\ cur'[a] = InFolder(a)

Makes(a, node) ==
  /\ NextId \in Id /\ remote' = [remote EXCEPT ![NextId] = node]
  /\ changers' = changers \cup {a}
  /\ quiet' = [b \in Adapter |-> quiet[b] /\ b = a]
  /\ UNCHANGED <<overlapped, orderly>>

MakesFolder(a) ==
  /\ pc[a] = "mkfolder" /\ IsFolder(cur[a])
  /\ Makes(a, Node(dir[a][n[a] + 1], cur[a], "folder", NoContent))
  /\ SameCall(a) /\ dir'[a] = dir[a] /\ pc'[a] = "folders"
  /\ n'[a] = n[a] + 1 /\ cur'[a] = NextId
  /\ cache'[a] = [cache[a] EXCEPT ![SubSeq(dir[a], 1, n[a] + 1)] = NextId]

MakesFile(a) ==
  /\ pc[a] = "folders" /\ Passed(a) = Len(dir[a]) /\ op[a].kind = "write"
  /\ IsFolder(InFolder(a))
  /\ Makes(a, Node(Full(a)[Len(Full(a))], InFolder(a), "file", op[a].content))
  /\ Over(a) /\ cache'[a] = cache[a] /\ pc'[a] = "idle"
  /\ answer'[a] = [result |-> "ok", got |-> NoContent]

Updates(a) ==
  /\ Found(a, "write") /\ IsFile(cur[a])
  /\ remote' = [remote EXCEPT ![cur[a]].content = op[a].content]
  /\ changers' = changers \cup {a}
  /\ quiet' = [b \in Adapter |-> quiet[b] /\ b = a]
  /\ UNCHANGED <<overlapped, orderly>>
  /\ Over(a) /\ cache'[a] = cache[a] /\ pc'[a] = "idle"
  /\ answer'[a] = [result |-> "ok", got |-> NoContent]

Deletes(a) ==
  /\ Found(a, "delete") /\ ~IsGone(cur[a])
  /\ remote' = [i \in Id |-> IF i \in Subtree(cur[a]) THEN Gone ELSE remote[i]]
  /\ changers' = changers \cup {a}
  /\ quiet' = [b \in Adapter |-> quiet[b] /\ b = a]
  /\ orderly' = (orderly /\ Subtree(cur[a]) = {cur[a]}) /\ overlapped' = overlapped
  /\ Over(a) /\ pc'[a] = "idle"
  /\ cache'[a] = IF Named(a) THEN [cache[a] EXCEPT ![Full(a)] = NoId] ELSE cache[a]
  /\ answer'[a] = [result |-> "ok", got |-> NoContent]

Opens(a) ==
  /\ Still
  /\ pc[a] = "folders" /\ Passed(a) = Len(dir[a]) /\ op[a].kind = "open"
  /\ Over(a) /\ pc'[a] = "idle"
  /\ cache'[a] = [cache[a] EXCEPT ![Root[a]] = InFolder(a)]
  /\ answer'[a] = [result |-> "ok", got |-> NoContent]

Moves(a) ==
  \/ Starts(a) \/ Ends(a) \/ Finds(a) \/ TurnsToFolders(a) \/ FindsFolder(a)
  \/ FindsNoFolder(a) \/ MakesFolder(a) \/ MakesFile(a) \/ Updates(a) \/ Deletes(a) \/ Opens(a)

LEMMA CachedIs ==
  ASSUME NEW a, NEW full, Cached(a, full) # NoId
  PROVE  Cached(a, full) = cache[a][full]
BY DEF Cached

LEMMA EntersLookup ==
  ASSUME CallsOK, NEW a \in Adapter, NEW full, EnterLookup(a, full)
  PROVE  /\ Enters(a, full)
         /\ pc'[a] = "lookup" /\ pc' = [pc EXCEPT ![a] = pc'[a]]
         /\ dir'[a] = dir[a] /\ dir' = [dir EXCEPT ![a] = dir'[a]]
         /\ n' = [n EXCEPT ![a] = n'[a]] /\ cur' = [cur EXCEPT ![a] = cur'[a]]
BY CachedIs DEF EnterLookup, Goto, At, Enters, CallsOK

LEMMA EntersFolders ==
  ASSUME CallsOK, NEW a \in Adapter, NEW full, EnterFolders(a, full)
  PROVE  /\ Enters(a, full)
         /\ pc'[a] = "folders" /\ pc' = [pc EXCEPT ![a] = pc'[a]]
         /\ dir'[a] = full /\ dir' = [dir EXCEPT ![a] = dir'[a]]
         /\ n' = [n EXCEPT ![a] = n'[a]] /\ cur' = [cur EXCEPT ![a] = cur'[a]]
BY CachedIs DEF EnterFolders, Goto, At, Enters, CallsOK

LEMMA Returns ==
  ASSUME CallsOK, NEW a \in Adapter, NEW result, NEW got, Return(a, result, got)
  PROVE  /\ n'[a] = 0 /\ cur'[a] = Top /\ dir'[a] = <<>>
         /\ pc'[a] = (IF op[a].kind = "open" /\ result # "ok" THEN "closed" ELSE "idle")
         /\ pc'[a] \in {"idle", "closed"}
         /\ answer'[a] = [result |-> result, got |-> got]
         /\ pc' = [pc EXCEPT ![a] = pc'[a]] /\ dir' = [dir EXCEPT ![a] = dir'[a]]
         /\ n' = [n EXCEPT ![a] = n'[a]] /\ cur' = [cur EXCEPT ![a] = cur'[a]]
         /\ answer' = [answer EXCEPT ![a] = answer'[a]]
BY DEF Return, Goto, At, CallsOK

LEMMA Ats ==
  ASSUME CallsOK, NEW a \in Adapter, NEW k, NEW id, At(a, k, id)
  PROVE  /\ n'[a] = k /\ cur'[a] = id
         /\ n' = [n EXCEPT ![a] = n'[a]] /\ cur' = [cur EXCEPT ![a] = cur'[a]]
BY DEF At, CallsOK

LEMMA Gotos ==
  ASSUME CallsOK, NEW a \in Adapter, NEW label, Goto(a, label)
  PROVE  pc'[a] = label /\ pc' = [pc EXCEPT ![a] = pc'[a]]
BY DEF Goto, CallsOK

LEMMA Remembers ==
  ASSUME CallsOK, NEW a \in Adapter, NEW k, NEW id, Remember(a, k, id)
  PROVE  cache'[a] = [cache[a] EXCEPT ![k] = id] /\ cache' = [cache EXCEPT ![a] = cache'[a]]
BY DEF Remember, CallsOK

LEMMA Forgets ==
  ASSUME CallsOK, NEW a \in Adapter, Forget(a)
  PROVE  cache'[a] = [k \in Key |-> NoId] /\ cache' = [cache EXCEPT ![a] = cache'[a]]
BY DEF Forget, CallsOK

LEMMA Unchanged ==
  ASSUME CallsOK, NEW a \in Adapter
  PROVE  /\ cache' = cache => cache'[a] = cache[a] /\ cache' = [cache EXCEPT ![a] = cache'[a]]
         /\ op' = op => op'[a] = op[a] /\ op' = [op EXCEPT ![a] = op'[a]]
         /\ pc' = pc => pc'[a] = pc[a] /\ pc' = [pc EXCEPT ![a] = pc'[a]]
         /\ dir' = dir => dir'[a] = dir[a] /\ dir' = [dir EXCEPT ![a] = dir'[a]]
         /\ n' = n => n'[a] = n[a] /\ n' = [n EXCEPT ![a] = n'[a]]
         /\ cur' = cur => cur'[a] = cur[a] /\ cur' = [cur EXCEPT ![a] = cur'[a]]
         /\ answer' = answer => answer'[a] = answer[a] /\ answer' = [answer EXCEPT ![a] = answer'[a]]
         /\ calls' = calls => /\ calls' = [calls EXCEPT ![a] = calls'[a]]
                              /\ calls'[a] \in Nat /\ calls'[a] <= MaxCalls[a]
BY DEF CallsOK

LEMMA BeginIs ==
  ASSUME CallsOK, NEW a \in Adapter, NEW kind, NEW path, NEW content,
         Begin(a, kind, path, content)
  PROVE  /\ op'[a] = [kind |-> kind, path |-> path, content |-> content]
         /\ op' = [op EXCEPT ![a] = op'[a]]
         /\ answer'[a] = [result |-> "none", got |-> NoContent]
         /\ answer' = [answer EXCEPT ![a] = answer'[a]]
BY DEF Begin, CallsOK

LEMMA OpenMoves ==
  ASSUME CallsOK, NEW a \in Adapter, Open(a)
  PROVE  Only(a) /\ Starts(a)
<1>1. /\ pc[a] = "closed" /\ Begin(a, "open", <<>>, NoContent) /\ EnterFolders(a, Root[a])
      /\ UNCHANGED <<remote, cache, calls, changers, orderly>>
  BY DEF Open
<1>2. /\ op'[a] = [kind |-> "open", path |-> <<>>, content |-> NoContent]
      /\ op' = [op EXCEPT ![a] = op'[a]]
      /\ answer'[a] = [result |-> "none", got |-> NoContent]
      /\ answer' = [answer EXCEPT ![a] = answer'[a]]
  BY <1>1, BeginIs
<1>3. Full(a)' = Root[a]
  BY <1>2, DriveAssumption, ConcatEmptySeq DEF Full
<1>4. /\ Enters(a, Root[a]) /\ pc'[a] = "folders" /\ dir'[a] = Root[a]
      /\ pc' = [pc EXCEPT ![a] = pc'[a]] /\ dir' = [dir EXCEPT ![a] = dir'[a]]
      /\ n' = [n EXCEPT ![a] = n'[a]] /\ cur' = [cur EXCEPT ![a] = cur'[a]]
  BY <1>1, EntersFolders
<1>5. Only(a)
  BY <1>1, <1>2, <1>4, Unchanged DEF Only
<1>6. cache'[a] = cache[a] /\ ~Busy(a)
  BY <1>1 DEF Busy
<1>7. /\ quiet' = [quiet EXCEPT ![a] = TRUE]
      /\ overlapped' = (overlapped \/ \E b \in Adapter \ {a} : pc[b] \notin {"idle", "closed"})
  BY <1>1 DEF Begin
<1>8. Starts(a)
  <2>1. /\ op'[a] \in [kind : Kinds \cup {"open"}, path : Path \cup {<<>>}, content : Content]
        /\ op'[a].path = <<>> /\ op'[a].kind = "open"
    BY <1>2 DEF Content
  <2>2. /\ op'[a].kind \in {"write", "read"} => op'[a].path \in FilePaths
        /\ op'[a].kind = "mkdir" => op'[a].path \in FolderPaths
    BY <2>1
  <2>3. Enters(a, Full(a)')
    BY <1>3, <1>4
  <2>4. \/ pc'[a] = "lookup" /\ op'[a].kind \notin {"open", "mkdir"} /\ dir'[a] = dir[a]
        \/ pc'[a] = "folders" /\ op'[a].kind \in {"open", "mkdir"} /\ dir'[a] = Full(a)'
    BY <1>3, <1>4, <2>1
  <2>5. UNCHANGED <<remote, changers, orderly>>
    BY <1>1
  <2> QED
    BY <1>2, <1>6, <1>7, <2>1, <2>2, <2>3, <2>4, <2>5 DEF Starts
<1> QED
  BY <1>5, <1>8

LEMMA CallMoves ==
  ASSUME CallsOK, NEW a \in Adapter, Calls(a)
  PROVE  Only(a) /\ Starts(a)
<1>1. PICK kind \in Kinds, path \in Path :
        /\ Call(a, kind, path)
        /\ kind \in {"write", "read"} => path \in FilePaths
        /\ kind = "mkdir" => path \in FolderPaths
  BY DEF Calls, Kinds, Path
<1> DEFINE content == IF kind = "write" THEN <<a, calls'[a]>> ELSE NoContent
<1>2. /\ pc[a] = "idle" /\ calls[a] < MaxCalls[a]
      /\ calls' = [calls EXCEPT ![a] = @ + 1]
      /\ Begin(a, kind, path, content)
      /\ UNCHANGED <<remote, cache, changers, orderly>>
  BY <1>1 DEF Call
<1>3. /\ calls'[a] \in Nat /\ calls'[a] <= MaxCalls[a]
      /\ calls' = [calls EXCEPT ![a] = calls'[a]]
  <2>1. calls[a] \in Nat /\ MaxCalls[a] \in Nat /\ calls'[a] = calls[a] + 1 /\ calls \in [Adapter -> Nat]
    BY <1>2, DriveAssumption DEF CallsOK
  <2> QED
    BY <1>2, <2>1
<1>4. content \in Content
  BY <1>3 DEF Content
<1> HIDE DEF content
<1>5. /\ op'[a] = [kind |-> kind, path |-> path, content |-> content]
      /\ op' = [op EXCEPT ![a] = op'[a]]
      /\ answer'[a] = [result |-> "none", got |-> NoContent]
      /\ answer' = [answer EXCEPT ![a] = answer'[a]]
  BY <1>2, BeginIs
<1>6. Full(a)' = Root[a] \o path /\ op'[a].kind = kind /\ op'[a].path = path
  BY <1>5 DEF Full
<1>7. path # <<>> /\ kind # "open"
  BY DriveAssumption DEF Kinds
<1>8. /\ Enters(a, Root[a] \o path)
      /\ \/ pc'[a] = "lookup" /\ kind # "mkdir" /\ dir'[a] = dir[a]
         \/ pc'[a] = "folders" /\ kind = "mkdir" /\ dir'[a] = Root[a] \o path
      /\ pc' = [pc EXCEPT ![a] = pc'[a]] /\ dir' = [dir EXCEPT ![a] = dir'[a]]
      /\ n' = [n EXCEPT ![a] = n'[a]] /\ cur' = [cur EXCEPT ![a] = cur'[a]]
  <2>1. CASE kind = "mkdir"
    <3>1. EnterFolders(a, Root[a] \o path)
      BY <1>1, <2>1 DEF Call
    <3> QED
      BY <2>1, <3>1, EntersFolders
  <2>2. CASE kind # "mkdir"
    <3>1. EnterLookup(a, Root[a] \o path)
      BY <1>1, <2>2 DEF Call
    <3> QED
      BY <2>2, <3>1, EntersLookup
  <2> QED
    BY <2>1, <2>2
<1>9. Only(a)
  BY <1>2, <1>3, <1>5, <1>8, Unchanged DEF Only
<1>10. Starts(a)
  <2>1. op'[a] \in [kind : Kinds \cup {"open"}, path : Path \cup {<<>>}, content : Content]
    BY <1>4, <1>5
  <2>2. /\ quiet' = [quiet EXCEPT ![a] = TRUE]
        /\ overlapped' = (overlapped \/ \E b \in Adapter \ {a} : pc[b] \notin {"idle", "closed"})
    BY <1>2 DEF Begin
  <2>3. cache'[a] = cache[a] /\ ~Busy(a) /\ UNCHANGED <<remote, changers, orderly>>
    BY <1>2 DEF Busy
  <2>4. /\ op'[a].path = <<>> <=> op'[a].kind = "open"
        /\ op'[a].kind \in {"write", "read"} => op'[a].path \in FilePaths
        /\ op'[a].kind = "mkdir" => op'[a].path \in FolderPaths
    BY <1>1, <1>6, <1>7
  <2>5. Enters(a, Full(a)')
    BY <1>6, <1>8
  <2>6. \/ pc'[a] = "lookup" /\ op'[a].kind \notin {"open", "mkdir"} /\ dir'[a] = dir[a]
        \/ pc'[a] = "folders" /\ op'[a].kind \in {"open", "mkdir"} /\ dir'[a] = Full(a)'
    BY <1>6, <1>7, <1>8
  <2> QED
    BY <1>5, <2>1, <2>2, <2>3, <2>4, <2>5, <2>6 DEF Starts
<1> QED
  BY <1>9, <1>10

LEMMA RestartMoves ==
  ASSUME CallsOK, NEW a \in Adapter, Restart(a)
  PROVE  Only(a) /\ Ends(a)
<1>1. /\ calls' = [calls EXCEPT ![a] = @ + 1] /\ calls[a] < MaxCalls[a]
      /\ Goto(a, "closed") /\ Forget(a)
      /\ UNCHANGED <<remote, op, dir, n, cur, answer, history>>
  BY DEF Restart
<1>2. calls'[a] \in Nat /\ calls'[a] <= MaxCalls[a] /\ calls' = [calls EXCEPT ![a] = calls'[a]]
  <2>1. calls[a] \in Nat /\ MaxCalls[a] \in Nat /\ calls'[a] = calls[a] + 1 /\ calls \in [Adapter -> Nat]
    BY <1>1, DriveAssumption DEF CallsOK
  <2> QED
    BY <1>1, <2>1
<1>3. pc'[a] = "closed" /\ pc' = [pc EXCEPT ![a] = pc'[a]]
  BY <1>1, Gotos
<1>4. cache'[a] = [k \in Key |-> NoId] /\ cache' = [cache EXCEPT ![a] = cache'[a]]
  BY <1>1, Forgets
<1>5. Only(a)
  BY <1>1, <1>2, <1>3, <1>4, Unchanged DEF Only
<1>6. Ends(a)
  <2>1. answer'[a] = answer[a] /\ answer[a] \in [result : {"none", "ok", "notfound", "error", "failed"}, got : Content]
    BY <1>1 DEF CallsOK
  <2>2. Still
    BY <1>1 DEF Still, history
  <2> QED
    BY <1>1, <1>3, <1>4, <2>1, <2>2 DEF Ends
<1> QED
  BY <1>5, <1>6

(* A call returns and has changed nothing on Drive. *)
LEMMA ReturnMoves ==
  ASSUME CallsOK, NEW a \in Adapter, NEW result \in {"ok", "notfound", "error", "failed"},
         NEW got \in Content,
         Return(a, result, got), cache' = cache \/ Forget(a), Still, Busy(a), Why(a, result, got), op' = op,
         \/ calls' = calls
         \/ calls' = [calls EXCEPT ![a] = @ + 1] /\ calls[a] < MaxCalls[a]
  PROVE  Only(a) /\ Ends(a)
<1>1. /\ n'[a] = 0 /\ cur'[a] = Top /\ dir'[a] = <<>> /\ pc'[a] \in {"idle", "closed"}
      /\ answer'[a] = [result |-> result, got |-> got]
      /\ pc' = [pc EXCEPT ![a] = pc'[a]] /\ dir' = [dir EXCEPT ![a] = dir'[a]]
      /\ n' = [n EXCEPT ![a] = n'[a]] /\ cur' = [cur EXCEPT ![a] = cur'[a]]
      /\ answer' = [answer EXCEPT ![a] = answer'[a]]
  BY Returns
<1>2. calls'[a] \in Nat /\ calls'[a] <= MaxCalls[a] /\ calls' = [calls EXCEPT ![a] = calls'[a]]
  <2>1. CASE calls' = calls
    BY <2>1, Unchanged
  <2>2. CASE calls' = [calls EXCEPT ![a] = @ + 1] /\ calls[a] < MaxCalls[a]
    <3>1. calls[a] \in Nat /\ MaxCalls[a] \in Nat /\ calls'[a] = calls[a] + 1 /\ calls \in [Adapter -> Nat]
      BY <2>2, DriveAssumption DEF CallsOK
    <3> QED
      BY <2>2, <3>1
  <2> QED
    BY <2>1, <2>2
<1>3. /\ cache'[a] = cache[a] \/ cache'[a] = [k \in Key |-> NoId]
      /\ cache' = [cache EXCEPT ![a] = cache'[a]]
  BY Unchanged, Forgets
<1>4. op'[a] = op[a] /\ op' = [op EXCEPT ![a] = op'[a]]
  BY Unchanged
<1>5. answer'[a] \in [result : {"none", "ok", "notfound", "error", "failed"}, got : Content]
  BY <1>1
<1>6. Why(a, answer'[a].result, answer'[a].got)
  BY <1>1
<1>7. Only(a)
  BY <1>1, <1>2, <1>3, <1>4 DEF Only
<1>8. Over(a)
  BY <1>1, <1>4 DEF Over
<1> QED
  BY <1>1, <1>3, <1>5, <1>6, <1>7, <1>8 DEF Ends

LEMMA FindPartMoves ==
  ASSUME CallsOK, NEW a \in Adapter, FindPart(a)
  PROVE  Only(a) /\ (Finds(a) \/ TurnsToFolders(a) \/ Ends(a))
<1> DEFINE full == Full(a)
           found == Children(cur[a], full[n[a] + 1])
<1>1. /\ pc[a] = "lookup" /\ n[a] < Len(full)
      /\ UNCHANGED <<remote, op, calls, history>>
  BY DEF FindPart
<1>2. \/ \E i \in found :
           /\ At(a, n[a] + 1, i)
           /\ Remember(a, SubSeq(full, 1, n[a] + 1), i)
           /\ UNCHANGED <<pc, dir, answer>>
      \/ /\ found = {} /\ UNCHANGED cache
         /\ IF op[a].kind = "write" THEN EnterFolders(a, DirOf(a)) /\ UNCHANGED answer
            ELSE Return(a, "notfound", NoContent)
  BY DEF FindPart
<1>3. Still
  BY <1>1 DEF Still, history
<1> HIDE DEF full, found
<1>4. CASE \E i \in found :
             /\ At(a, n[a] + 1, i)
             /\ Remember(a, SubSeq(full, 1, n[a] + 1), i)
             /\ UNCHANGED <<pc, dir, answer>>
  <2>1. PICK i \in found : /\ At(a, n[a] + 1, i)
                           /\ Remember(a, SubSeq(full, 1, n[a] + 1), i)
                           /\ UNCHANGED <<pc, dir, answer>>
    BY <1>4
  <2>2. /\ n'[a] = n[a] + 1 /\ cur'[a] = i
        /\ n' = [n EXCEPT ![a] = n'[a]] /\ cur' = [cur EXCEPT ![a] = cur'[a]]
    BY <2>1, Ats
  <2>3. /\ cache'[a] = [cache[a] EXCEPT ![SubSeq(full, 1, n[a] + 1)] = cur'[a]]
        /\ cache' = [cache EXCEPT ![a] = cache'[a]]
    BY <2>1, <2>2, Remembers
  <2>4. Only(a) /\ SameCall(a) /\ dir'[a] = dir[a] /\ pc'[a] = pc[a]
    BY <1>1, <2>1, <2>2, <2>3, Unchanged DEF Only, SameCall
  <2> QED
    BY <1>1, <1>3, <2>1, <2>2, <2>3, <2>4 DEF Finds, full, found
<1>5. CASE found = {} /\ UNCHANGED cache /\ op[a].kind = "write" /\ EnterFolders(a, DirOf(a))
           /\ UNCHANGED answer
  <2>1. /\ Enters(a, DirOf(a)) /\ pc'[a] = "folders" /\ dir'[a] = DirOf(a)
        /\ pc' = [pc EXCEPT ![a] = pc'[a]] /\ dir' = [dir EXCEPT ![a] = dir'[a]]
        /\ n' = [n EXCEPT ![a] = n'[a]] /\ cur' = [cur EXCEPT ![a] = cur'[a]]
    BY <1>5, EntersFolders
  <2>2. Only(a) /\ SameCall(a) /\ cache'[a] = cache[a]
    BY <1>1, <1>5, <2>1, Unchanged DEF Only, SameCall
  <2> QED
    BY <1>1, <1>3, <1>5, <2>1, <2>2 DEF TurnsToFolders, full, found
<1>6. CASE /\ found = {} /\ UNCHANGED cache /\ op[a].kind # "write"
           /\ Return(a, "notfound", NoContent)
  <2>1. Why(a, "notfound", NoContent) /\ Busy(a) /\ NoContent \in Content
    BY <1>1, <1>6 DEF Why, Busy, full, found, Content
  <2> QED
    BY <1>1, <1>3, <1>6, <2>1, ReturnMoves
<1> QED
  BY <1>2, <1>4, <1>5, <1>6

LEMMA FindFolderMoves ==
  ASSUME CallsOK, NEW a \in Adapter, FindFolder(a)
  PROVE  Only(a) /\ (FindsFolder(a) \/ FindsNoFolder(a))
<1> DEFINE k == Passed(a)
           found == {i \in Children(InFolder(a), dir[a][k + 1]) : IsFolder(i)}
<1>1. /\ pc[a] = "folders" /\ k # Len(dir[a])
      /\ UNCHANGED <<remote, op, dir, answer, calls, history>>
  BY DEF FindFolder, FoldersDone
<1>2. \/ \E i \in found :
           /\ At(a, k + 1, i)
           /\ Remember(a, SubSeq(dir[a], 1, k + 1), i)
           /\ UNCHANGED pc
      \/ /\ found = {}
         /\ At(a, k, InFolder(a)) /\ Goto(a, "mkfolder") /\ UNCHANGED cache
  BY DEF FindFolder
<1>3. Still
  BY <1>1 DEF Still, history
<1>4. /\ \A i \in found : i \in Children(InFolder(a), dir[a][k + 1]) /\ IsFolder(i)
      /\ found = {} => \A i \in Children(InFolder(a), dir[a][k + 1]) : ~IsFolder(i)
  OBVIOUS
<1> HIDE DEF k, found
<1>5. CASE \E i \in found : At(a, k + 1, i) /\ Remember(a, SubSeq(dir[a], 1, k + 1), i)
                            /\ UNCHANGED pc
  <2>1. PICK i \in found : At(a, k + 1, i) /\ Remember(a, SubSeq(dir[a], 1, k + 1), i)
                           /\ UNCHANGED pc
    BY <1>5
  <2>2. /\ n'[a] = k + 1 /\ cur'[a] = i
        /\ n' = [n EXCEPT ![a] = n'[a]] /\ cur' = [cur EXCEPT ![a] = cur'[a]]
    BY <2>1, Ats
  <2>3. /\ cache'[a] = [cache[a] EXCEPT ![SubSeq(dir[a], 1, k + 1)] = cur'[a]]
        /\ cache' = [cache EXCEPT ![a] = cache'[a]]
    BY <2>1, <2>2, Remembers
  <2>4. Only(a) /\ SameCall(a) /\ dir'[a] = dir[a] /\ pc'[a] = pc[a]
    BY <1>1, <2>1, <2>2, <2>3, Unchanged DEF Only, SameCall
  <2> QED
    BY <1>1, <1>3, <1>4, <2>1, <2>2, <2>3, <2>4 DEF FindsFolder, k
<1>6. CASE found = {} /\ At(a, k, InFolder(a)) /\ Goto(a, "mkfolder") /\ UNCHANGED cache
  <2>1. /\ n'[a] = k /\ cur'[a] = InFolder(a)
        /\ n' = [n EXCEPT ![a] = n'[a]] /\ cur' = [cur EXCEPT ![a] = cur'[a]]
    BY <1>6, Ats
  <2>2. pc'[a] = "mkfolder" /\ pc' = [pc EXCEPT ![a] = pc'[a]]
    BY <1>6, Gotos
  <2>3. Only(a) /\ SameCall(a) /\ dir'[a] = dir[a] /\ cache'[a] = cache[a]
    BY <1>1, <1>6, <2>1, <2>2, Unchanged DEF Only, SameCall
  <2> QED
    BY <1>1, <1>3, <1>4, <1>6, <2>1, <2>2, <2>3 DEF FindsNoFolder, k
<1> QED
  BY <1>2, <1>5, <1>6

LEMMA MakeFolderMoves ==
  ASSUME CallsOK, NEW a \in Adapter, MakeFolder(a)
  PROVE  Only(a) /\ (MakesFolder(a) \/ Ends(a))
<1>1. pc[a] = "mkfolder" /\ UNCHANGED <<op, calls, orderly>>
  BY DEF MakeFolder
<1>2. CASE IsFolder(cur[a])
  <2>1. /\ Make(a, Node(dir[a][n[a] + 1], cur[a], "folder", NoContent))
        /\ Remember(a, SubSeq(dir[a], 1, n[a] + 1), NextId)
        /\ At(a, n[a] + 1, NextId) /\ Goto(a, "folders") /\ UNCHANGED <<dir, answer>>
    BY <1>2 DEF MakeFolder
  <2>2. /\ n'[a] = n[a] + 1 /\ cur'[a] = NextId
        /\ n' = [n EXCEPT ![a] = n'[a]] /\ cur' = [cur EXCEPT ![a] = cur'[a]]
    BY <2>1, Ats
  <2>3. pc'[a] = "folders" /\ pc' = [pc EXCEPT ![a] = pc'[a]]
    BY <2>1, Gotos
  <2>4. /\ cache'[a] = [cache[a] EXCEPT ![SubSeq(dir[a], 1, n[a] + 1)] = NextId]
        /\ cache' = [cache EXCEPT ![a] = cache'[a]]
    BY <2>1, Remembers
  <2>5. Makes(a, Node(dir[a][n[a] + 1], cur[a], "folder", NoContent))
    BY <1>1, <2>1 DEF Make, Change, Makes
  <2>6. Only(a) /\ SameCall(a) /\ dir'[a] = dir[a]
    BY <1>1, <2>1, <2>2, <2>3, <2>4, Unchanged DEF Only, SameCall
  <2> QED
    BY <1>1, <1>2, <2>2, <2>3, <2>4, <2>5, <2>6 DEF MakesFolder
<1>3. CASE ~IsFolder(cur[a])
  <2>1. /\ Return(a, IF IsGone(cur[a]) THEN "notfound" ELSE "error", NoContent)
        /\ IF op[a].kind = "open" THEN Forget(a) ELSE UNCHANGED cache
        /\ UNCHANGED <<remote, changers, overlapped, quiet>>
    BY <1>3 DEF MakeFolder
  <2>2. PICK result \in {"notfound", "error"} : Return(a, result, NoContent)
    BY <2>1
  <2>3. Still /\ (cache' = cache \/ Forget(a)) /\ NoContent \in Content
    BY <1>1, <2>1 DEF Still, Content
  <2>4. Busy(a) /\ Why(a, result, NoContent)
    BY <1>1, <1>3 DEF Busy, Why
  <2> QED
    BY <1>1, <2>2, <2>3, <2>4, ReturnMoves
<1> QED
  BY <1>2, <1>3

LEMMA CreateFileMoves ==
  ASSUME CallsOK, NEW a \in Adapter, CreateFile(a)
  PROVE  Only(a) /\ (MakesFile(a) \/ Ends(a))
<1>1. /\ pc[a] = "folders" /\ Passed(a) = Len(dir[a]) /\ op[a].kind = "write"
      /\ UNCHANGED <<cache, op, calls, orderly>>
  BY DEF CreateFile, FoldersDone
<1>2. CASE IsFolder(InFolder(a))
  <2>1. /\ Make(a, Node(Full(a)[Len(Full(a))], InFolder(a), "file", op[a].content))
        /\ Return(a, "ok", NoContent)
    BY <1>2 DEF CreateFile
  <2>2. /\ n'[a] = 0 /\ cur'[a] = Top /\ dir'[a] = <<>> /\ pc'[a] = "idle"
        /\ answer'[a] = [result |-> "ok", got |-> NoContent]
        /\ pc' = [pc EXCEPT ![a] = pc'[a]] /\ dir' = [dir EXCEPT ![a] = dir'[a]]
        /\ n' = [n EXCEPT ![a] = n'[a]] /\ cur' = [cur EXCEPT ![a] = cur'[a]]
        /\ answer' = [answer EXCEPT ![a] = answer'[a]]
    BY <2>1, Returns
  <2>3. Makes(a, Node(Full(a)[Len(Full(a))], InFolder(a), "file", op[a].content))
    BY <1>1, <2>1 DEF Make, Change, Makes
  <2>4. Only(a) /\ Over(a) /\ cache'[a] = cache[a]
    BY <1>1, <2>2, Unchanged DEF Only, Over
  <2> QED
    BY <1>1, <1>2, <2>2, <2>3, <2>4 DEF MakesFile
<1>3. CASE ~IsFolder(InFolder(a))
  <2>1. /\ Return(a, IF IsGone(InFolder(a)) THEN "notfound" ELSE "error", NoContent)
        /\ UNCHANGED <<remote, changers, overlapped, quiet>>
    BY <1>3 DEF CreateFile
  <2>2. PICK result \in {"notfound", "error"} : Return(a, result, NoContent)
    BY <2>1
  <2>3. Still /\ NoContent \in Content
    BY <1>1, <2>1 DEF Still, Content
  <2>4. Busy(a) /\ Why(a, result, NoContent)
    BY <1>1, <1>3 DEF Busy, Why, Found, FoldersDone
  <2> QED
    BY <1>1, <2>2, <2>3, <2>4, ReturnMoves
<1> QED
  BY <1>2, <1>3

LEMMA UpdateFileMoves ==
  ASSUME CallsOK, NEW a \in Adapter, UpdateFile(a)
  PROVE  Only(a) /\ (Updates(a) \/ Ends(a))
<1>1. Found(a, "write") /\ UNCHANGED <<cache, op, calls, orderly>>
  BY DEF UpdateFile
<1>2. CASE IsFile(cur[a])
  <2>1. /\ Change(a, [remote EXCEPT ![cur[a]].content = op[a].content])
        /\ Return(a, "ok", NoContent)
    BY <1>2 DEF UpdateFile
  <2>2. /\ n'[a] = 0 /\ cur'[a] = Top /\ dir'[a] = <<>> /\ pc'[a] = "idle"
        /\ answer'[a] = [result |-> "ok", got |-> NoContent]
        /\ pc' = [pc EXCEPT ![a] = pc'[a]] /\ dir' = [dir EXCEPT ![a] = dir'[a]]
        /\ n' = [n EXCEPT ![a] = n'[a]] /\ cur' = [cur EXCEPT ![a] = cur'[a]]
        /\ answer' = [answer EXCEPT ![a] = answer'[a]]
    BY <2>1, Returns
  <2>3. Only(a) /\ Over(a) /\ cache'[a] = cache[a]
    BY <1>1, <2>2, Unchanged DEF Only, Over
  <2> QED
    BY <1>1, <1>2, <2>1, <2>2, <2>3 DEF Updates, Change
<1>3. CASE ~IsFile(cur[a])
  <2>1. /\ Return(a, IF IsGone(cur[a]) THEN "notfound" ELSE "error", NoContent)
        /\ UNCHANGED <<remote, changers, overlapped, quiet>>
    BY <1>3 DEF UpdateFile
  <2>2. PICK result \in {"notfound", "error"} : Return(a, result, NoContent)
    BY <2>1
  <2>3. Still /\ NoContent \in Content
    BY <1>1, <2>1 DEF Still, Content
  <2>4. Busy(a) /\ Why(a, result, NoContent)
    BY <1>1, <1>3 DEF Busy, Why, Found, FoldersDone
  <2> QED
    BY <1>1, <2>2, <2>3, <2>4, ReturnMoves
<1> QED
  BY <1>2, <1>3

LEMMA DeleteMoves ==
  ASSUME CallsOK, NEW a \in Adapter, Delete(a)
  PROVE  Only(a) /\ (Deletes(a) \/ Ends(a))
<1>1. Found(a, "delete") /\ UNCHANGED <<op, calls>>
  BY DEF Delete
<1>2. CASE ~IsGone(cur[a])
  <2>1. /\ Change(a, [i \in Id |-> IF i \in Subtree(cur[a]) THEN Gone ELSE remote[i]])
        /\ orderly' = (orderly /\ Subtree(cur[a]) = {cur[a]})
        /\ IF Named(a) THEN Remember(a, Full(a), NoId) ELSE UNCHANGED cache
        /\ Return(a, "ok", NoContent)
    BY <1>2 DEF Delete
  <2>2. /\ n'[a] = 0 /\ cur'[a] = Top /\ dir'[a] = <<>> /\ pc'[a] = "idle"
        /\ answer'[a] = [result |-> "ok", got |-> NoContent]
        /\ pc' = [pc EXCEPT ![a] = pc'[a]] /\ dir' = [dir EXCEPT ![a] = dir'[a]]
        /\ n' = [n EXCEPT ![a] = n'[a]] /\ cur' = [cur EXCEPT ![a] = cur'[a]]
        /\ answer' = [answer EXCEPT ![a] = answer'[a]]
    BY <2>1, Returns
  <2>3. /\ cache'[a] = IF Named(a) THEN [cache[a] EXCEPT ![Full(a)] = NoId] ELSE cache[a]
        /\ cache' = [cache EXCEPT ![a] = cache'[a]]
    <3>1. CASE Named(a)
      <4>1. Remember(a, Full(a), NoId)
        BY <2>1, <3>1
      <4>2. /\ cache'[a] = [cache[a] EXCEPT ![Full(a)] = NoId]
            /\ cache' = [cache EXCEPT ![a] = cache'[a]]
        BY <4>1, Remembers
      <4> QED
        BY <3>1, <4>2
    <3>2. CASE ~Named(a)
      BY <2>1, <3>2, Unchanged
    <3> QED
      BY <3>1, <3>2
  <2>4. Only(a) /\ Over(a)
    BY <1>1, <2>2, <2>3, Unchanged DEF Only, Over
  <2> QED
    BY <1>1, <1>2, <2>1, <2>2, <2>3, <2>4 DEF Deletes, Change
<1>3. CASE IsGone(cur[a])
  <2>1. /\ Return(a, "notfound", NoContent)
        /\ UNCHANGED <<remote, cache, changers, overlapped, orderly, quiet>>
    BY <1>3 DEF Delete
  <2>2. Still /\ NoContent \in Content
    BY <2>1 DEF Still, Content
  <2>3. Busy(a) /\ Why(a, "notfound", NoContent)
    BY <1>1, <1>3 DEF Busy, Why, Found
  <2> QED
    BY <1>1, <2>1, <2>2, <2>3, ReturnMoves
<1> QED
  BY <1>2, <1>3

LEMMA OpenedMoves ==
  ASSUME CallsOK, NEW a \in Adapter, Opened(a)
  PROVE  Only(a) /\ Opens(a)
<1>1. /\ pc[a] = "folders" /\ Passed(a) = Len(dir[a]) /\ op[a].kind = "open"
      /\ Remember(a, Root[a], InFolder(a)) /\ Return(a, "ok", NoContent)
      /\ UNCHANGED <<remote, op, calls, history>>
  BY DEF Opened, FoldersDone
<1>2. /\ n'[a] = 0 /\ cur'[a] = Top /\ dir'[a] = <<>> /\ pc'[a] = "idle"
      /\ answer'[a] = [result |-> "ok", got |-> NoContent]
      /\ pc' = [pc EXCEPT ![a] = pc'[a]] /\ dir' = [dir EXCEPT ![a] = dir'[a]]
      /\ n' = [n EXCEPT ![a] = n'[a]] /\ cur' = [cur EXCEPT ![a] = cur'[a]]
      /\ answer' = [answer EXCEPT ![a] = answer'[a]]
  BY <1>1, Returns
<1>3. /\ cache'[a] = [cache[a] EXCEPT ![Root[a]] = InFolder(a)]
      /\ cache' = [cache EXCEPT ![a] = cache'[a]]
  BY <1>1, Remembers
<1>4. Only(a) /\ Over(a) /\ Still
  BY <1>1, <1>2, <1>3, Unchanged DEF Only, Over, Still, history
<1> QED
  BY <1>1, <1>2, <1>3, <1>4 DEF Opens

(* Every step is a move of one adapter. *)
LEMMA NextMoves ==
  ASSUME RemoteOK, CallsOK, Next
  PROVE  \E a \in Adapter : Only(a) /\ Moves(a)
<1>1. PICK a \in Adapter : Open(a) \/ Restart(a) \/ Calls(a) \/ Requests(a)
  BY DEF Next
<1>2. ASSUME Read(a) PROVE Only(a) /\ Ends(a)
  <2>1. /\ IF IsFile(cur[a]) THEN Return(a, "ok", remote[cur[a]].content)
           ELSE Return(a, IF IsGone(cur[a]) THEN "notfound" ELSE "error", NoContent)
        /\ Found(a, "read") /\ UNCHANGED <<remote, cache, op, calls, history>>
    BY <1>2 DEF Read
  <2>2. Still /\ Busy(a) /\ NoContent \in Content
    BY <2>1 DEF Still, history, Busy, Found, Content
  <2>3. IsFile(cur[a]) => remote[cur[a]].content \in Content
    <3>1. Free.state # "live" /\ Gone.state # "live"
      BY DEF Free, Gone
    <3> QED
      BY <3>1 DEF RemoteOK, IsFile, Live
  <2>4. CASE IsFile(cur[a])
    <3>1. Why(a, "ok", remote[cur[a]].content)
      BY <2>1, <2>4 DEF Why
    <3> QED
      BY <2>1, <2>2, <2>3, <2>4, <3>1, ReturnMoves
  <2>5. CASE ~IsFile(cur[a])
    <3>1. PICK result \in {"notfound", "error"} : Return(a, result, NoContent)
      BY <2>1, <2>5
    <3>2. Why(a, result, NoContent)
      BY <2>1, <2>5 DEF Why
    <3> QED
      BY <2>1, <2>2, <3>1, <3>2, ReturnMoves
  <2> QED
    BY <2>4, <2>5
<1>3. ASSUME Exists(a) \/ Stat(a) \/ List(a) \/ MkdirDone(a) PROVE Only(a) /\ Ends(a)
  <2>1. PICK result \in {"ok", "notfound"} :
          Return(a, result, NoContent) /\ Why(a, result, NoContent)
    BY <1>3 DEF Exists, Stat, List, MkdirDone, Why
  <2>2. UNCHANGED <<remote, cache, op, calls, history>> /\ Busy(a)
    BY <1>3 DEF Exists, Stat, List, MkdirDone, Busy, Found, FoldersDone
  <2>3. Still /\ NoContent \in Content
    BY <2>2 DEF Still, history, Content
  <2> QED
    BY <2>1, <2>2, <2>3, ReturnMoves
<1>4. ASSUME RequestFails(a) PROVE Only(a) /\ Ends(a)
  <2>1. /\ calls[a] < MaxCalls[a] /\ calls' = [calls EXCEPT ![a] = @ + 1]
        /\ Return(a, "failed", NoContent)
        /\ IF op[a].kind = "open" THEN Forget(a) ELSE UNCHANGED cache
        /\ UNCHANGED <<remote, op, history>>
    BY <1>4 DEF RequestFails
  <2>2. Still /\ Busy(a) /\ NoContent \in Content /\ Why(a, "failed", NoContent)
    BY <1>4, <2>1 DEF Still, history, RequestFails, Content, Busy, Why
  <2> QED
    BY <2>1, <2>2, ReturnMoves
<1> QED
  BY <1>1, <1>2, <1>3, <1>4, OpenMoves, RestartMoves, CallMoves, FindPartMoves, FindFolderMoves,
     MakeFolderMoves, CreateFileMoves, UpdateFileMoves, DeleteMoves, OpenedMoves
     DEF Requests, Moves

-----------------------------------------------------------------------------
(* What the steps do to Drive.                                             *)

LEMMA Same ==
  ASSUME RemoteOK, remote' = remote
  PROVE  RemoteOK' /\ Live' = Live /\ Given' = Given
<1>1. Live' = Live
  BY DEF Live
<1>2. Given' = Given
  BY DEF Given
<1>3. Older'
  BY <1>1 DEF RemoteOK, Older
<1> QED
  BY <1>1, <1>2, <1>3 DEF RemoteOK

LEMMA States ==
  /\ Free.state # "live" /\ Gone.state # "live" /\ Free # Gone
  /\ \A nm, p, k, c : /\ Node(nm, p, k, c) # Free
                      /\ Node(nm, p, k, c).state = "live" /\ Node(nm, p, k, c).name = nm
                      /\ Node(nm, p, k, c).parent = p /\ Node(nm, p, k, c).kind = k
                      /\ Node(nm, p, k, c).content = c
<1>1. Free.state = "free" /\ Gone.state = "gone"
  BY DEF Free, Gone
<1>2. \A nm, p, k, c : Node(nm, p, k, c).state = "live"
  BY DEF Node
<1>3. \A nm, p, k, c : /\ Node(nm, p, k, c).name = nm
                       /\ Node(nm, p, k, c).parent = p /\ Node(nm, p, k, c).kind = k
                       /\ Node(nm, p, k, c).content = c
  BY DEF Node
<1> QED
  BY <1>1, <1>2, <1>3

LEMMA Made ==
  ASSUME RemoteOK, NEW nm \in Name, NEW p \in Live \cup {Top}, NEW k \in {"folder", "file"},
         NEW c \in Content, NextId \in Id, remote' = [remote EXCEPT ![NextId] = Node(nm, p, k, c)]
  PROVE  /\ RemoteOK'
         /\ Live' = Live \cup {NextId} /\ NextId \notin Live
         /\ Given' = Given \cup {NextId}
         /\ remote'[NextId] = Node(nm, p, k, c)
         /\ \A i \in Live : remote'[i] = remote[i]
<1>0. /\ Live \subseteq Given /\ Given \subseteq Id /\ Top \notin Given
      /\ NextId \notin Given /\ NextId \in Nat \ {0} /\ IsFiniteSet(Given)
      /\ \A i \in Given : i < NextId
  BY RemoteFacts
<1>1. DOMAIN remote = Id
  BY DEF RemoteOK
<1>2. /\ remote'[NextId] = Node(nm, p, k, c)
      /\ \A i \in Id : i # NextId => remote'[i] = remote[i]
  BY <1>1
<1>3. Live' = Live \cup {NextId} /\ NextId \notin Live
  BY <1>0, <1>2, States DEF Live
<1>4. Given' = Given \cup {NextId}
  BY <1>0, <1>2, States DEF Given
<1>5. \A i \in Live : remote'[i] = remote[i]
  BY <1>0, <1>2
<1>6. remote' \in [Id -> {Free, Gone} \cup
                         [state : {"live"}, name : Name, parent : Id \cup {Top},
                          kind : {"folder", "file"}, content : Content]]
  <2>1. Node(nm, p, k, c) \in [state : {"live"}, name : Name, parent : Id \cup {Top},
                               kind : {"folder", "file"}, content : Content]
    BY <1>0 DEF Node
  <2> QED
    BY <2>1 DEF RemoteOK
<1>7. Given' = 1..Cardinality(Given')
  <2>1. Given = 1..Cardinality(Given) /\ NextId = Cardinality(Given) + 1 /\ Cardinality(Given) \in Nat
    BY <1>0, FS_CardinalityType DEF RemoteOK, NextId
  <2>2. Cardinality(Given') = Cardinality(Given) + 1
    BY <1>0, <1>4, FS_AddElement
  <2> HIDE DEF Given, NextId
  <2>3. ASSUME NEW x PROVE x \in Given' <=> x \in 1..Cardinality(Given')
    <3>1. x \in Given' <=> x \in 1..Cardinality(Given) \/ x = Cardinality(Given) + 1
      BY <1>4, <2>1
    <3> QED
      BY <2>1, <2>2, <3>1
  <2> QED
    BY <2>3
<1>8. \A i \in Live' : remote'[i].parent \in Live' \cup {Top}
  BY <1>2, <1>3, <1>5, States DEF RemoteOK
<1>9. Older'
  <2>1. \A i \in Live : remote'[i].parent < i
    BY <1>5 DEF RemoteOK, Older
  <2>2. remote'[NextId].parent < NextId
    <3>1. p < NextId
      BY <1>0 DEF Top
    <3> QED
      BY <1>2, <3>1, States
  <2> QED
    BY <1>3, <2>1, <2>2 DEF Older
<1> QED
  BY <1>2, <1>3, <1>4, <1>5, <1>6, <1>7, <1>8, <1>9 DEF RemoteOK

LEMMA Updated ==
  ASSUME RemoteOK, NEW i \in Live, NEW c \in Content, remote' = [remote EXCEPT ![i].content = c]
  PROVE  /\ RemoteOK' /\ Live' = Live /\ Given' = Given
         /\ \A j \in Live : /\ remote'[j].name = remote[j].name
                            /\ remote'[j].parent = remote[j].parent
                            /\ remote'[j].kind = remote[j].kind
         /\ remote'[i].content = c
<1>0. i \in Id /\ remote[i].state = "live"
  BY DEF Live
<1> DEFINE R == [state : {"live"}, name : Name, parent : Id \cup {Top},
                 kind : {"folder", "file"}, content : Content]
<1>1. remote[i] \in R
  BY <1>0, States DEF RemoteOK
<1>2. /\ \A j \in Id : j # i => remote'[j] = remote[j]
      /\ remote'[i] = [remote[i] EXCEPT !.content = c]
      /\ remote' \in [Id -> {Free, Gone} \cup R]
  BY <1>0, <1>1 DEF RemoteOK
<1>3. /\ remote'[i].name = remote[i].name /\ remote'[i].parent = remote[i].parent
      /\ remote'[i].kind = remote[i].kind /\ remote'[i].content = c
      /\ remote'[i].state = "live"
  BY <1>0, <1>1, <1>2
<1>4. Live' = Live
  BY <1>0, <1>2, <1>3 DEF Live
<1>5. remote[i] # Free /\ remote'[i] # Free
  BY <1>0, <1>3, States
<1>6. Given' = Given
  BY <1>0, <1>2, <1>5 DEF Given
<1>7. \A j \in Live : j \in Id
  BY DEF Live
<1>8. Older' /\ \A j \in Live' : remote'[j].parent \in Live' \cup {Top}
  BY <1>2, <1>3, <1>4, <1>7 DEF RemoteOK, Older
<1> QED
  BY <1>2, <1>3, <1>4, <1>6, <1>7, <1>8 DEF RemoteOK

LEMMA Cut ==
  ASSUME RemoteOK, NEW i \in Live \cup {Top},
         remote' = [j \in Id |-> IF j \in Subtree(i) THEN Gone ELSE remote[j]]
  PROVE  /\ RemoteOK' /\ Live' = Live \ Subtree(i) /\ Given' = Given
         /\ \A j \in Live' : remote'[j] = remote[j]
<1>0. /\ i \in Subtree(i) /\ Subtree(i) \subseteq Live \cup {Top}
      /\ \A j \in Live : remote[j].parent \in Subtree(i) => j \in Subtree(i)
  BY SubtreeIs DEF Live
<1>1. Live \subseteq Id /\ Top \notin Live
  BY RemoteFacts
<1> HIDE DEF Subtree
<1>2. \A j \in Id : remote'[j] = IF j \in Subtree(i) THEN Gone ELSE remote[j]
  OBVIOUS
<1>3. Live' = Live \ Subtree(i)
  BY <1>2, States DEF Live
<1>4. Given' = Given
  <2>1. \A j \in Subtree(i) \cap Id : remote[j] # Free /\ Gone # Free
    BY <1>0, <1>1, States DEF Live, Id, Top
  <2> QED
    BY <1>2, <2>1 DEF Given
<1>5. \A j \in Live' : remote'[j] = remote[j]
  BY <1>1, <1>2, <1>3
<1>6. \A j \in Live' : remote'[j].parent \in Live' \cup {Top}
  <2>1. \A j \in Live' : remote[j].parent \in Live \cup {Top} /\ remote[j].parent \notin Subtree(i)
    BY <1>0, <1>3 DEF RemoteOK
  <2> QED
    BY <1>3, <1>5, <2>1
<1>7. Older'
  BY <1>3, <1>5 DEF RemoteOK, Older
<1>8. remote' \in [Id -> {Free, Gone} \cup
                         [state : {"live"}, name : Name, parent : Id \cup {Top},
                          kind : {"folder", "file"}, content : Content]]
  BY <1>2 DEF RemoteOK
<1> QED
  BY <1>3, <1>4, <1>5, <1>6, <1>7, <1>8 DEF RemoteOK

-----------------------------------------------------------------------------
(* Every step keeps the types.                                             *)

OneOK(a) ==
  /\ cache[a] \in [Key -> Given \cup {Top, NoId}]
  /\ op[a] \in [kind : Kinds \cup {"open"}, path : Path \cup {<<>>}, content : Content]
  /\ pc[a] \in {"closed", "idle", "lookup", "folders", "mkfolder"}
  /\ n[a] \in Nat /\ cur[a] \in Given \cup {Top} /\ dir[a] \in Key
  /\ answer[a] \in [result : {"none", "ok", "notfound", "error", "failed"}, got : Content]
  /\ Fits(a)

LEMMA OnlyOne ==
  ASSUME CallsOK, NEW a \in Adapter, Only(a), Given \subseteq Given', OneOK(a)',
         changers' \subseteq Adapter, overlapped' \in BOOLEAN, orderly' \in BOOLEAN,
         quiet' \in [Adapter -> BOOLEAN]
  PROVE  CallsOK'
<1> USE DEF CallsOK, Only, OneOK
<1>1. cache' \in [Adapter -> [Key -> Given' \cup {Top, NoId}]]
  <2>1. cache \in [Adapter -> [Key -> Given' \cup {Top, NoId}]]
    OBVIOUS
  <2> HIDE DEF OneOK
  <2>2. cache'[a] \in [Key -> Given' \cup {Top, NoId}]
    BY DEF OneOK
  <2> QED
    BY <2>1, <2>2
<1>2. op' \in [Adapter -> [kind : Kinds \cup {"open"}, path : Path \cup {<<>>}, content : Content]]
  OBVIOUS
<1>3. pc' \in [Adapter -> {"closed", "idle", "lookup", "folders", "mkfolder"}]
  OBVIOUS
<1>4. n' \in [Adapter -> Nat] /\ cur' \in [Adapter -> Given' \cup {Top}] /\ dir' \in [Adapter -> Key]
  OBVIOUS
<1>5. answer' \in [Adapter -> [result : {"none", "ok", "notfound", "error", "failed"}, got : Content]]
  OBVIOUS
<1>6. calls' \in [Adapter -> Nat] /\ \A b \in Adapter : calls'[b] <= MaxCalls[b]
  <2> DEFINE m == calls'[a]
  <2>1. calls \in [Adapter -> Nat] /\ \A b \in Adapter : calls[b] <= MaxCalls[b]
    BY DEF CallsOK
  <2>2. calls' = [calls EXCEPT ![a] = m] /\ m \in Nat /\ m <= MaxCalls[a]
    BY DEF Only
  <2> HIDE DEF m, CallsOK, Only, OneOK
  <2> QED
    BY <2>1, <2>2
<1>7. ASSUME NEW b \in Adapter PROVE Fits(b)'
  <2>1. CASE b = a
    BY <2>1
  <2>2. CASE b # a
    <3>1. op'[b] = op[b] /\ pc'[b] = pc[b] /\ n'[b] = n[b] /\ dir'[b] = dir[b]
      BY <2>2
    <3>2. Full(b)' = Full(b) /\ Target(b)' = Target(b)
      BY <3>1 DEF Full, Target, DirOf
    <3>3. Fits(b)
      OBVIOUS
    <3> HIDE DEF CallsOK, Only, OneOK
    <3> QED
      BY <3>1, <3>2, <3>3 DEF Fits
  <2> QED
    BY <2>1, <2>2
<1> QED
  BY <1>1, <1>2, <1>3, <1>4, <1>5, <1>6, <1>7

LEMMA Others ==
  ASSUME CallsOK, NEW a \in Adapter, Only(a), NEW b \in Adapter, b # a
  PROVE  /\ cache'[b] = cache[b] /\ op'[b] = op[b] /\ pc'[b] = pc[b] /\ dir'[b] = dir[b]
         /\ n'[b] = n[b] /\ cur'[b] = cur[b] /\ answer'[b] = answer[b]
         /\ Full(b)' = Full(b) /\ DirOf(b)' = DirOf(b) /\ Target(b)' = Target(b)
<1>1. /\ cache'[b] = cache[b] /\ op'[b] = op[b] /\ pc'[b] = pc[b] /\ dir'[b] = dir[b]
      /\ n'[b] = n[b] /\ cur'[b] = cur[b] /\ answer'[b] = answer[b]
  BY DEF Only, CallsOK
<1> QED
  BY <1>1 DEF Full, DirOf, Target

LEMMA SamePaths ==
  ASSUME NEW a, op'[a] = op[a]
  PROVE  Full(a)' = Full(a) /\ DirOf(a)' = DirOf(a) /\ Target(a)' = Target(a)
BY DEF Full, DirOf, Target

(* the parts of a path that the loops meet *)
LEMMA PathParts ==
  ASSUME NEW s \in Key, NEW k \in Nat, k < Len(s)
  PROVE  /\ k + 1 \in 0..Len(s) /\ Len(s) \in Nat /\ s[k + 1] \in Name
         /\ SubSeq(s, 1, k + 1) \in Key /\ SubSeq(s, 1, k) \in Key
         /\ SubSeq(s, 1, k + 1) = Append(SubSeq(s, 1, k), s[k + 1])
<1>1. s \in Seq(Name)
  BY Keys
<1>2. Len(s) \in Nat /\ k \in 0..Len(s) /\ k + 1 \in 0..Len(s)
  BY <1>1, LenProperties
<1> QED
  BY <1>1, <1>2, Keys, SubNext

LEMMA EntersOK ==
  ASSUME CallsOK, NEW a \in Adapter, NEW full \in Key, Enters(a, full)
  PROVE  n'[a] \in Nat /\ cur'[a] \in Given \cup {Top} /\ n'[a] <= Len(full)
<1>1. full \in Seq(Name) /\ Len(full) \in Nat
  BY Keys, LenProperties
<1>2. cache[a][full] \in Given \cup {Top, NoId}
  BY DEF CallsOK
<1> QED
  BY <1>1, <1>2 DEF Enters

LEMMA StartsOK ==
  ASSUME RemoteOK, CallsOK, NEW a \in Adapter, Only(a), Starts(a)
  PROVE  RemoteOK' /\ CallsOK'
<1>1. RemoteOK' /\ Given' = Given
  BY Same DEF Starts
<1>2. Full(a)' \in Key
  <2>1. op'[a].path \in Path \cup {<<>>}
    BY DEF Starts
  <2> QED
    BY <2>1, Keys DEF Full
<1>3. n'[a] \in Nat /\ cur'[a] \in Given \cup {Top} /\ n'[a] <= Len(Full(a)')
  <2>1. Enters(a, Full(a)')
    BY DEF Starts
  <2> HIDE DEF Full
  <2> QED
    BY <1>2, <2>1, EntersOK
<1>4. Target(a)' = Full(a)' \/ op'[a].kind = "write"
  BY DEF Target
<1>5. Fits(a)'
  <2> HIDE DEF Target, Full
  <2> QED
    BY <1>3, <1>4 DEF Fits, Starts
<1>6. OneOK(a)'
  <2>1. cache'[a] \in [Key -> Given' \cup {Top, NoId}] /\ dir'[a] \in Key
    BY <1>1, <1>2 DEF CallsOK, Starts
  <2>2. /\ answer'[a] \in [result : {"none", "ok", "notfound", "error", "failed"}, got : Content]
        /\ op'[a] \in [kind : Kinds \cup {"open"}, path : Path \cup {<<>>}, content : Content]
        /\ pc'[a] \in {"closed", "idle", "lookup", "folders", "mkfolder"}
    BY DEF Starts, Content
  <2> QED
    BY <1>1, <1>3, <1>5, <2>1, <2>2 DEF OneOK
<1>7. /\ changers' \subseteq Adapter /\ overlapped' \in BOOLEAN /\ orderly' \in BOOLEAN
      /\ quiet' \in [Adapter -> BOOLEAN]
  BY DEF CallsOK, Starts
<1> QED
  BY <1>1, <1>6, <1>7, OnlyOne

(* a's call is over *)
LEMMA OverOK ==
  ASSUME CallsOK, NEW a \in Adapter, Over(a), pc'[a] \in {"idle", "closed"}
  PROVE  /\ Fits(a)' /\ n'[a] \in Nat /\ cur'[a] \in Given' \cup {Top} /\ dir'[a] \in Key
         /\ op'[a] \in [kind : Kinds \cup {"open"}, path : Path \cup {<<>>}, content : Content]
         /\ pc'[a] \in {"closed", "idle", "lookup", "folders", "mkfolder"}
BY Keys DEF CallsOK, Over, Fits

LEMMA EndsOK ==
  ASSUME RemoteOK, CallsOK, NEW a \in Adapter, Only(a), Ends(a)
  PROVE  RemoteOK' /\ CallsOK'
<1>1. RemoteOK' /\ Given' = Given
  BY Same DEF Ends, Still
<1>2. pc'[a] \in {"idle", "closed"}
  BY DEF Ends
<1>3. /\ Fits(a)' /\ n'[a] \in Nat /\ cur'[a] \in Given' \cup {Top} /\ dir'[a] \in Key
      /\ op'[a] \in [kind : Kinds \cup {"open"}, path : Path \cup {<<>>}, content : Content]
      /\ pc'[a] \in {"closed", "idle", "lookup", "folders", "mkfolder"}
  <2>1. CASE Over(a)
    BY <1>2, <2>1, OverOK
  <2>2. CASE op'[a] = op[a] /\ n'[a] = n[a] /\ cur'[a] = cur[a] /\ dir'[a] = dir[a]
    BY <1>1, <1>2, <2>2 DEF CallsOK, Fits
  <2> QED
    BY <2>1, <2>2 DEF Ends
<1>4. cache'[a] \in [Key -> Given' \cup {Top, NoId}]
  <2>1. cache[a] \in [Key -> Given \cup {Top, NoId}]
    BY DEF CallsOK
  <2> QED
    BY <1>1, <2>1 DEF Ends
<1>5. OneOK(a)'
  BY <1>3, <1>4 DEF OneOK, Ends
<1>6. /\ changers' \subseteq Adapter /\ overlapped' \in BOOLEAN /\ orderly' \in BOOLEAN
      /\ quiet' \in [Adapter -> BOOLEAN]
  BY DEF CallsOK, Ends, Still
<1> QED
  BY <1>1, <1>5, <1>6, OnlyOne

LEMMA FindsOK ==
  ASSUME RemoteOK, CallsOK, NEW a \in Adapter, Only(a), Finds(a)
  PROVE  RemoteOK' /\ CallsOK'
<1>1. RemoteOK' /\ Given' = Given
  BY Same DEF Finds, Still
<1>2. Full(a) \in Key /\ n[a] \in Nat
  BY CallPaths DEF CallsOK
<1>3. n[a] < Len(Full(a))
  BY DEF Finds
<1>4. Len(Full(a)) \in Nat /\ SubSeq(Full(a), 1, n[a] + 1) \in Key
  BY <1>2, <1>3, PathParts
<1>5. cur'[a] \in Given
  BY RemoteFacts DEF Finds, Children
<1>6. Full(a)' = Full(a)
  BY SamePaths DEF Finds, SameCall
<1>7. Fits(a)'
  <2>1. /\ op'[a] = op[a] /\ pc'[a] = "lookup" /\ pc[a] = "lookup" /\ n'[a] = n[a] + 1 /\ Fits(a)
    BY DEF CallsOK, Finds, SameCall
  <2>2. n'[a] <= Len(Full(a))
    BY <1>2, <1>3, <1>4, <2>1
  <2> HIDE DEF Full
  <2> QED
    BY <1>6, <2>1, <2>2 DEF Fits
<1>8. OneOK(a)'
  BY <1>1, <1>2, <1>4, <1>5, <1>7 DEF OneOK, CallsOK, Finds, SameCall
<1>9. /\ changers' \subseteq Adapter /\ overlapped' \in BOOLEAN /\ orderly' \in BOOLEAN
      /\ quiet' \in [Adapter -> BOOLEAN]
  BY DEF CallsOK, Finds, Still
<1> QED
  BY <1>1, <1>8, <1>9, OnlyOne

LEMMA TurnsToFoldersOK ==
  ASSUME RemoteOK, CallsOK, NEW a \in Adapter, Only(a), TurnsToFolders(a)
  PROVE  RemoteOK' /\ CallsOK'
<1>1. RemoteOK' /\ Given' = Given
  BY Same DEF TurnsToFolders, Still
<1>2. DirOf(a) \in Key
  BY CallPaths
<1>3. n'[a] \in Nat /\ cur'[a] \in Given \cup {Top} /\ n'[a] <= Len(DirOf(a))
  BY <1>2, EntersOK DEF TurnsToFolders
<1>4. Target(a)' = DirOf(a)
  BY SamePaths DEF TurnsToFolders, SameCall, Target
<1>5. Fits(a)'
  <2>1. /\ op'[a] = op[a] /\ op[a].kind = "write" /\ pc'[a] = "folders" /\ dir'[a] = DirOf(a)
        /\ Fits(a)
    BY DEF CallsOK, TurnsToFolders, SameCall
  <2> HIDE DEF Target
  <2> QED
    BY <1>3, <1>4, <2>1 DEF Fits
<1>6. OneOK(a)'
  BY <1>1, <1>2, <1>3, <1>5 DEF OneOK, CallsOK, TurnsToFolders, SameCall
<1>7. /\ changers' \subseteq Adapter /\ overlapped' \in BOOLEAN /\ orderly' \in BOOLEAN
      /\ quiet' \in [Adapter -> BOOLEAN]
  BY DEF CallsOK, TurnsToFolders, Still
<1> QED
  BY <1>1, <1>6, <1>7, OnlyOne

LEMMA FoldersOK ==
  ASSUME RemoteOK, CallsOK, NEW a \in Adapter, Only(a), FindsFolder(a) \/ FindsNoFolder(a)
  PROVE  RemoteOK' /\ CallsOK'
<1>0. Still /\ SameCall(a) /\ dir'[a] = dir[a] /\ pc[a] = "folders" /\ Passed(a) # Len(dir[a])
  BY DEF FindsFolder, FindsNoFolder
<1>1. RemoteOK' /\ Given' = Given
  BY <1>0, Same DEF Still
<1>2. /\ Passed(a) \in n[a]..Len(dir[a]) /\ Len(dir[a]) \in Nat
      /\ SubSeq(dir[a], 1, Passed(a) + 1) \in Key /\ InFolder(a) \in Given \cup {Top}
  BY <1>0, PassedIs
<1>3. n[a] \in Nat /\ dir[a] \in Key /\ cache[a] \in [Key -> Given \cup {Top, NoId}] /\ Fits(a)
  BY DEF CallsOK
<1> HIDE DEF Passed, InFolder
<1>4. /\ n'[a] \in Nat /\ n'[a] <= Len(dir[a]) /\ cur'[a] \in Given \cup {Top}
      /\ pc'[a] \in {"folders", "mkfolder"} /\ (pc'[a] = "mkfolder" => n'[a] < Len(dir[a]))
      /\ cache'[a] \in [Key -> Given \cup {Top, NoId}]
  <2>1. CASE FindsFolder(a)
    <3>1. cur'[a] \in Given
      BY <2>1, RemoteFacts DEF FindsFolder, Children
    <3> QED
      BY <1>0, <1>2, <1>3, <2>1, <3>1 DEF FindsFolder
  <2>2. CASE FindsNoFolder(a)
    BY <1>0, <1>2, <1>3, <2>2 DEF FindsNoFolder
  <2> QED
    BY <2>1, <2>2
<1>5. Target(a)' = Target(a)
  BY <1>0, SamePaths DEF SameCall
<1>6. Fits(a)'
  <2>1. op'[a] = op[a] /\ dir'[a] = dir[a]
    BY <1>0 DEF SameCall
  <2> HIDE DEF Target
  <2> QED
    BY <1>0, <1>3, <1>4, <1>5, <2>1 DEF Fits
<1>7. OneOK(a)'
  BY <1>0, <1>1, <1>4, <1>6 DEF OneOK, CallsOK, SameCall
<1>8. /\ changers' \subseteq Adapter /\ overlapped' \in BOOLEAN /\ orderly' \in BOOLEAN
      /\ quiet' \in [Adapter -> BOOLEAN]
  BY <1>0 DEF CallsOK, Still
<1> QED
  BY <1>1, <1>7, <1>8, OnlyOne

(* what a makes *)
LEMMA NewFolder ==
  ASSUME RemoteOK, CallsOK, NEW a \in Adapter, MakesFolder(a)
  PROVE  /\ dir[a][n[a] + 1] \in Name /\ cur[a] \in Live \cup {Top}
         /\ SubSeq(dir[a], 1, n[a] + 1) \in Key /\ SubSeq(dir[a], 1, n[a]) \in Key
         /\ SubSeq(dir[a], 1, n[a] + 1) = Append(SubSeq(dir[a], 1, n[a]), dir[a][n[a] + 1])
         /\ n[a] + 1 \in 0..Len(dir[a])
         /\ RemoteOK'
         /\ Live' = Live \cup {NextId} /\ NextId \notin Live /\ Given' = Given \cup {NextId}
         /\ remote'[NextId] = Node(dir[a][n[a] + 1], cur[a], "folder", NoContent)
         /\ \A i \in Live : remote'[i] = remote[i]
<1>1. pc[a] = "mkfolder" /\ dir[a] \in Key /\ n[a] \in Nat /\ n[a] < Len(dir[a])
  BY DEF CallsOK, Fits, MakesFolder
<1>2. /\ n[a] + 1 \in 0..Len(dir[a]) /\ dir[a][n[a] + 1] \in Name
      /\ SubSeq(dir[a], 1, n[a] + 1) \in Key /\ SubSeq(dir[a], 1, n[a]) \in Key
      /\ SubSeq(dir[a], 1, n[a] + 1) = Append(SubSeq(dir[a], 1, n[a]), dir[a][n[a] + 1])
  BY <1>1, PathParts
<1>3. cur[a] \in Live \cup {Top}
  BY DEF MakesFolder, IsFolder
<1>4. /\ NextId \in Id /\ NoContent \in Content
      /\ remote' = [remote EXCEPT ![NextId] = Node(dir[a][n[a] + 1], cur[a], "folder", NoContent)]
  BY DEF MakesFolder, Makes, Content
<1> QED
  BY <1>2, <1>3, <1>4, Made

LEMMA NewFile ==
  ASSUME RemoteOK, CallsOK, NEW a \in Adapter, MakesFile(a)
  PROVE  /\ Full(a)[Len(Full(a))] \in Name /\ InFolder(a) \in Live \cup {Top}
         /\ op[a].content \in Content
         /\ Full(a) = Append(SubSeq(Full(a), 1, Len(Full(a)) - 1), Full(a)[Len(Full(a))])
         /\ RemoteOK'
         /\ Live' = Live \cup {NextId} /\ NextId \notin Live /\ Given' = Given \cup {NextId}
         /\ remote'[NextId] = Node(Full(a)[Len(Full(a))], InFolder(a), "file", op[a].content)
         /\ \A i \in Live : remote'[i] = remote[i]
<1>1. op[a].kind # "open"
  BY DEF MakesFile
<1>2. Full(a) \in Key /\ Full(a) # <<>> /\ Full(a) \in Seq(Name)
  BY <1>1, CallPaths
<1>3. Len(Full(a)) \in Nat /\ Len(Full(a)) > 0
  BY <1>2, EmptySeq, LenProperties
<1>4. Len(Full(a)) - 1 \in Nat /\ Len(Full(a)) - 1 < Len(Full(a)) /\ (Len(Full(a)) - 1) + 1 = Len(Full(a))
  BY <1>3
<1>5. /\ Full(a)[Len(Full(a))] \in Name
      /\ SubSeq(Full(a), 1, Len(Full(a))) = Append(SubSeq(Full(a), 1, Len(Full(a)) - 1), Full(a)[Len(Full(a))])
  <2> DEFINE l == Len(Full(a)) - 1
  <2>1. Full(a)[l + 1] \in Name /\ SubSeq(Full(a), 1, l + 1) = Append(SubSeq(Full(a), 1, l), Full(a)[l + 1])
    <3> HIDE DEF l
    <3>1. l \in Nat /\ l < Len(Full(a))
      BY <1>4 DEF l
    <3> QED
      BY <1>2, <3>1, PathParts
  <2>2. l + 1 = Len(Full(a))
    BY <1>4
  <2> HIDE DEF l
  <2>3. Full(a)[Len(Full(a))] \in Name /\ SubSeq(Full(a), 1, Len(Full(a))) = Append(SubSeq(Full(a), 1, l), Full(a)[Len(Full(a))])
    BY <2>1, <2>2
  <2> QED
    BY <2>3 DEF l
<1>6. SubSeq(Full(a), 1, Len(Full(a))) = Full(a)
  BY <1>2, SubEnds
<1>7. InFolder(a) \in Live \cup {Top} /\ op[a].content \in Content
  BY DEF MakesFile, IsFolder, CallsOK
<1>8. /\ NextId \in Id
      /\ remote' = [remote EXCEPT ![NextId] = Node(Full(a)[Len(Full(a))], InFolder(a), "file", op[a].content)]
  BY DEF MakesFile, Makes
<1> QED
  BY <1>5, <1>6, <1>7, <1>8, Made

LEMMA MakesFolderOK ==
  ASSUME RemoteOK, CallsOK, NEW a \in Adapter, Only(a), MakesFolder(a)
  PROVE  RemoteOK' /\ CallsOK'
<1>1. /\ RemoteOK' /\ Given' = Given \cup {NextId} /\ SubSeq(dir[a], 1, n[a] + 1) \in Key
      /\ n[a] + 1 \in 0..Len(dir[a])
  BY NewFolder
<1>2. Target(a)' = Target(a)
  BY SamePaths DEF MakesFolder, SameCall
<1>3. n[a] + 1 \in Nat /\ n[a] + 1 <= Len(dir[a])
  <2>1. Len(dir[a]) \in Nat
    BY Keys, LenProperties DEF CallsOK
  <2> QED
    BY <1>1, <2>1 DEF CallsOK
<1>4. Fits(a)'
  <2>1. /\ op'[a] = op[a] /\ pc[a] = "mkfolder" /\ pc'[a] = "folders" /\ n'[a] = n[a] + 1
        /\ dir'[a] = dir[a] /\ Fits(a)
    BY DEF MakesFolder, SameCall, CallsOK
  <2> HIDE DEF Target
  <2> QED
    BY <1>2, <1>3, <2>1 DEF Fits
<1>5. cache'[a] \in [Key -> Given' \cup {Top, NoId}]
  <2>1. cache[a] \in [Key -> Given \cup {Top, NoId}] /\ cache'[a] = [cache[a] EXCEPT ![SubSeq(dir[a], 1, n[a] + 1)] = NextId]
    BY DEF CallsOK, MakesFolder
  <2> HIDE DEF Given, NextId
  <2> QED
    BY <1>1, <2>1
<1>6. OneOK(a)'
  <2> HIDE DEF NextId, Given
  <2>1. /\ op'[a] = op[a] /\ answer'[a] = answer[a] /\ pc'[a] = "folders" /\ n'[a] = n[a] + 1
        /\ dir'[a] = dir[a] /\ cur'[a] = NextId
    BY DEF MakesFolder, SameCall
  <2> QED
    BY <1>1, <1>3, <1>4, <1>5, <2>1 DEF OneOK, CallsOK
<1>7. /\ changers' \subseteq Adapter /\ overlapped' \in BOOLEAN /\ orderly' \in BOOLEAN
      /\ quiet' \in [Adapter -> BOOLEAN]
  BY DEF CallsOK, MakesFolder, Makes
<1> QED
  BY <1>1, <1>6, <1>7, OnlyOne

LEMMA LastOK ==
  ASSUME RemoteOK, CallsOK, NEW a \in Adapter, Only(a), MakesFile(a) \/ Updates(a) \/ Deletes(a)
  PROVE  RemoteOK' /\ CallsOK'
<1>0. /\ Over(a) /\ pc'[a] = "idle"
      /\ answer'[a] = [result |-> "ok", got |-> NoContent]
  BY DEF MakesFile, Updates, Deletes
<1>1. RemoteOK' /\ Given \subseteq Given'
  <2>1. CASE MakesFile(a)
    BY <2>1, NewFile
  <2>2. CASE Updates(a)
    <3>1. cur[a] \in Live /\ op[a].content \in Content
      BY <2>2 DEF Updates, IsFile, CallsOK
    <3> QED
      BY <2>2, <3>1, Updated DEF Updates
  <2>3. CASE Deletes(a)
    <3>1. cur[a] \in Live \cup {Top}
      BY <2>3 DEF Deletes, IsGone
    <3> QED
      BY <2>3, <3>1, Cut DEF Deletes
  <2> QED
    BY <2>1, <2>2, <2>3
<1>2. /\ Fits(a)' /\ n'[a] \in Nat /\ cur'[a] \in Given' \cup {Top} /\ dir'[a] \in Key
      /\ op'[a] \in [kind : Kinds \cup {"open"}, path : Path \cup {<<>>}, content : Content]
      /\ pc'[a] \in {"closed", "idle", "lookup", "folders", "mkfolder"}
  BY <1>0, OverOK
<1>3. cache'[a] \in [Key -> Given' \cup {Top, NoId}]
  <2>1. cache[a] \in [Key -> Given \cup {Top, NoId}]
    BY DEF CallsOK
  <2>2. Full(a) \in Key
    BY CallPaths
  <2>3. cache'[a] = cache[a] \/ cache'[a] = [cache[a] EXCEPT ![Full(a)] = NoId]
    BY DEF MakesFile, Updates, Deletes
  <2> HIDE DEF Given
  <2> QED
    BY <1>1, <2>1, <2>2, <2>3
<1>4. OneOK(a)'
  BY <1>0, <1>2, <1>3 DEF OneOK, Content
<1>5. /\ changers' \subseteq Adapter /\ overlapped' \in BOOLEAN /\ orderly' \in BOOLEAN
      /\ quiet' \in [Adapter -> BOOLEAN]
  BY DEF CallsOK, MakesFile, Makes, Updates, Deletes
<1> QED
  BY <1>1, <1>4, <1>5, OnlyOne

LEMMA OpensOK ==
  ASSUME RemoteOK, CallsOK, NEW a \in Adapter, Only(a), Opens(a)
  PROVE  RemoteOK' /\ CallsOK'
<1>1. RemoteOK' /\ Given' = Given
  BY Same DEF Opens, Still
<1>2. InFolder(a) \in Given \cup {Top}
  BY PassedIs DEF Opens
<1>3. /\ Fits(a)' /\ n'[a] \in Nat /\ cur'[a] \in Given' \cup {Top} /\ dir'[a] \in Key
      /\ op'[a] \in [kind : Kinds \cup {"open"}, path : Path \cup {<<>>}, content : Content]
      /\ pc'[a] \in {"closed", "idle", "lookup", "folders", "mkfolder"}
  BY OverOK DEF Opens
<1>4. Root[a] \in Key
  BY CallPaths DEF Opens
<1>5. cache'[a] \in [Key -> Given' \cup {Top, NoId}]
  <2>1. cache[a] \in [Key -> Given \cup {Top, NoId}] /\ cache'[a] = [cache[a] EXCEPT ![Root[a]] = InFolder(a)]
    BY DEF CallsOK, Opens
  <2> HIDE DEF Given, InFolder
  <2> QED
    BY <1>1, <1>2, <1>4, <2>1
<1>6. OneOK(a)'
  BY <1>3, <1>5 DEF OneOK, Opens, Content
<1>7. /\ changers' \subseteq Adapter /\ overlapped' \in BOOLEAN /\ orderly' \in BOOLEAN
      /\ quiet' \in [Adapter -> BOOLEAN]
  BY DEF CallsOK, Opens, Still
<1> QED
  BY <1>1, <1>6, <1>7, OnlyOne

LEMMA TypedInit == Init => Typed
<1> SUFFICES ASSUME Init PROVE RemoteOK /\ CallsOK
  BY DEF Typed
<1>0. Live = {} /\ Given = {}
  BY States DEF Init, Live, Given
<1>1. Cardinality({}) = 0 /\ 1..0 = {}
  BY FS_EmptySet
<1>2. RemoteOK
  BY <1>0, <1>1 DEF RemoteOK, Older, Init
<1>3. \A a \in Adapter : Fits(a)
  BY DEF Fits, Init
<1>4. CallsOK
  <2>1. /\ answer \in [Adapter -> [result : {"none", "ok", "notfound", "error", "failed"}, got : Content]]
        /\ op \in [Adapter -> [kind : Kinds \cup {"open"}, path : Path \cup {<<>>}, content : Content]]
    BY DEF Init, Content
  <2>2. /\ cache \in [Adapter -> [Key -> Given \cup {Top, NoId}]]
        /\ pc \in [Adapter -> {"closed", "idle", "lookup", "folders", "mkfolder"}]
        /\ n \in [Adapter -> Nat] /\ cur \in [Adapter -> Given \cup {Top}]
        /\ dir \in [Adapter -> Key]
    BY Keys DEF Init
  <2>3. calls \in [Adapter -> Nat] /\ \A a \in Adapter : calls[a] <= MaxCalls[a]
    BY DriveAssumption DEF Init
  <2>4. /\ changers \subseteq Adapter /\ overlapped \in BOOLEAN /\ orderly \in BOOLEAN
        /\ quiet \in [Adapter -> BOOLEAN]
    BY DEF Init
  <2> QED
    BY <1>3, <2>1, <2>2, <2>3, <2>4 DEF CallsOK
<1> QED
  BY <1>2, <1>4

LEMMA TypedMove ==
  ASSUME RemoteOK, CallsOK, NEW a \in Adapter, Only(a), Moves(a)
  PROVE  RemoteOK' /\ CallsOK'
BY StartsOK, EndsOK, FindsOK, TurnsToFoldersOK, FoldersOK, MakesFolderOK, LastOK, OpensOK DEF Moves

LEMMA TypedStutter == Typed /\ UNCHANGED vars => Typed'
<1> SUFFICES ASSUME Typed, UNCHANGED vars PROVE Typed'
  OBVIOUS
<1>1. RemoteOK' /\ Live' = Live /\ Given' = Given
  BY Same DEF Typed, vars
<1>2. \A a \in Adapter : Fits(a)'
  BY DEF vars, Typed, CallsOK, Fits, Full, Target, DirOf
<1> HIDE DEF Given
<1> QED
  BY <1>1, <1>2 DEF vars, Typed, CallsOK

LEMMA TypedNext == Typed /\ [Next]_vars => Typed'
BY NextMoves, TypedMove, TypedStutter DEF Typed

(* Every step, from every state the program can be in, keeps the types.    *)
THEOREM TypeCorrect == Spec => []TypeOK
<1>1. Spec => []Typed
  BY TypedInit, TypedNext, PTL DEF Spec
<1> QED
  BY <1>1, TypedIsTypeOK, PTL

-----------------------------------------------------------------------------
(* The path of an id.                                                      *)

(* what a step may do to Drive *)
LEMMA DriveMoves ==
  ASSUME RemoteOK, CallsOK, NEW a \in Adapter, Moves(a)
  PROVE  /\ Given \subseteq Given'
         /\ \A i \in Live \cap Live' : /\ remote'[i].name = remote[i].name
                                       /\ remote'[i].parent = remote[i].parent
                                       /\ remote'[i].kind = remote[i].kind
         /\ \A i \in Live' \ Live : /\ MakesFolder(a) \/ MakesFile(a)
                                    /\ i = NextId /\ i \notin Given
                                    /\ remote'[i].parent \in Live \cup {Top}
<1>1. CASE MakesFolder(a)
  BY <1>1, NewFolder, RemoteFacts, States
<1>2. CASE MakesFile(a)
  BY <1>2, NewFile, RemoteFacts, States
<1>3. CASE Updates(a)
  <2>1. cur[a] \in Live /\ op[a].content \in Content
    BY <1>3 DEF Updates, IsFile, CallsOK
  <2> QED
    BY <1>3, <2>1, Updated DEF Updates
<1>4. CASE Deletes(a)
  <2>1. cur[a] \in Live \cup {Top}
    BY <1>4 DEF Deletes, IsGone
  <2> QED
    BY <1>4, <2>1, Cut DEF Deletes
<1>5. CASE remote' = remote
  BY <1>5, Same
<1> QED
  BY <1>1, <1>2, <1>3, <1>4, <1>5
     DEF Moves, Starts, Ends, Finds, TurnsToFolders, FindsFolder, FindsNoFolder, Opens, Still

Placed(P) ==
  /\ P \in [Id \cup {Top} -> Seq(Name)] /\ P[Top] = <<>>
  /\ \A i \in Live : P[i] = Append(P[remote[i].parent], remote[i].name)
  /\ \A a \in Adapter, k \in Key : cache[a][k] # NoId => P[cache[a][k]] = k
  /\ \A a \in Adapter : pc[a] = "lookup" => P[cur[a]] = SubSeq(Full(a), 1, n[a])
  /\ \A a \in Adapter :
       pc[a] \in {"folders", "mkfolder"} => P[cur[a]] = SubSeq(dir[a], 1, n[a])

(* Q is P, and knows the path of what the step has made. *)
Grows(P, Q) ==
  /\ Q \in [Id \cup {Top} -> Seq(Name)]
  /\ \A i \in Given \cup {Top} : Q[i] = P[i]
  /\ \A i \in Live' \ Live : Q[i] = Append(P[remote'[i].parent], remote'[i].name)

LEMMA Names ==
  ASSUME RemoteOK, NEW i \in Live
  PROVE  remote[i].name \in Name /\ remote[i].parent \in Live \cup {Top} /\ i \in Id
         /\ remote[i].kind \in {"folder", "file"} /\ remote[i].content \in Content
BY States DEF RemoteOK, Live

LEMMA PathsGrow ==
  ASSUME RemoteOK, RemoteOK', CallsOK, NEW a \in Adapter, Moves(a), NEW P, Placed(P)
  PROVE  \E Q : Grows(P, Q)
<1> DEFINE Q == [i \in Id \cup {Top} |->
                   IF i \in Live' \ Live THEN Append(P[remote'[i].parent], remote'[i].name)
                   ELSE P[i]]
<1>1. \A i \in Live' \ Live : i \notin Given \cup {Top} /\ remote'[i].parent \in Id \cup {Top}
  <2>1. \A i \in Live' \ Live : i \notin Given /\ remote'[i].parent \in Live \cup {Top}
    BY DriveMoves
  <2>2. \A i \in Live' : i \in Id
    BY DEF Live
  <2> QED
    BY <2>1, <2>2, RemoteFacts DEF Top, Id
<1>2. \A i \in Live' : remote'[i].name \in Name
  <2>1. \A i \in Live' : i \in Id /\ remote'[i].state = "live"
    BY DEF Live
  <2> QED
    BY <2>1, States DEF RemoteOK
<1>3. P \in [Id \cup {Top} -> Seq(Name)]
  BY DEF Placed
<1>4. Q \in [Id \cup {Top} -> Seq(Name)]
  BY <1>1, <1>2, <1>3, AppendIs
<1>5. Given \subseteq Id /\ \A i \in Live' : i \in Id
  BY RemoteFacts DEF Live
<1>6. \A i \in Given \cup {Top} : Q[i] = P[i]
  BY <1>1, <1>5
<1>7. \A i \in Live' \ Live : Q[i] = Append(P[remote'[i].parent], remote'[i].name)
  BY <1>5
<1> HIDE DEF Q
<1> QED
  BY <1>4, <1>6, <1>7 DEF Grows

(* what a search below a path may return *)
LEMMA PathFacts ==
  ASSUME RemoteOK, CallsOK, NEW P, Placed(P)
  PROVE  /\ \A i \in Live : P[i] # <<>> /\ P[i] \in Seq(Name)
         /\ \A i \in Live : \A p, nm : i \in Children(p, nm) => P[i] = Append(P[p], nm)
         /\ \A a \in Adapter : pc[a] = "folders" => P[InFolder(a)] = SubSeq(dir[a], 1, Passed(a))
<1>1. ASSUME NEW i \in Live PROVE P[i] # <<>> /\ P[i] \in Seq(Name)
  <2>1. P[remote[i].parent] \in Seq(Name) /\ remote[i].name \in Name
    BY Names DEF Placed, Live
  <2>2. P[i] = Append(P[remote[i].parent], remote[i].name)
    BY DEF Placed
  <2> QED
    BY <2>1, <2>2, AppendIs
<1>2. \A i \in Live : \A p, nm : i \in Children(p, nm) => P[i] = Append(P[p], nm)
  BY DEF Placed, Children
<1>3. ASSUME NEW a \in Adapter, pc[a] = "folders"
      PROVE  P[InFolder(a)] = SubSeq(dir[a], 1, Passed(a))
  <2>1. /\ Passed(a) = n[a] => InFolder(a) = cur[a]
        /\ Passed(a) # n[a] => /\ InFolder(a) = cache[a][SubSeq(dir[a], 1, Passed(a))]
                               /\ cache[a][SubSeq(dir[a], 1, Passed(a))] # NoId
        /\ SubSeq(dir[a], 1, Passed(a)) \in Key
    BY <1>3, PassedIs
  <2> HIDE DEF Passed, InFolder
  <2> QED
    BY <1>3, <2>1 DEF Placed
<1> QED
  BY <1>1, <1>2, <1>3

LEMMA PlacedOne ==
  ASSUME RemoteOK, RemoteOK', CallsOK, NEW a \in Adapter, Only(a), Moves(a),
         NEW P, Placed(P), NEW Q, Grows(P, Q),
         \A k \in Key : cache'[a][k] # NoId => cache'[a][k] = cache[a][k] \/ Q[cache'[a][k]] = k,
         pc'[a] = "lookup" => Q[cur'[a]] = SubSeq(Full(a)', 1, n'[a]),
         pc'[a] \in {"folders", "mkfolder"} => Q[cur'[a]] = SubSeq(dir'[a], 1, n'[a])
  PROVE  Placed(Q)'
<1>1. Q \in [Id \cup {Top} -> Seq(Name)] /\ Q[Top] = <<>>
  BY DEF Grows, Placed
<1>2. ASSUME NEW i \in Live' PROVE Q[i] = Append(Q[remote'[i].parent], remote'[i].name)
  <2>0. Live \subseteq Given
    BY RemoteFacts
  <2>1. CASE i \in Live
    <3>1. remote'[i].name = remote[i].name /\ remote'[i].parent = remote[i].parent
      BY <2>1, DriveMoves
    <3>2. Q[i] = P[i] /\ remote[i].parent \in Given \cup {Top}
      BY <2>0, <2>1, Names DEF Grows
    <3> QED
      BY <2>1, <3>1, <3>2 DEF Grows, Placed
  <2>2. CASE i \notin Live
    <3>1. remote'[i].parent \in Live \cup {Top}
      BY <2>2, DriveMoves
    <3> QED
      BY <2>0, <2>2, <3>1 DEF Grows
  <2> QED
    BY <2>1, <2>2
<1>3. ASSUME NEW b \in Adapter, NEW k \in Key, cache'[b][k] # NoId PROVE Q[cache'[b][k]] = k
  <2>1. cache[b][k] \in Given \cup {Top, NoId}
    BY DEF CallsOK
  <2>2. cache'[b][k] = cache[b][k] \/ Q[cache'[b][k]] = k
    <3>1. CASE b = a
      BY <1>3, <3>1
    <3>2. CASE b # a
      BY <3>2, Others
    <3> QED
      BY <3>1, <3>2
  <2> QED
    BY <1>3, <2>1, <2>2 DEF Grows, Placed
<1>4. ASSUME NEW b \in Adapter, b # a
      PROVE  /\ pc'[b] = "lookup" => Q[cur'[b]] = SubSeq(Full(b)', 1, n'[b])
             /\ pc'[b] \in {"folders", "mkfolder"} => Q[cur'[b]] = SubSeq(dir'[b], 1, n'[b])
  <2>1. /\ pc'[b] = pc[b] /\ dir'[b] = dir[b] /\ n'[b] = n[b] /\ cur'[b] = cur[b]
        /\ Full(b)' = Full(b)
    BY <1>4, Others
  <2>2. Q[cur[b]] = P[cur[b]]
    BY DEF CallsOK, Grows
  <2> HIDE DEF Full
  <2> QED
    BY <2>1, <2>2 DEF Placed
<1> HIDE DEF Full
<1>5. \A b \in Adapter : /\ pc'[b] = "lookup" => Q[cur'[b]] = SubSeq(Full(b)', 1, n'[b])
                         /\ pc'[b] \in {"folders", "mkfolder"} => Q[cur'[b]] = SubSeq(dir'[b], 1, n'[b])
  BY <1>4
<1> QED
  BY <1>1, <1>2, <1>3, <1>5 DEF Placed

LEMMA EntersAt ==
  ASSUME CallsOK, NEW a \in Adapter, NEW full \in Key, Enters(a, full),
         NEW P, Placed(P), NEW Q, Grows(P, Q)
  PROVE  Q[cur'[a]] = SubSeq(full, 1, n'[a])
<1>1. SubSeq(full, 1, 0) = <<>> /\ SubSeq(full, 1, Len(full)) = full
  BY Keys, SubEnds
<1>2. Q[Top] = <<>>
  BY DEF Placed, Grows
<1>3. cache[a][full] # NoId => Q[cache[a][full]] = full
  BY DEF Placed, Grows, CallsOK
<1> QED
  BY <1>1, <1>2, <1>3 DEF Enters

(* Every step connects paths with ids of that path alone. *)
LEMMA PlacedMove ==
  ASSUME RemoteOK, RemoteOK', CallsOK, CallsOK', NEW a \in Adapter, Only(a), Moves(a),
         NEW P, Placed(P), NEW Q, Grows(P, Q)
  PROVE  Placed(Q)'
<1> DEFINE Cache == \A k \in Key : cache'[a][k] # NoId =>
                      cache'[a][k] = cache[a][k] \/ Q[cache'[a][k]] = k
           Cur == /\ pc'[a] = "lookup" => Q[cur'[a]] = SubSeq(Full(a)', 1, n'[a])
                  /\ pc'[a] \in {"folders", "mkfolder"} => Q[cur'[a]] = SubSeq(dir'[a], 1, n'[a])
<1> SUFFICES Cache /\ Cur
  BY PlacedOne
<1>0. /\ \A i \in Live : Q[i] = P[i]
      /\ Q[cur[a]] = P[cur[a]]
      /\ cache[a] \in [Key -> Given \cup {Top, NoId}] /\ n[a] \in Nat /\ dir[a] \in Key
      /\ Full(a) \in Key
  BY RemoteFacts, CallPaths DEF Grows, CallsOK
<1>1. CASE Starts(a)
  <2>1. op'[a].path \in Path \cup {<<>>} /\ Enters(a, Full(a)')
    BY <1>1 DEF Starts
  <2>2. Full(a)' \in Key
    BY <2>1, Keys DEF Full
  <2> HIDE DEF Full
  <2>3. Q[cur'[a]] = SubSeq(Full(a)', 1, n'[a])
    BY <2>1, <2>2, EntersAt
  <2> QED
    BY <1>1, <2>3 DEF Starts
<1>2. CASE Ends(a)
  BY <1>2 DEF Ends
<1>3. CASE Finds(a)
  <2>1. /\ pc[a] = "lookup" /\ n[a] < Len(Full(a)) /\ n'[a] = n[a] + 1
        /\ cur'[a] \in Children(cur[a], Full(a)[n[a] + 1]) /\ pc'[a] = "lookup"
        /\ cache'[a] = [cache[a] EXCEPT ![SubSeq(Full(a), 1, n[a] + 1)] = cur'[a]]
    BY <1>3 DEF Finds
  <2>2. cur'[a] \in Live
    BY <2>1 DEF Children
  <2>3. P[cur[a]] = SubSeq(Full(a), 1, n[a])
    BY <2>1 DEF Placed
  <2>4. SubSeq(Full(a), 1, n[a] + 1) = Append(SubSeq(Full(a), 1, n[a]), Full(a)[n[a] + 1])
    BY <1>0, <2>1, PathParts
  <2>5. Q[cur'[a]] = SubSeq(Full(a), 1, n[a] + 1)
    <3>1. P[cur'[a]] = Append(P[cur[a]], Full(a)[n[a] + 1])
      BY <2>1, <2>2, PathFacts
    <3> QED
      BY <1>0, <2>2, <2>3, <2>4, <3>1
  <2>6. Full(a)' = Full(a)
    BY <1>3, SamePaths DEF Finds, SameCall
  <2> HIDE DEF Full
  <2> QED
    BY <1>0, <2>1, <2>5, <2>6
<1>4. CASE TurnsToFolders(a)
  <2>1. DirOf(a) \in Key
    BY CallPaths
  <2>2. Q[cur'[a]] = SubSeq(DirOf(a), 1, n'[a])
    BY <1>4, <2>1, EntersAt DEF TurnsToFolders
  <2> QED
    BY <1>4, <2>2 DEF TurnsToFolders
<1>5. CASE FindsFolder(a)
  <2> DEFINE k == Passed(a)
  <2>1. /\ pc[a] = "folders" /\ k # Len(dir[a]) /\ n'[a] = k + 1 /\ dir'[a] = dir[a]
        /\ cur'[a] \in Children(InFolder(a), dir[a][k + 1]) /\ pc'[a] = "folders"
        /\ cache'[a] = [cache[a] EXCEPT ![SubSeq(dir[a], 1, k + 1)] = cur'[a]]
    BY <1>5 DEF FindsFolder
  <2>2. cur'[a] \in Live
    BY <2>1 DEF Children
  <2>3. P[InFolder(a)] = SubSeq(dir[a], 1, k)
    BY <2>1, PathFacts
  <2>4. k \in Nat /\ k < Len(dir[a])
    BY <1>0, <2>1, PassedIs
  <2> HIDE DEF k
  <2>5. SubSeq(dir[a], 1, k + 1) = Append(SubSeq(dir[a], 1, k), dir[a][k + 1])
    BY <1>0, <2>4, PathParts
  <2>6. Q[cur'[a]] = SubSeq(dir[a], 1, k + 1)
    <3>1. P[cur'[a]] = Append(P[InFolder(a)], dir[a][k + 1])
      BY <2>1, <2>2, PathFacts
    <3> QED
      BY <1>0, <2>2, <2>3, <2>5, <3>1
  <2> QED
    BY <1>0, <2>1, <2>6
<1>6. CASE FindsNoFolder(a)
  <2>1. InFolder(a) \in Given \cup {Top} /\ P[InFolder(a)] = SubSeq(dir[a], 1, Passed(a))
    BY <1>6, PassedIs, PathFacts DEF FindsNoFolder
  <2>2. Q[InFolder(a)] = SubSeq(dir[a], 1, Passed(a))
    BY <2>1 DEF Grows
  <2> HIDE DEF InFolder, Passed
  <2> QED
    BY <1>6, <2>2 DEF FindsNoFolder
<1>7. CASE MakesFolder(a)
  <2>1. /\ SubSeq(dir[a], 1, n[a] + 1) = Append(SubSeq(dir[a], 1, n[a]), dir[a][n[a] + 1])
        /\ NextId \in Live' \ Live
        /\ remote'[NextId] = Node(dir[a][n[a] + 1], cur[a], "folder", NoContent)
    BY <1>7, NewFolder
  <2>2. P[cur[a]] = SubSeq(dir[a], 1, n[a])
    BY <1>7 DEF MakesFolder, Placed
  <2>3. Q[NextId] = Append(P[remote'[NextId].parent], remote'[NextId].name)
    BY <2>1 DEF Grows
  <2>4. remote'[NextId].parent = cur[a] /\ remote'[NextId].name = dir[a][n[a] + 1]
    BY <2>1, States
  <2> HIDE DEF NextId
  <2>5. Q[NextId] = SubSeq(dir[a], 1, n[a] + 1)
    BY <2>1, <2>2, <2>3, <2>4
  <2>6. /\ pc'[a] = "folders" /\ n'[a] = n[a] + 1 /\ cur'[a] = NextId /\ dir'[a] = dir[a]
        /\ cache'[a] = [cache[a] EXCEPT ![SubSeq(dir[a], 1, n[a] + 1)] = NextId]
    BY <1>7 DEF MakesFolder
  <2> QED
    BY <1>0, <2>5, <2>6
<1>8. CASE MakesFile(a) \/ Updates(a)
  BY <1>8 DEF MakesFile, Updates
<1>9. CASE Deletes(a)
  <2>1. cache'[a] = cache[a] \/ cache'[a] = [cache[a] EXCEPT ![Full(a)] = NoId]
    BY <1>9 DEF Deletes
  <2>2. pc'[a] = "idle"
    BY <1>9 DEF Deletes
  <2> QED
    BY <1>0, <2>1, <2>2
<1>10. CASE Opens(a)
  <2>1. /\ pc[a] = "folders" /\ Passed(a) = Len(dir[a]) /\ op[a].kind = "open" /\ pc'[a] = "idle"
        /\ cache'[a] = [cache[a] EXCEPT ![Root[a]] = InFolder(a)]
    BY <1>10 DEF Opens
  <2>2. dir[a] = Root[a]
    <3>1. dir[a] = Target(a) /\ Target(a) = Full(a)
      BY <2>1 DEF CallsOK, Fits, Target
    <3> QED
      BY <2>1, <3>1, CallPaths
  <2>3. P[InFolder(a)] = SubSeq(dir[a], 1, Len(dir[a])) /\ InFolder(a) \in Given \cup {Top}
    BY <2>1, PathFacts, PassedIs
  <2>4. SubSeq(dir[a], 1, Len(dir[a])) = dir[a]
    BY <1>0, Keys, SubEnds
  <2>5. Q[InFolder(a)] = Root[a]
    BY <2>2, <2>3, <2>4 DEF Grows
  <2> HIDE DEF InFolder, Passed
  <2> QED
    BY <1>0, <2>1, <2>5
<1> QED
  BY <1>1, <1>2, <1>3, <1>4, <1>5, <1>6, <1>7, <1>8, <1>9, <1>10 DEF Moves

LEMMA PlacedInit ==
  ASSUME Init, NEW P, P = [i \in Id \cup {Top} |-> <<>>]
  PROVE  Placed(P)
<1>1. Live = {}
  BY States DEF Init, Live
<1> QED
  BY <1>1, EmptySeq DEF Placed, Init

(* A full path leads to the live ids of that path. *)
LEMMA IdsAtIs ==
  \A P : RemoteOK /\ Placed(P) =>
    \A full \in Key : IdsAt(full) = {i \in Live \cup {Top} : P[i] = full}
<1> SUFFICES ASSUME NEW P, RemoteOK, Placed(P), NEW full \in Key
             PROVE  IdsAt(full) = {i \in Live \cup {Top} : P[i] = full}
  OBVIOUS
<1>0. full \in Seq(Name) /\ Len(full) \in Nat
  BY Keys, LenProperties
<1> DEFINE U == SUBSET (Live \cup {Top})
           g == [k \in 1..Len(full) |-> [v \in U |-> UNION {Children(i, full[k]) : i \in v}]]
           At0(f) == f = [k \in 0..Len(full) |->
                           IF k = 0 THEN {Top}
                           ELSE UNION {Children(i, full[k]) : i \in f[k - 1]}]
           There(k) == {i \in Live \cup {Top} : P[i] = SubSeq(full, 1, k)}
<1>1. \A k \in 1..Len(full) : \A v \in U : g[k][v] = UNION {Children(i, full[k]) : i \in v}
  OBVIOUS
<1>2. g \in [1..Len(full) -> [U -> U]]
  <2>1. \A k \in 1..Len(full), v \in U : UNION {Children(i, full[k]) : i \in v} \in U
    BY DEF Children
  <2> QED
    BY <2>1
<1>3. \E f : At0(f)
  <2> HIDE DEF g, U
  <2>0. \E f : Follows(f, Len(full), U, {Top}, g)
    <3>1. {Top} \in U
      BY DEF U
    <3> QED
      BY <1>0, <1>2, <3>1, Recursion
  <2>1. PICK f : /\ f \in [0..Len(full) -> U] /\ f[0] = {Top}
                 /\ \A k \in 1..Len(full) : f[k] = g[k][f[k - 1]]
    BY <2>0 DEF Follows
  <2>2. ASSUME NEW k \in 0..Len(full)
        PROVE  f[k] = IF k = 0 THEN {Top} ELSE UNION {Children(i, full[k]) : i \in f[k - 1]}
    <3>1. CASE k = 0
      BY <2>1, <3>1
    <3>2. CASE k # 0
      <4>1. k \in 1..Len(full) /\ k - 1 \in 0..Len(full)
        BY <1>0, <2>2, <3>2
      <4> QED
        BY <1>1, <2>1, <3>2, <4>1
    <3> QED
      BY <3>1, <3>2
  <2>3. f = [k \in 0..Len(full) |-> f[k]]
    BY <2>1
  <2>4. At0(f)
    BY <2>2, <2>3
  <2> QED
    BY <2>4
<1> DEFINE at == CHOOSE f : At0(f)
<1>4. At0(at)
  BY <1>3
<1>5. IdsAt(full) = at[Len(full)]
  BY DEF IdsAt
<1> HIDE DEF at
<1>6. at[0] = {Top} /\ \A k \in 1..Len(full) : at[k] = UNION {Children(i, full[k]) : i \in at[k - 1]}
  <2>1. \A k \in 0..Len(full) : at[k] = IF k = 0 THEN {Top}
                                       ELSE UNION {Children(i, full[k]) : i \in at[k - 1]}
    BY <1>4, Zenon
  <2>2. 0 \in 0..Len(full) /\ \A k \in 1..Len(full) : k \in 0..Len(full) /\ k # 0
    BY <1>0
  <2> QED
    BY <2>1, <2>2
<1> HIDE DEF At0, g
<1>7. ASSUME NEW i \in Live PROVE P[i] # <<>> /\ P[i] = Append(P[remote[i].parent], remote[i].name)
                                  /\ P[remote[i].parent] \in Seq(Name) /\ remote[i].name \in Name
                                  /\ remote[i].parent \in Live \cup {Top}
  <2>1. P[remote[i].parent] \in Seq(Name) /\ remote[i].name \in Name /\ remote[i].parent \in Live \cup {Top}
    BY Names DEF Placed, Live
  <2>2. P[i] = Append(P[remote[i].parent], remote[i].name)
    BY DEF Placed
  <2> QED
    BY <2>1, <2>2, AppendIs
<1>8. at[0] = There(0)
  BY <1>0, <1>6, <1>7, SubEnds DEF Placed
<1>9. ASSUME NEW k \in 1..Len(full), at[k - 1] = There(k - 1) PROVE at[k] = There(k)
  <2>1. /\ SubSeq(full, 1, k) = Append(SubSeq(full, 1, k - 1), full[k])
        /\ SubSeq(full, 1, k - 1) \in Seq(Name) /\ full[k] \in Name
        /\ SubSeq(full, 1, k) # <<>>
    <3> DEFINE l == k - 1
    <3>1. l \in Nat /\ l < Len(full) /\ l + 1 = k /\ l \in 0..Len(full)
      BY <1>0
    <3> HIDE DEF l
    <3>2. SubSeq(full, 1, l + 1) = Append(SubSeq(full, 1, l), full[l + 1]) /\ full[l + 1] \in Name
      BY <3>1, PathParts
    <3>3. SubSeq(full, 1, l) \in Seq(Name)
      BY <1>0, <3>1, SubSeqIs
    <3>4. SubSeq(full, 1, k) = Append(SubSeq(full, 1, l), full[k]) /\ full[k] \in Name
      BY <3>1, <3>2
    <3>5. SubSeq(full, 1, k) # <<>>
      BY <3>3, <3>4, AppendIs
    <3> QED
      BY <3>3, <3>4, <3>5 DEF l
  <2>2. ASSUME NEW i \in at[k] PROVE i \in There(k)
    <3>1. PICK p \in at[k - 1] : i \in Children(p, full[k])
      BY <1>6, <2>2
    <3>2. i \in Live /\ remote[i].parent = p /\ remote[i].name = full[k]
      BY <3>1 DEF Children
    <3>3. P[p] = SubSeq(full, 1, k - 1)
      BY <1>9
    <3> QED
      BY <1>7, <2>1, <3>2, <3>3
  <2>3. ASSUME NEW i \in There(k) PROVE i \in at[k]
    <3>1. i \in Live
      BY <2>1 DEF Placed
    <3>2. Append(P[remote[i].parent], remote[i].name) = Append(SubSeq(full, 1, k - 1), full[k])
      BY <1>7, <2>1, <3>1
    <3>3. P[remote[i].parent] = SubSeq(full, 1, k - 1) /\ remote[i].name = full[k]
      <4> DEFINE s == P[remote[i].parent]
                 t == SubSeq(full, 1, k - 1)
      <4>1. s \in Seq(Name) /\ t \in Seq(Name) /\ Append(s, remote[i].name) = Append(t, full[k])
        BY <1>7, <2>1, <3>1, <3>2
      <4>2. remote[i].name \in Name /\ full[k] \in Name
        BY <1>7, <2>1, <3>1
      <4> HIDE DEF s, t
      <4>3. s = t /\ remote[i].name = full[k]
        BY <4>1, <4>2, AppendOne
      <4> QED
        BY <4>3 DEF s, t
    <3>4. remote[i].parent \in There(k - 1)
      BY <1>7, <3>1, <3>3
    <3>5. i \in Children(remote[i].parent, full[k])
      BY <3>1, <3>3 DEF Children
    <3> HIDE DEF There
    <3> QED
      BY <1>6, <1>9, <3>4, <3>5
  <2> HIDE DEF There
  <2> QED
    BY <2>2, <2>3
<1>10. \A k \in 0..Len(full) : at[k] = There(k)
  <2> DEFINE Bad == {k \in 0..Len(full) : at[k] # There(k)}
  <2> HIDE DEF There
  <2>1. SUFFICES ASSUME Bad # {} PROVE FALSE
    OBVIOUS
  <2>2. Bad \subseteq Nat
    BY <1>0
  <2>3. PICK m \in Bad : \A o \in Bad : m <= o
    <3> HIDE DEF Bad
    <3> QED
      BY <2>1, <2>2, Least
  <2>4. m # 0
    BY <1>8, <2>3
  <2>5. m - 1 \in 0..Len(full) /\ ~(m <= m - 1) /\ m \in 1..Len(full)
    BY <1>0, <2>3, <2>4
  <2>6. at[m - 1] = There(m - 1)
    BY <2>3, <2>5
  <2> QED
    BY <1>9, <2>3, <2>5, <2>6
<1>11. Len(full) \in 0..Len(full) /\ SubSeq(full, 1, Len(full)) = full
  BY <1>0, SubEnds
<1> QED
  BY <1>5, <1>10, <1>11

(* ... and so it is after a step. *)
LEMMA IdsAtNext ==
  (\A P : RemoteOK /\ Placed(P) =>
     \A full \in Key : IdsAt(full) = {i \in Live \cup {Top} : P[i] = full})'
BY IdsAtIs, PTL

LEMMA FoundAt ==
  ASSUME CallsOK, NEW a \in Adapter, NEW kind, Found(a, kind), NEW P, Placed(P)
  PROVE  P[cur[a]] = Full(a) /\ op[a].kind = kind /\ cur[a] \in Given \cup {Top}
<1>1. Full(a) \in Seq(Name)
  BY CallPaths
<1>2. SubSeq(Full(a), 1, Len(Full(a))) = Full(a)
  BY <1>1, SubEnds
<1>3. P[cur[a]] = SubSeq(Full(a), 1, n[a]) /\ n[a] = Len(Full(a)) /\ op[a].kind = kind
  BY DEF Found, Placed
<1> HIDE DEF Full
<1> QED
  BY <1>2, <1>3 DEF CallsOK

(* the folders of a path are there *)
LEMMA DoneAt ==
  ASSUME RemoteOK, CallsOK, NEW a \in Adapter, pc[a] = "folders", Passed(a) = Len(dir[a]),
         NEW P, Placed(P)
  PROVE  P[InFolder(a)] = Target(a) /\ dir[a] = Target(a) /\ InFolder(a) \in Given \cup {Top}
<1>1. P[InFolder(a)] = SubSeq(dir[a], 1, Len(dir[a])) /\ InFolder(a) \in Given \cup {Top}
  BY PathFacts, PassedIs
<1>2. dir[a] = Target(a) /\ dir[a] \in Seq(Name)
  BY Keys DEF CallsOK, Fits
<1>3. SubSeq(dir[a], 1, Len(dir[a])) = dir[a]
  BY <1>2, SubEnds
<1> HIDE DEF InFolder, Target, Passed
<1> QED
  BY <1>1, <1>2, <1>3

LEMMA NewFileAt ==
  ASSUME RemoteOK, CallsOK, NEW a \in Adapter, MakesFile(a), NEW P, Placed(P), NEW Q, Grows(P, Q),
         Named(a)
  PROVE  Q[NextId] = Full(a) /\ P[InFolder(a)] = DirOf(a)
<1>1. P[InFolder(a)] = DirOf(a)
  <2>1. P[InFolder(a)] = Target(a)
    BY DoneAt DEF MakesFile
  <2> QED
    BY <2>1 DEF MakesFile, Target
<1>2. DirOf(a) = SubSeq(Full(a), 1, Len(Full(a)) - 1)
  BY CallPaths DEF MakesFile
<1>3. /\ Full(a) = Append(SubSeq(Full(a), 1, Len(Full(a)) - 1), Full(a)[Len(Full(a))])
      /\ NextId \in Live' \ Live
      /\ remote'[NextId] = Node(Full(a)[Len(Full(a))], InFolder(a), "file", op[a].content)
  BY NewFile
<1>4. Q[NextId] = Append(P[remote'[NextId].parent], remote'[NextId].name)
  BY <1>3 DEF Grows
<1>5. /\ remote'[NextId].parent = InFolder(a)
      /\ remote'[NextId].name = Full(a)[Len(Full(a))]
  BY <1>3, States
<1> HIDE DEF NextId, Full, DirOf, InFolder
<1> QED
  BY <1>1, <1>2, <1>3, <1>4, <1>5

-----------------------------------------------------------------------------
(* A Write that reports success.                                           *)

Landed(P) ==
  \A a \in Adapter :
    pc[a] = "idle" /\ op[a].kind = "write" /\ answer[a].result = "ok" /\ quiet[a] /\ Named(a) =>
      \E i \in Live : remote[i].kind = "file" /\ remote[i].content = op[a].content /\ P[i] = Full(a)

LEMMA LandedMove ==
  ASSUME RemoteOK, RemoteOK', CallsOK, NEW a \in Adapter, Only(a), Moves(a),
         NEW P, Placed(P), NEW Q, Grows(P, Q), Landed(P)
  PROVE  Landed(Q)'
<1> SUFFICES ASSUME NEW b \in Adapter, pc'[b] = "idle", op'[b].kind = "write",
                    answer'[b].result = "ok", quiet'[b], Named(b)
             PROVE  \E i \in Live' : /\ remote'[i].kind = "file"
                                     /\ remote'[i].content = op'[b].content /\ Q[i] = Full(b)'
  BY DEF Landed, Named
<1>1. CASE b # a
  <2>1. /\ pc[b] = "idle" /\ op'[b] = op[b] /\ answer[b].result = "ok" /\ Full(b)' = Full(b)
    BY <1>1, Others
  <2>2. remote' = remote /\ quiet[b]
    BY <1>1 DEF Moves, Starts, Ends, Finds, TurnsToFolders, FindsFolder, FindsNoFolder, Opens,
                Still, MakesFolder, MakesFile, Makes, Updates, Deletes, CallsOK
  <2>3. PICK i \in Live : /\ remote[i].kind = "file"
                          /\ remote[i].content = op[b].content /\ P[i] = Full(b)
    BY <2>1, <2>2 DEF Landed
  <2>4. i \in Live' /\ Q[i] = P[i]
    BY <2>2, RemoteFacts, Same DEF Grows
  <2> HIDE DEF Full
  <2> QED
    BY <2>1, <2>2, <2>3, <2>4
<1>2. CASE b = a
  <2>1. CASE MakesFile(a)
    <3>1. Q[NextId] = Full(a)
      BY <1>2, <2>1, NewFileAt
    <3>2. /\ NextId \in Live'
          /\ remote'[NextId] = Node(Full(a)[Len(Full(a))], InFolder(a), "file", op[a].content)
      BY <2>1, NewFile
    <3>3. op'[a] = op[a] /\ Full(a)' = Full(a)
      BY <2>1, SamePaths DEF MakesFile, Over
    <3> HIDE DEF NextId, Full
    <3> QED
      BY <1>2, <3>1, <3>2, <3>3, States
  <2>2. CASE Updates(a)
    <3>1. cur[a] \in Live /\ remote[cur[a]].kind = "file" /\ op[a].content \in Content
      BY <2>2 DEF Updates, IsFile, CallsOK
    <3>2. P[cur[a]] = Full(a)
      BY <2>2, FoundAt DEF Updates
    <3>3. Live' = Live /\ remote'[cur[a]].kind = "file" /\ remote'[cur[a]].content = op[a].content
      BY <2>2, <3>1, Updated DEF Updates
    <3>4. op'[a] = op[a] /\ Full(a)' = Full(a) /\ Q[cur[a]] = P[cur[a]]
      BY <2>2, <3>1, SamePaths, RemoteFacts DEF Updates, Over, Grows
    <3> HIDE DEF Full
    <3> QED
      BY <1>2, <3>1, <3>2, <3>3, <3>4
  <2>3. CASE Ends(a)
    <3>1. op'[a] = op[a] /\ Why(a, "ok", answer'[a].got)
      BY <1>2, <2>3 DEF Ends, Over
    <3> QED
      BY <1>2, <3>1 DEF Why, Found
  <2>4. CASE Deletes(a) \/ Opens(a)
    BY <1>2, <2>4 DEF Deletes, Opens, Over, Found
  <2>5. CASE \/ Starts(a) \/ Finds(a) \/ TurnsToFolders(a) \/ FindsFolder(a) \/ FindsNoFolder(a)
             \/ MakesFolder(a)
    BY <1>2, <2>5 DEF Starts, Finds, TurnsToFolders, FindsFolder, FindsNoFolder, MakesFolder
  <2> QED
    BY <2>1, <2>2, <2>3, <2>4, <2>5 DEF Moves
<1> QED
  BY <1>1, <1>2

LandedInv == Typed /\ \E P : Placed(P) /\ Landed(P)

LEMMA LandedInit == Init => LandedInv
<1> SUFFICES ASSUME Init PROVE LandedInv
  OBVIOUS
<1>1. PICK P : P = [i \in Id \cup {Top} |-> <<>>]
  OBVIOUS
<1>2. Placed(P)
  BY <1>1, PlacedInit
<1>3. Landed(P)
  BY DEF Init, Landed
<1> QED
  BY <1>2, <1>3, TypedInit DEF LandedInv

LEMMA SameStutter ==
  ASSUME UNCHANGED vars, NEW P
  PROVE  /\ Placed(P) => Placed(P)'
         /\ Landed(P) => Landed(P)'
<1>1. Live' = Live
  BY DEF vars, Live
<1>2. \A a \in Adapter : Full(a)' = Full(a)
  BY DEF vars, Full
<1> HIDE DEF Full, Live
<1>3. Placed(P) => Placed(P)'
  BY <1>1, <1>2 DEF vars, Placed
<1>4. Landed(P) => Landed(P)'
  BY <1>1, <1>2 DEF vars, Landed, Named
<1> QED
  BY <1>3, <1>4

LEMMA LandedNext == LandedInv /\ [Next]_vars => LandedInv'
<1> SUFFICES ASSUME LandedInv, [Next]_vars PROVE LandedInv'
  OBVIOUS
<1>1. RemoteOK /\ CallsOK /\ Typed' /\ RemoteOK' /\ CallsOK'
  BY TypedNext DEF LandedInv, Typed
<1>2. PICK P : Placed(P) /\ Landed(P)
  BY DEF LandedInv
<1>3. CASE Next
  <2>1. PICK a \in Adapter : Only(a) /\ Moves(a)
    BY <1>1, <1>3, NextMoves
  <2>2. PICK Q : Grows(P, Q)
    BY <1>1, <1>2, <2>1, PathsGrow
  <2>3. Placed(Q)' /\ Landed(Q)'
    BY <1>1, <1>2, <2>1, <2>2, PlacedMove, LandedMove
  <2> QED
    BY <1>1, <2>3 DEF LandedInv
<1>4. CASE UNCHANGED vars
  BY <1>1, <1>2, <1>4, SameStutter DEF LandedInv
<1> QED
  BY <1>3, <1>4

LEMMA LandedIsWriteLands == LandedInv => WriteLands
<1> SUFFICES ASSUME LandedInv, NEW a \in Adapter, Answered(a), op[a].kind = "write",
                    answer[a].result = "ok", quiet[a], Named(a)
             PROVE  Honest(a)
  BY DEF WriteLands
<1>1. RemoteOK /\ CallsOK
  BY DEF LandedInv, Typed
<1>2. PICK P : Placed(P) /\ Landed(P)
  BY DEF LandedInv
<1>3. PICK i \in Live : /\ remote[i].kind = "file"
                        /\ remote[i].content = op[a].content /\ P[i] = Full(a)
  BY <1>2 DEF Landed, Answered
<1>4. i \in IdsAt(Full(a))
  BY <1>1, <1>2, <1>3, IdsAtIs, CallPaths
<1> HIDE DEF IdsAt, Full
<1> QED
  BY <1>3, <1>4 DEF Honest, IsFile

(* Whatever others did to Drive and however stale a cache is, a Write that *)
(* reports success has put its content where it belongs, as long as nobody *)
(* else changes anything meanwhile.                                        *)
THEOREM SuccessfulWriteLands == Spec => []WriteLands
<1>1. Spec => []LandedInv
  BY LandedInit, LandedNext, PTL DEF Spec
<1> QED
  BY <1>1, LandedIsWriteLands, PTL

-----------------------------------------------------------------------------
(* What a step changes.                                                    *)

(* What a move of a may change: an entry below the one its Delete found, a *)
(* folder it makes on the way to its own, the file of its Write.           *)
Concerns(P, Q, a, i) ==
  \/ /\ op[a].kind = "delete" /\ remote'[i] = Gone
     /\ \E j \in Live \cup {Top} : P[j] = Full(a) /\ i \in Subtree(j)
  \/ /\ op[a].kind \in {"open", "mkdir", "write"} /\ remote[i] = Free
     /\ i \in Live' /\ remote'[i].kind = "folder"
     /\ \E m \in 0..Len(Target(a)) : Q[i] = SubSeq(Target(a), 1, m)
  \/ /\ op[a].kind = "write" /\ op'[a] = op[a]
     /\ i \in Live' /\ remote'[i].kind = "file" /\ Q[i] = Full(a)

LEMMA ChangesOnPath ==
  ASSUME RemoteOK, CallsOK, NEW a \in Adapter, Moves(a), Named(a), NEW P, Placed(P),
         NEW Q, Grows(P, Q), Placed(Q)', NEW i \in Id, remote'[i] # remote[i]
  PROVE  pc'[a] # pc[a] /\ Concerns(P, Q, a, i)
<1>0. Fits(a)
  BY DEF CallsOK
<1>1. NextId \notin Given
  BY RemoteFacts
<1>2. CASE MakesFolder(a)
  <2>1. /\ NextId \in Id /\ i = NextId /\ pc[a] = "mkfolder"
        /\ pc'[a] = "folders" /\ cur'[a] = NextId /\ n'[a] = n[a] + 1 /\ dir'[a] = dir[a]
    BY <1>2 DEF MakesFolder, Makes, SameCall
  <2>2. Q[NextId] = SubSeq(dir[a], 1, n[a] + 1)
    BY <2>1 DEF Placed
  <2>3. /\ n[a] + 1 \in 0..Len(dir[a]) /\ NextId \in Live'
        /\ remote'[NextId] = Node(dir[a][n[a] + 1], cur[a], "folder", NoContent)
    BY <1>2, NewFolder
  <2>4. dir[a] = Target(a) /\ op[a].kind \in {"open", "mkdir", "write"}
    BY <1>0, <2>1 DEF Fits
  <2>5. remote[i] = Free
    BY <1>1, <2>1 DEF Given
  <2>6. remote'[i].kind = "folder"
    BY <2>1, <2>3, States
  <2> QED
    BY <2>1, <2>2, <2>3, <2>4, <2>5, <2>6 DEF Concerns
<1>3. CASE MakesFile(a)
  <2>1. /\ i = NextId /\ pc[a] = "folders" /\ pc'[a] = "idle"
        /\ op[a].kind = "write" /\ op'[a] = op[a]
    BY <1>3 DEF MakesFile, Makes, Over
  <2>2. Q[NextId] = Full(a) /\ NextId \in Live'
    BY <1>3, NewFileAt, NewFile
  <2>3. remote'[NextId] = Node(Full(a)[Len(Full(a))], InFolder(a), "file", op[a].content)
    BY <1>3, NewFile
  <2>4. remote'[i].kind = "file"
    BY <2>1, <2>3, States
  <2> QED
    BY <2>1, <2>2, <2>4 DEF Concerns
<1>4. CASE Updates(a)
  <2>0. op[a].content \in Content
    BY DEF CallsOK
  <2>1. /\ i = cur[a] /\ i \in Live /\ remote[i].kind = "file" /\ op'[a] = op[a]
        /\ remote' = [remote EXCEPT ![i].content = op[a].content]
        /\ pc[a] = "lookup" /\ pc'[a] = "idle" /\ op[a].kind = "write"
    <3>1. /\ remote' = [remote EXCEPT ![cur[a]].content = op[a].content]
          /\ cur[a] \in Live /\ remote[cur[a]].kind = "file" /\ op'[a] = op[a]
          /\ pc[a] = "lookup" /\ pc'[a] = "idle" /\ op[a].kind = "write"
      BY <1>4 DEF Updates, Over, IsFile, Found
    <3>2. i = cur[a]
      BY <3>1
    <3> QED
      BY <3>1, <3>2
  <2>2. Live' = Live /\ remote'[i].kind = "file"
    BY <2>0, <2>1, Updated
  <2>3. Q[i] = Full(a)
    <3>1. P[i] = Full(a)
      BY <1>4, <2>1, FoundAt DEF Updates
    <3>2. i \in Given
      BY <2>1, RemoteFacts
    <3> QED
      BY <3>1, <3>2 DEF Grows
  <2> QED
    BY <2>1, <2>2, <2>3 DEF Concerns
<1>5. CASE Deletes(a)
  <2>1. cur[a] \in Live \cup {Top}
    BY <1>5 DEF Deletes, IsGone
  <2>2. P[cur[a]] = Full(a) /\ op[a].kind = "delete"
    BY <1>5, FoundAt DEF Deletes
  <2> HIDE DEF Subtree, Full
  <2>3. /\ i \in Subtree(cur[a]) /\ remote'[i] = Gone
        /\ pc[a] = "lookup" /\ pc'[a] = "idle"
    BY <1>5 DEF Deletes, Found
  <2> QED
    BY <2>1, <2>2, <2>3 DEF Concerns
<1>6. CASE \/ Starts(a) \/ Ends(a) \/ Finds(a) \/ TurnsToFolders(a) \/ FindsFolder(a)
           \/ FindsNoFolder(a) \/ Opens(a)
  <2>1. remote' = remote
    BY <1>6 DEF Starts, Ends, Finds, TurnsToFolders, FindsFolder, FindsNoFolder, Opens, Still
  <2> QED
    BY <2>1
<1> QED
  BY <1>2, <1>3, <1>4, <1>5, <1>6 DEF Moves

LEMMA ConcernsIsMayChange ==
  ASSUME RemoteOK, CallsOK, RemoteOK', NEW a \in Adapter, NEW P, Placed(P),
         NEW Q, Placed(Q)', NEW i \in Id, Concerns(P, Q, a, i)
  PROVE  MayChange(a, i)
<1>1. \A full \in Key : IdsAt(full)' = {j \in Live' \cup {Top} : Q[j] = full}
  BY IdsAtNext, Zenon
<1>2. Full(a) \in Key /\ Target(a) \in Key
  BY CallPaths
<1>3. CASE /\ op[a].kind = "delete" /\ remote'[i] = Gone
           /\ \E j \in Live \cup {Top} : P[j] = Full(a) /\ i \in Subtree(j)
  <2>1. PICK j \in Live \cup {Top} : P[j] = Full(a) /\ i \in Subtree(j)
    BY <1>3
  <2>2. j \in IdsAt(Full(a))
    BY <1>2, <2>1, IdsAtIs
  <2> HIDE DEF IdsAt, Full, Subtree
  <2> QED
    BY <1>3, <2>1, <2>2 DEF MayChange
<1>4. CASE /\ op[a].kind \in {"open", "mkdir", "write"} /\ remote[i] = Free
           /\ i \in Live' /\ remote'[i].kind = "folder"
           /\ \E m \in 0..Len(Target(a)) : Q[i] = SubSeq(Target(a), 1, m)
  <2>1. PICK m \in 0..Len(Target(a)) : Q[i] = SubSeq(Target(a), 1, m)
    BY <1>4
  <2>2. PICK k : k = SubSeq(Target(a), 1, m)
    OBVIOUS
  <2>3. k \in Key /\ k \in Prefixes(Target(a))
    BY <1>2, <2>2, Keys DEF Prefixes
  <2> HIDE DEF IdsAt, Full, Prefixes
  <2>4. i \in IdsAt(k)'
    BY <1>1, <1>4, <2>1, <2>2, <2>3
  <2>5. IsFolder(i)'
    BY <1>4 DEF IsFolder
  <2>6. k \in Prefixes(IF op[a].kind = "write" THEN DirOf(a) ELSE Full(a))
    BY <2>3 DEF Target
  <2> QED
    BY <1>4, <2>4, <2>5, <2>6 DEF MayChange
<1>5. CASE /\ op[a].kind = "write" /\ op'[a] = op[a]
           /\ i \in Live' /\ remote'[i].kind = "file" /\ Q[i] = Full(a)
  <2>1. PICK k \in Key : k = Full(a)
    BY <1>2
  <2>4. Full(a)' = k
    BY <1>5, <2>1 DEF Full
  <2> HIDE DEF IdsAt, Full
  <2>2. i \in IdsAt(k)'
    BY <1>1, <1>5, <2>1
  <2>3. IsFile(i)'
    BY <1>5 DEF IsFile
  <2> QED
    BY <1>5, <2>2, <2>3, <2>4 DEF MayChange
<1> QED
  BY <1>3, <1>4, <1>5 DEF Concerns

LEMMA LandedKeeps ==
  ASSUME LandedInv, [Next]_vars, \A a \in Adapter : Named(a), remote' # remote
  PROVE  \E a \in Adapter :
           /\ pc'[a] # pc[a]
           /\ \A i \in {j \in Id : remote'[j] # remote[j]} : MayChange(a, i)
<1>1. RemoteOK /\ CallsOK /\ RemoteOK' /\ CallsOK'
  BY TypedNext DEF LandedInv, Typed
<1>2. PICK P : Placed(P)
  BY DEF LandedInv
<1>3. Next
  BY DEF vars
<1>4. PICK a \in Adapter : Only(a) /\ Moves(a)
  BY <1>1, <1>3, NextMoves
<1>5. PICK Q : Grows(P, Q)
  BY <1>1, <1>2, <1>4, PathsGrow
<1>6. Placed(Q)'
  BY <1>1, <1>2, <1>4, <1>5, PlacedMove
<1>7. \A i \in {j \in Id : remote'[j] # remote[j]} : pc'[a] # pc[a] /\ Concerns(P, Q, a, i)
  BY <1>1, <1>2, <1>4, <1>5, <1>6, ChangesOnPath
<1>8. \A i \in {j \in Id : remote'[j] # remote[j]} : MayChange(a, i)
  <2> SUFFICES ASSUME NEW i \in Id, remote'[i] # remote[i] PROVE MayChange(a, i)
    OBVIOUS
  <2> QED
    BY <1>1, <1>2, <1>6, <1>7, ConcernsIsMayChange
<1>9. \E i \in Id : remote'[i] # remote[i]
  BY <1>1 DEF RemoteOK
<1> QED
  BY <1>7, <1>8, <1>9

(* Whatever stale ids the caches hold and whatever others do meanwhile, a  *)
(* request only changes what its own call is about: new folders on the way *)
(* to its folder, the file at its path, what lies below what it deletes.   *)
(* Under the root "" that fails (DirOf), so all roots have names.          *)
THEOREM RequestsKeepToTheirPaths ==
  ASSUME \A a \in Adapter : Named(a)
  PROVE  Spec => KeepsToItsPath
<1>1. Spec => []LandedInv
  BY LandedInit, LandedNext, PTL DEF Spec
<1>2. ASSUME LandedInv, [Next]_vars
      PROVE  [remote' # remote =>
                \E a \in Adapter :
                  /\ pc'[a] # pc[a]
                  /\ \A i \in {j \in Id : remote'[j] # remote[j]} : MayChange(a, i)]_vars
  <2> HIDE DEF MayChange
  <2> QED
    BY <1>2, LandedKeeps
<1> QED
  BY <1>1, <1>2, PTL DEF Spec, KeepsToItsPath

-----------------------------------------------------------------------------
(* The cache of an adapter that has Drive to itself.                       *)

(* the ids a has met are live *)
Fresh(a) ==
  /\ \A k \in Key : cache[a][k] # NoId => cache[a][k] \in Live \cup {Top}
  /\ cur[a] \in Live \cup {Top}

FreshInv == Typed /\ (\E P : Placed(P)) /\ \A a \in Adapter : Alone(a) => Fresh(a)

(* Who has Drive to himself had it so before. *)
LEMMA AloneBefore ==
  ASSUME CallsOK, NEW a \in Adapter, NEW b \in Adapter, Moves(b), Alone(a)'
  PROVE  Alone(a) /\ Named(a) /\ (b # a => remote' = remote /\ changers' = changers)
BY DEF Alone, Named, Moves, Starts, Ends, Finds, TurnsToFolders, FindsFolder, FindsNoFolder, Opens,
       Still, MakesFolder, MakesFile, Makes, Updates, Deletes, CallsOK

LEMMA FreshFolder ==
  ASSUME RemoteOK, CallsOK, NEW a \in Adapter, pc[a] = "folders", Fresh(a)
  PROVE  InFolder(a) \in Live \cup {Top}
<1>1. /\ Passed(a) = n[a] => InFolder(a) = cur[a]
      /\ Passed(a) # n[a] => /\ InFolder(a) = cache[a][SubSeq(dir[a], 1, Passed(a))]
                             /\ cache[a][SubSeq(dir[a], 1, Passed(a))] # NoId
      /\ SubSeq(dir[a], 1, Passed(a)) \in Key
  BY PassedIs
<1> HIDE DEF Passed, InFolder
<1> QED
  BY <1>1 DEF Fresh

LEMMA FreshMove ==
  ASSUME RemoteOK, RemoteOK', CallsOK, NEW a \in Adapter, NEW b \in Adapter, Only(b), Moves(b),
         NEW P, Placed(P), Alone(a)', Fresh(a)
  PROVE  Fresh(a)'
<1>1. CASE b # a
  <2>1. remote' = remote /\ cache'[a] = cache[a] /\ cur'[a] = cur[a]
    BY <1>1, AloneBefore, Others
  <2>2. Live' = Live
    BY <2>1, Same
  <2> QED
    BY <2>1, <2>2 DEF Fresh
<1>2. CASE b = a
  <2> DEFINE Good == /\ \A k \in Key : cache'[a][k] # NoId => cache'[a][k] \in Live' \cup {Top}
                     /\ cur'[a] \in Live' \cup {Top}
  <2> SUFFICES Good
    BY DEF Fresh
  <2>0. cache[a] \in [Key -> Given \cup {Top, NoId}] /\ Full(a) \in Key
    BY CallPaths DEF CallsOK
  <2>1. CASE Starts(a)
    <3>1. Live' = Live /\ cache'[a] = cache[a]
      BY <2>1, Same DEF Starts
    <3>2. Full(a)' \in Key /\ Enters(a, Full(a)')
      BY <2>1, Keys DEF Starts, Full
    <3> HIDE DEF Full
    <3> QED
      BY <3>1, <3>2 DEF Fresh, Enters
  <2>2. CASE Ends(a)
    <3>1. Live' = Live
      BY <2>2, Same DEF Ends, Still
    <3> QED
      BY <2>2, <3>1 DEF Fresh, Ends, Over
  <2>3. CASE Finds(a)
    <3>1. Live' = Live /\ cur'[a] \in Live
      BY <2>3, Same DEF Finds, Still, Children
    <3>2. cache'[a] = [cache[a] EXCEPT ![SubSeq(Full(a), 1, n[a] + 1)] = cur'[a]]
      BY <2>3 DEF Finds
    <3> QED
      BY <2>0, <3>1, <3>2 DEF Fresh
  <2>4. CASE TurnsToFolders(a)
    <3>1. Live' = Live /\ cache'[a] = cache[a] /\ DirOf(a) \in Key /\ Enters(a, DirOf(a))
      BY <2>4, Same, CallPaths DEF TurnsToFolders, Still
    <3> QED
      BY <3>1 DEF Fresh, Enters
  <2>5. CASE FindsFolder(a)
    <3>1. Live' = Live /\ cur'[a] \in Live
      BY <2>5, Same DEF FindsFolder, Still, Children
    <3>2. cache'[a] = [cache[a] EXCEPT ![SubSeq(dir[a], 1, Passed(a) + 1)] = cur'[a]]
      BY <2>5 DEF FindsFolder
    <3> QED
      BY <2>0, <3>1, <3>2 DEF Fresh
  <2>6. CASE FindsNoFolder(a)
    <3>1. Live' = Live /\ cache'[a] = cache[a] /\ cur'[a] = InFolder(a)
      BY <2>6, Same DEF FindsNoFolder, Still
    <3>2. InFolder(a) \in Live \cup {Top}
      BY <2>6, FreshFolder DEF FindsNoFolder
    <3> QED
      BY <3>1, <3>2 DEF Fresh
  <2>7. CASE MakesFolder(a)
    <3>1. Live' = Live \cup {NextId}
      BY <2>7, NewFolder
    <3>2. /\ cache'[a] = [cache[a] EXCEPT ![SubSeq(dir[a], 1, n[a] + 1)] = NextId]
          /\ cur'[a] = NextId
      BY <2>7 DEF MakesFolder
    <3> HIDE DEF NextId, Live
    <3> QED
      BY <2>0, <3>1, <3>2 DEF Fresh
  <2>8. CASE MakesFile(a)
    <3>1. Live \subseteq Live' /\ cache'[a] = cache[a] /\ cur'[a] = Top
      BY <2>8, NewFile DEF MakesFile, Over
    <3> QED
      BY <3>1 DEF Fresh
  <2>9. CASE Updates(a)
    <3>1. cur[a] \in Live /\ op[a].content \in Content
      BY <2>9 DEF Updates, IsFile, CallsOK
    <3>2. Live' = Live
      BY <2>9, <3>1, Updated DEF Updates
    <3> QED
      BY <2>9, <3>2 DEF Fresh, Updates, Over
  <2>10. CASE Deletes(a)
    <3>1. Named(a) /\ Subtree(cur[a]) = {cur[a]}
      BY <2>10 DEF Alone, Deletes, Named
    <3>2. cur[a] \in Live \cup {Top}
      BY DEF Fresh
    <3>3. Live' = Live \ {cur[a]}
      BY <2>10, <3>1, <3>2, Cut DEF Deletes
    <3>4. P[cur[a]] = Full(a)
      BY <2>10, FoundAt DEF Deletes
    <3>5. cache'[a] = [cache[a] EXCEPT ![Full(a)] = NoId] /\ cur'[a] = Top
      BY <2>10, <3>1 DEF Deletes, Over
    <3>6. ASSUME NEW k \in Key, cache'[a][k] # NoId PROVE cache'[a][k] \in Live' \cup {Top}
      <4>1. k # Full(a) /\ cache'[a][k] = cache[a][k]
        BY <2>0, <3>5, <3>6
      <4>2. P[cache[a][k]] = k /\ cache[a][k] \in Live \cup {Top}
        BY <3>6, <4>1 DEF Placed, Fresh
      <4> QED
        BY <3>3, <3>4, <4>1, <4>2
    <3> QED
      BY <3>5, <3>6
  <2>11. CASE Opens(a)
    <3>1. Live' = Live /\ InFolder(a) \in Live \cup {Top}
      BY <2>11, Same, FreshFolder DEF Opens, Still
    <3>2. cache'[a] = [cache[a] EXCEPT ![Root[a]] = InFolder(a)] /\ cur'[a] = Top
      BY <2>11 DEF Opens, Over
    <3> HIDE DEF InFolder
    <3> QED
      BY <2>0, <3>1, <3>2 DEF Fresh
  <2> QED
    BY <1>2, <2>1, <2>2, <2>3, <2>4, <2>5, <2>6, <2>7, <2>8, <2>9, <2>10, <2>11 DEF Moves
<1> QED
  BY <1>1, <1>2

LEMMA FreshInit == Init => FreshInv
<1> SUFFICES ASSUME Init PROVE FreshInv
  OBVIOUS
<1>1. PICK P : P = [i \in Id \cup {Top} |-> <<>>]
  OBVIOUS
<1>2. Placed(P)
  BY <1>1, PlacedInit
<1>3. \A a \in Adapter : Fresh(a)
  BY DEF Init, Fresh
<1> QED
  BY <1>2, <1>3, TypedInit DEF FreshInv

LEMMA FreshNext == FreshInv /\ [Next]_vars => FreshInv'
<1> SUFFICES ASSUME FreshInv, [Next]_vars PROVE FreshInv'
  OBVIOUS
<1>1. RemoteOK /\ CallsOK /\ Typed' /\ RemoteOK' /\ CallsOK'
  BY TypedNext DEF FreshInv, Typed
<1>2. PICK P : Placed(P)
  BY DEF FreshInv
<1>3. CASE Next
  <2>1. PICK b \in Adapter : Only(b) /\ Moves(b)
    BY <1>1, <1>3, NextMoves
  <2>2. PICK Q : Grows(P, Q)
    BY <1>1, <1>2, <2>1, PathsGrow
  <2>3. Placed(Q)'
    BY <1>1, <1>2, <2>1, <2>2, PlacedMove
  <2>4. ASSUME NEW a \in Adapter, Alone(a)' PROVE Fresh(a)'
    <3>1. Fresh(a)
      BY <1>1, <2>1, <2>4, AloneBefore DEF FreshInv
    <3> QED
      BY <1>1, <1>2, <2>1, <2>4, <3>1, FreshMove
  <2> QED
    BY <1>1, <2>3, <2>4 DEF FreshInv
<1>4. CASE UNCHANGED vars
  <2>1. Placed(P)'
    BY <1>2, <1>4, SameStutter
  <2>2. \A a \in Adapter : (Alone(a)' <=> Alone(a)) /\ (Fresh(a)' <=> Fresh(a))
    BY <1>4 DEF vars, Alone, Named, Fresh, Live
  <2> QED
    BY <1>1, <2>1, <2>2 DEF FreshInv
<1> QED
  BY <1>3, <1>4

LEMMA FreshIsCacheTrue == FreshInv => CacheTrue
<1> SUFFICES ASSUME FreshInv, NEW a \in Adapter, Alone(a), NEW k \in Key, cache[a][k] # NoId
             PROVE  cache[a][k] \in IdsAt(k)
  BY DEF CacheTrue
<1>1. RemoteOK /\ CallsOK
  BY DEF FreshInv, Typed
<1>2. PICK P : Placed(P)
  BY DEF FreshInv
<1>3. P[cache[a][k]] = k /\ cache[a][k] \in Live \cup {Top}
  BY <1>2 DEF Placed, FreshInv, Fresh
<1>4. IdsAt(k) = {i \in Live \cup {Top} : P[i] = k}
  BY <1>1, <1>2, IdsAtIs
<1> HIDE DEF IdsAt
<1> QED
  BY <1>3, <1>4

(* The cache of an adapter that has Drive to itself, and deletes folder by *)
(* folder, never misleads.                                                 *)
THEOREM CacheIsTrue == Spec => []CacheTrue
<1>1. Spec => []FreshInv
  BY FreshInit, FreshNext, PTL DEF Spec
<1> QED
  BY <1>1, FreshIsCacheTrue, PTL

-----------------------------------------------------------------------------
(* Two entries at one path.                                                *)

NoTwins(P) == \A i, j \in Live : P[i] = P[j] => i = j

(* the files are those of the endpoints of B *)
FilesOf(P, B) ==
  \A i \in Live : remote[i].kind = "file" => \E b \in B, p \in FilePaths : P[i] = Root[b] \o p

(* no path of a leads through a file of the endpoints of B *)
Apart(a, B) ==
  \A b \in B, p \in FilePaths, q \in Path :
    Root[b] \o p \in Prefixes(Root[a] \o q) => Root[b] \o p = Root[a] \o q /\ q \in FilePaths

(* What a has found out about its path still holds. *)
Careful(P, a) ==
  /\ pc[a] = "lookup" /\ n[a] < Len(Full(a)) => cur[a] \in Live \cup {Top}
  /\ pc[a] \in {"folders", "mkfolder"} /\ op[a].kind = "write" => \A i \in Live : P[i] # Full(a)
  /\ pc[a] = "mkfolder" /\ IsFolder(cur[a]) =>
       \A i \in Live : P[i] # SubSeq(dir[a], 1, n[a] + 1)

(* the top has a path of its own *)
LEMMA TopAlone ==
  ASSUME RemoteOK, NEW P, Placed(P)
  PROVE  \A i \in Live : P[i] # P[Top]
<1> SUFFICES ASSUME NEW i \in Live PROVE P[i] # <<>>
  BY DEF Placed
<1>1. P[remote[i].parent] \in Seq(Name) /\ remote[i].name \in Name
  BY Names DEF Placed, Live
<1>2. P[i] = Append(P[remote[i].parent], remote[i].name)
  BY DEF Placed
<1> QED
  BY <1>1, <1>2, AppendIs

LEMMA Parents ==
  ASSUME RemoteOK, NEW P, Placed(P), NEW i \in Live, NEW s \in Seq(Name), NEW x \in Name,
         P[i] = Append(s, x)
  PROVE  /\ remote[i].parent \in Live \cup {Top} /\ P[remote[i].parent] = s
         /\ remote[i].name = x
<1>1. /\ remote[i].parent \in Live \cup {Top} /\ remote[i].name \in Name
      /\ P[remote[i].parent] \in Seq(Name)
  BY Names DEF Placed, Live
<1>2. P[i] = Append(P[remote[i].parent], remote[i].name)
  BY DEF Placed
<1>3. PICK t \in Seq(Name), y \in Name : t = P[remote[i].parent] /\ y = remote[i].name
  BY <1>1
<1>4. Append(s, x) = Append(t, y)
  BY <1>2, <1>3
<1>5. s = t /\ x = y
  BY <1>4, AppendOne
<1> QED
  BY <1>1, <1>3, <1>5

(* Every beginning of an entry's path has an entry. *)
AllAbove(P, i) == \A k \in 0..Len(P[i]) : \E j \in Live \cup {Top} : P[j] = SubSeq(P[i], 1, k)

LEMMA AboveParent ==
  ASSUME NEW P, NEW l \in Live, NEW up, NEW s \in Seq(Name), NEW x \in Name,
         P[up] = s, P[l] = Append(s, x), AllAbove(P, up)
  PROVE  AllAbove(P, l)
<1> DEFINE t == Append(s, x)
<1>1. t \in Seq(Name) /\ Len(t) = Len(s) + 1 /\ Len(s) \in Nat
  BY AppendIs, LenProperties
<1>2. \A i \in 1..Len(s) : t[i] = s[i]
  BY AppendProperties
<1> HIDE DEF t
<1>3. P[l] = t
  BY DEF t
<1>4. ASSUME NEW k \in 0..Len(t) PROVE \E j \in Live \cup {Top} : P[j] = SubSeq(t, 1, k)
  <2>1. CASE k = Len(t)
    <3>1. SubSeq(t, 1, k) = t
      BY <1>1, <2>1, SubEnds
    <3> QED
      BY <1>3, <3>1
  <2>2. CASE k # Len(t)
    <3>1. k \in 0..Len(s) /\ 1..k \subseteq 1..Len(s)
      BY <1>1, <1>4, <2>2
    <3>2. /\ SubSeq(s, 1, k) \in Seq(Name) /\ Len(SubSeq(s, 1, k)) = k
          /\ \A i \in 1..k : SubSeq(s, 1, k)[i] = s[i]
      BY <3>1, SubSeqIs
    <3>3. /\ SubSeq(t, 1, k) \in Seq(Name) /\ Len(SubSeq(t, 1, k)) = k
          /\ \A i \in 1..k : SubSeq(t, 1, k)[i] = t[i]
      BY <1>1, <1>4, SubSeqIs
    <3>4. \A i \in 1..k : SubSeq(t, 1, k)[i] = SubSeq(s, 1, k)[i]
      BY <1>2, <3>1, <3>2, <3>3
    <3>5. SubSeq(t, 1, k) = SubSeq(s, 1, k)
      BY <3>2, <3>3, <3>4, SeqEqual
    <3> QED
      BY <3>1, <3>5 DEF AllAbove
  <2> QED
    BY <2>1, <2>2
<1> QED
  BY <1>3, <1>4 DEF AllAbove

(* Whatever is there lies in folders that are there. *)
LEMMA Above ==
  ASSUME RemoteOK, NEW P, Placed(P)
  PROVE  \A i \in Live : AllAbove(P, i)
<1> DEFINE Bad == {l \in Live : ~AllAbove(P, l)}
<1>1. SUFFICES ASSUME Bad # {} PROVE FALSE
  OBVIOUS
<1>2. Bad \subseteq Nat
  BY DEF Live, Id
<1>3. PICK l \in Bad : \A k \in Bad : l <= k
  <2> HIDE DEF Bad
  <2> QED
    BY <1>1, <1>2, Least
<1>4. PICK up, s, x : up = remote[l].parent /\ s = P[up] /\ x = remote[l].name
  OBVIOUS
<1>5. /\ l \in Live /\ up \in Live \cup {Top} /\ x \in Name
      /\ P[l] = Append(s, x) /\ up < l /\ l \in Nat /\ up \in Nat
  <2>1. l \in Live
    OBVIOUS
  <2> HIDE DEF Bad
  <2>2. up \in Live \cup {Top} /\ x \in Name
    BY <1>4, <2>1, Names
  <2>3. P[l] = Append(s, x)
    BY <1>4, <2>1 DEF Placed
  <2>4. up < l
    BY <1>4, <2>1 DEF RemoteOK, Older
  <2>5. l \in Nat /\ up \in Nat
    BY <2>1, <2>2, DriveAssumption DEF Live, Id, Top
  <2> QED
    BY <2>1, <2>2, <2>3, <2>4, <2>5
<1>6. s \in Seq(Name)
  BY <1>4, <1>5 DEF Placed, Live
<1>7. AllAbove(P, up)
  <2>1. CASE up = Top
    <3>1. P[up] = <<>> /\ Len(<<>>) = 0 /\ <<>> \in Seq(Name)
      BY <2>1, EmptySeq DEF Placed
    <3>2. SubSeq(P[up], 1, 0) = P[up] /\ Len(P[up]) = 0
      BY <3>1, SubEnds
    <3> QED
      BY <2>1, <3>2 DEF AllAbove
  <2>2. CASE up \in Live
    <3>1. ~(l <= up)
      BY <1>5
    <3> QED
      BY <1>3, <2>2, <3>1
  <2> QED
    BY <1>5, <2>1, <2>2
<1>8. AllAbove(P, l)
  BY <1>4, <1>5, <1>6, <1>7, AboveParent
<1> QED
  BY <1>3, <1>8

(* Whatever is at a path lies in the one folder of the path above it. *)
LEMMA InOneFolder ==
  ASSUME RemoteOK, NEW P, Placed(P), NoTwins(P), NEW s \in Key, NEW k \in Nat, k < Len(s),
         NEW c \in Live \cup {Top}, P[c] = SubSeq(s, 1, k),
         NEW i \in Live, P[i] = SubSeq(s, 1, k + 1)
  PROVE  i \in Children(c, s[k + 1])
<1>1. /\ s[k + 1] \in Name /\ SubSeq(s, 1, k) \in Seq(Name)
      /\ SubSeq(s, 1, k + 1) = Append(SubSeq(s, 1, k), s[k + 1])
  BY PathParts, Keys
<1>2. /\ remote[i].parent \in Live \cup {Top} /\ P[remote[i].parent] = SubSeq(s, 1, k)
      /\ remote[i].name = s[k + 1]
  <2>1. PICK t \in Seq(Name), x \in Name : t = SubSeq(s, 1, k) /\ x = s[k + 1]
    BY <1>1
  <2>2. P[i] = Append(t, x)
    BY <1>1, <2>1
  <2>3. /\ remote[i].parent \in Live \cup {Top} /\ P[remote[i].parent] = t
        /\ remote[i].name = x
    BY <2>2, Parents
  <2> QED
    BY <2>1, <2>3
<1>3. remote[i].parent = c
  <2>1. PICK d \in Live \cup {Top} : d = remote[i].parent /\ P[d] = P[c]
    BY <1>2
  <2>2. d = c
    BY <2>1, TopAlone DEF NoTwins
  <2> QED
    BY <2>1, <2>2
<1> QED
  BY <1>2, <1>3 DEF Children

(* A search that finds nothing proves that nothing is at the path. *)
LEMMA NobodyAt ==
  ASSUME RemoteOK, NEW P, Placed(P), NoTwins(P), NEW s \in Key, NEW k \in Nat, k < Len(s),
         NEW c \in Live \cup {Top}, P[c] = SubSeq(s, 1, k), Children(c, s[k + 1]) = {}
  PROVE  \A i \in Live : P[i] # s
<1> SUFFICES ASSUME NEW i \in Live, P[i] = s PROVE FALSE
  OBVIOUS
<1>1. k + 1 \in 0..Len(s) /\ Len(s) \in Nat /\ s \in Seq(Name)
  BY PathParts, Keys
<1>2. PICK j \in Live \cup {Top} : P[j] = SubSeq(s, 1, k + 1)
  BY <1>1, Above DEF AllAbove
<1>3. Len(P[j]) = k + 1
  BY <1>1, <1>2, SubSeqIs
<1>4. j # Top
  BY <1>3, EmptySeq DEF Placed
<1> QED
  BY <1>2, <1>4, InOneFolder

(* What a makes folders of is on the way to a path of a, and no file.      *)
LEMMA OnTheWay ==
  ASSUME CallsOK, NEW a \in Adapter, Named(a), pc[a] \in {"folders", "mkfolder"},
         NEW m \in 0..Len(dir[a])
  PROVE  \E q \in Path : /\ SubSeq(dir[a], 1, m) \in Prefixes(Root[a] \o q)
                         /\ SubSeq(dir[a], 1, m) = Root[a] \o q => q \notin FilePaths
<1>1. /\ dir[a] = Target(a) /\ op[a].kind \in {"open", "mkdir", "write"} /\ Fits(a)
      /\ dir[a] \in Seq(Name)
  BY Keys DEF CallsOK, Fits
<1>2. CASE op[a].kind = "write"
  <2>1. PICK s \in Seq(Name), d \in Seq(Name), l \in Nat :
          /\ s = Full(a) /\ d = dir[a] /\ l = Len(s)
    BY <1>1, CallPaths, LenProperties
  <2>2. /\ l > 1 /\ d = SubSeq(s, 1, l - 1)
        /\ op[a].path \in Path /\ s = Root[a] \o op[a].path
    BY <1>1, <1>2, <2>1, CallPaths DEF Target, Full
  <2>3. l - 1 \in 0..l
    BY <2>2
  <2>4. Len(d) = l - 1
    BY <2>1, <2>2, <2>3, SubSeqIs
  <2>5. m \in 0..l - 1
    BY <2>1, <2>4
  <2>6. m \in 0..l /\ m # l
    BY <2>5
  <2>7. SubSeq(d, 1, m) = SubSeq(s, 1, m)
    BY <2>1, <2>2, <2>3, <2>5, SubSub
  <2>8. Len(SubSeq(s, 1, m)) = m
    BY <2>1, <2>6, SubSeqIs
  <2>9. SubSeq(s, 1, m) # s /\ SubSeq(s, 1, m) \in Prefixes(s)
    BY <2>1, <2>6, <2>8 DEF Prefixes
  <2> QED
    BY <2>1, <2>2, <2>7, <2>9
<1>3. CASE op[a].kind = "mkdir"
  <2>1. /\ dir[a] = Root[a] \o op[a].path /\ op[a].path \in Path /\ op[a].path \notin FilePaths
    BY <1>1, <1>3, DriveAssumption DEF Target, Full, Fits, Path
  <2> QED
    BY <2>1 DEF Prefixes
<1>4. CASE op[a].kind = "open"
  <2>1. dir[a] = Root[a] /\ Root[a] \in Seq(Name)
    BY <1>1, <1>4, CallPaths DEF Target
  <2>2. PICK q \in Path : TRUE
    BY DriveAssumption
  <2>3. q \in Seq(Name) /\ q # <<>>
    BY DriveAssumption
  <2>4. PICK r \in Seq(Name) : r = Root[a]
    BY <2>1
  <2>5. /\ r \o q \in Seq(Name) /\ Len(r) \in 0..Len(r \o q) /\ Len(r) < Len(r \o q)
        /\ SubSeq(r \o q, 1, m) = SubSeq(r, 1, m)
    BY <2>1, <2>3, <2>4, BeginningOfConcat
  <2>6. m \in 0..Len(r) /\ Len(r) \in Nat
    BY <2>1, <2>4, LenProperties
  <2>7. Len(r \o q) \in Nat
    BY <2>5, LenProperties
  <2>8. m \in 0..Len(r \o q) /\ m # Len(r \o q)
    BY <2>5, <2>6, <2>7
  <2>9. Len(SubSeq(r, 1, m)) = m
    BY <2>6, SubSeqIs
  <2>10. SubSeq(r, 1, m) # r \o q
    BY <2>8, <2>9
  <2> QED
    BY <2>1, <2>2, <2>4, <2>5, <2>8, <2>10 DEF Prefixes
<1> QED
  BY <1>1, <1>2, <1>3, <1>4

(* So what is there is a folder. *)
LEMMA FoldersOnly ==
  ASSUME RemoteOK, CallsOK, NEW a \in Adapter, Named(a), pc[a] \in {"folders", "mkfolder"},
         NEW m \in 0..Len(dir[a]), NEW P, NEW B, FilesOf(P, B), Apart(a, B),
         NEW i \in Live, P[i] = SubSeq(dir[a], 1, m)
  PROVE  IsFolder(i)
<1>1. PICK q \in Path : /\ SubSeq(dir[a], 1, m) \in Prefixes(Root[a] \o q)
                        /\ SubSeq(dir[a], 1, m) = Root[a] \o q => q \notin FilePaths
  BY OnTheWay
<1>2. SUFFICES ASSUME remote[i].kind = "file" PROVE FALSE
  BY Names DEF IsFolder
<1>3. PICK b \in B, p \in FilePaths : P[i] = Root[b] \o p
  BY <1>2 DEF FilesOf
<1>4. PICK f, g : f = Root[b] \o p /\ g = Root[a] \o q
  OBVIOUS
<1>5. f \in Prefixes(g) /\ (f = g => q \notin FilePaths)
  BY <1>1, <1>3, <1>4
<1>6. f \in Prefixes(g) => f = g /\ q \in FilePaths
  BY <1>4, Zenon DEF Apart
<1> QED
  BY <1>5, <1>6

LEMMA NoTwinsMove ==
  ASSUME RemoteOK, CallsOK, NEW a \in Adapter, Moves(a), NEW P, NEW Q, Grows(P, Q), NoTwins(P),
         \A i \in Live' \ Live : \A j \in Live : P[j] # Q[i]
  PROVE  NoTwins(Q)'
<1>1. \A i \in Live : Q[i] = P[i]
  BY RemoteFacts DEF Grows
<1>2. \A i, j \in Live' \ Live : i = j
  BY DriveMoves
<1> SUFFICES ASSUME NEW i \in Live', NEW j \in Live', Q[i] = Q[j] PROVE i = j
  BY DEF NoTwins
<1>3. CASE i \in Live /\ j \in Live
  BY <1>1, <1>3 DEF NoTwins
<1>4. CASE i \notin Live /\ j \notin Live
  BY <1>2, <1>4
<1> QED
  BY <1>1, <1>3, <1>4

(* the files stay where they were made *)
LEMMA FilesMove ==
  ASSUME RemoteOK, RemoteOK', CallsOK, NEW a \in Adapter, Moves(a), NEW P, Placed(P),
         NEW Q, Grows(P, Q), NEW B, FilesOf(P, B), remote' = remote \/ (a \in B /\ Named(a))
  PROVE  FilesOf(Q, B)'
<1> SUFFICES ASSUME NEW i \in Live', remote'[i].kind = "file"
             PROVE  \E b \in B, p \in FilePaths : Q[i] = Root[b] \o p
  BY DEF FilesOf
<1>1. CASE i \in Live
  <2>1. remote[i].kind = "file" /\ Q[i] = P[i]
    BY <1>1, DriveMoves, RemoteFacts DEF Grows
  <2> QED
    BY <1>1, <2>1 DEF FilesOf
<1>2. CASE i \notin Live
  <2>1. (MakesFolder(a) \/ MakesFile(a)) /\ i = NextId
    BY <1>2, DriveMoves
  <2>2. a \in B /\ Named(a)
    BY <1>2, Same
  <2>3. ~MakesFolder(a)
    <3>1. MakesFolder(a) => remote'[NextId] = Node(dir[a][n[a] + 1], cur[a], "folder", NoContent)
      BY NewFolder
    <3> QED
      BY <2>1, <3>1, States
  <2>4. Q[i] = Full(a)
    BY <2>1, <2>2, <2>3, NewFileAt
  <2>5. op[a].path \in FilePaths
    BY <2>1, <2>3 DEF MakesFile, CallsOK, Fits
  <2> QED
    BY <2>2, <2>4, <2>5 DEF Full
<1> QED
  BY <1>1, <1>2

(* Whoever moves makes nothing that is there already. *)
LEMMA MakesNoTwin ==
  ASSUME RemoteOK, CallsOK, NEW a \in Adapter, Moves(a), NEW P, Placed(P), NEW Q, Grows(P, Q),
         Placed(Q)', Named(a), NoTwins(P), Careful(P, a)
  PROVE  NoTwins(Q)'
<1> SUFFICES ASSUME NEW i \in Live' \ Live PROVE \A j \in Live : P[j] # Q[i]
  BY NoTwinsMove
<1>1. (MakesFolder(a) \/ MakesFile(a)) /\ i = NextId
  BY DriveMoves
<1>2. CASE MakesFolder(a)
  <2>1. /\ pc'[a] = "folders" /\ cur'[a] = NextId /\ n'[a] = n[a] + 1 /\ dir'[a] = dir[a]
        /\ pc[a] = "mkfolder" /\ IsFolder(cur[a])
    BY <1>2 DEF MakesFolder
  <2>2. Q[cur'[a]] = SubSeq(dir'[a], 1, n'[a])
    BY <2>1 DEF Placed
  <2>3. Q[i] = SubSeq(dir[a], 1, n[a] + 1)
    BY <1>1, <2>1, <2>2
  <2> QED
    BY <2>1, <2>3 DEF Careful
<1>3. CASE MakesFile(a)
  <2>1. Q[i] = Full(a)
    BY <1>1, <1>3, NewFileAt
  <2>2. pc[a] = "folders" /\ op[a].kind = "write"
    BY <1>3 DEF MakesFile
  <2> QED
    BY <2>1, <2>2 DEF Careful
<1> QED
  BY <1>1, <1>2, <1>3

LEMMA CarefulMove ==
  ASSUME RemoteOK, RemoteOK', CallsOK, NEW a \in Adapter, Moves(a), NEW P, Placed(P),
         NEW Q, Grows(P, Q), Placed(Q)', Named(a), NEW B, FilesOf(P, B), Apart(a, B),
         NoTwins(P), Careful(P, a)
  PROVE  Careful(Q, a)'
<1>0. \A i \in Live : Q[i] = P[i]
  BY RemoteFacts DEF Grows
<1>1. CASE Starts(a)
  <2>1. Full(a)' \in Seq(Name)
    <3>1. op'[a].path \in Path \cup {<<>>} /\ Root[a] \in Seq(Name)
      BY <1>1, DriveAssumption DEF Starts
    <3>2. op'[a].path \in Seq(Name)
      BY <3>1, DriveAssumption, EmptySeq
    <3> QED
      BY <3>1, <3>2, ConcatProperties DEF Full
  <2>2. PICK l \in Nat : l = Len(Full(a)')
    BY <2>1, LenProperties
  <2>3. cur'[a] = Top \/ n'[a] = l
    BY <1>1, <2>2 DEF Starts, Enters
  <2>4. pc'[a] = "lookup" /\ n'[a] < Len(Full(a)') => cur'[a] \in Live' \cup {Top}
    BY <2>2, <2>3
  <2>5. pc'[a] \in {"lookup", "folders"} /\ (pc'[a] = "folders" => op'[a].kind # "write")
    BY <1>1 DEF Starts
  <2> HIDE DEF Full
  <2> QED
    BY <2>4, <2>5 DEF Careful
<1>2. CASE Ends(a) \/ MakesFile(a) \/ Updates(a) \/ Deletes(a) \/ Opens(a)
  <2>1. pc'[a] \in {"idle", "closed"}
    BY <1>2 DEF Ends, MakesFile, Updates, Deletes, Opens
  <2> QED
    BY <2>1 DEF Careful
<1>3. CASE Finds(a)
  <2>1. pc'[a] = "lookup" /\ cur'[a] \in Live'
    BY <1>3, Same DEF Finds, Still, Children
  <2> QED
    BY <2>1 DEF Careful
<1>4. CASE TurnsToFolders(a)
  <2>1. /\ pc[a] = "lookup" /\ n[a] < Len(Full(a)) /\ pc'[a] = "folders" /\ op'[a] = op[a]
        /\ Children(cur[a], Full(a)[n[a] + 1]) = {} /\ Live' = Live
    BY <1>4, Same DEF TurnsToFolders, Still, SameCall
  <2>2. cur[a] \in Live \cup {Top} /\ P[cur[a]] = SubSeq(Full(a), 1, n[a])
    BY <2>1 DEF Careful, Placed
  <2>3. Full(a) \in Key /\ n[a] \in Nat /\ Full(a)' = Full(a)
    BY <2>1, CallPaths, SamePaths DEF CallsOK
  <2>4. \A i \in Live : P[i] # Full(a)
    BY <2>1, <2>2, <2>3, NobodyAt
  <2> HIDE DEF Full
  <2> QED
    BY <1>0, <2>1, <2>3, <2>4 DEF Careful
<1>5. CASE FindsFolder(a)
  <2>1. pc[a] = "folders" /\ pc'[a] = "folders" /\ op'[a] = op[a] /\ Live' = Live /\ Full(a)' = Full(a)
    BY <1>5, Same, SamePaths DEF FindsFolder, Still, SameCall
  <2> HIDE DEF Full
  <2> QED
    BY <1>0, <2>1 DEF Careful
<1>6. CASE FindsNoFolder(a)
  <2>1. /\ pc[a] = "folders" /\ pc'[a] = "mkfolder" /\ op'[a] = op[a] /\ Live' = Live
        /\ Full(a)' = Full(a) /\ remote' = remote /\ dir'[a] = dir[a]
    BY <1>6, Same, SamePaths DEF FindsNoFolder, Still, SameCall
  <2>2. PICK k \in Nat, c \in Given \cup {Top} :
          /\ k = Passed(a) /\ c = InFolder(a) /\ k < Len(dir[a]) /\ k + 1 \in 0..Len(dir[a])
    <3>1. PICK k, c, l : k = Passed(a) /\ c = InFolder(a) /\ l = Len(dir[a])
      OBVIOUS
    <3>2. k \in n[a]..l /\ l \in Nat /\ n[a] \in Nat /\ c \in Given \cup {Top} /\ k # l
      <4>1. /\ Passed(a) \in n[a]..Len(dir[a]) /\ Len(dir[a]) \in Nat
            /\ InFolder(a) \in Given \cup {Top}
        BY <2>1, PassedIs
      <4>2. n[a] \in Nat /\ Passed(a) # Len(dir[a])
        BY <1>6 DEF FindsNoFolder, CallsOK
      <4> HIDE DEF Passed, InFolder, Given
      <4> QED
        BY <3>1, <4>1, <4>2
    <3>3. k \in Nat /\ k < l /\ k + 1 \in 0..l
      BY <3>2
    <3> QED
      BY <3>1, <3>2, <3>3
  <2>3. /\ n'[a] = k /\ cur'[a] = c /\ P[c] = SubSeq(dir[a], 1, k)
        /\ \A i \in Children(c, dir[a][k + 1]) : ~IsFolder(i)
    BY <1>6, <2>1, <2>2, PathFacts DEF FindsNoFolder
  <2>4. ASSUME c \in Live \cup {Top}, NEW i \in Live PROVE P[i] # SubSeq(dir[a], 1, k + 1)
    <3>1. SUFFICES ASSUME P[i] = SubSeq(dir[a], 1, k + 1) PROVE FALSE
      OBVIOUS
    <3>2. IsFolder(i)
      BY <2>1, <2>2, <3>1, FoldersOnly
    <3>3. dir[a] \in Key
      BY DEF CallsOK
    <3>4. i \in Children(c, dir[a][k + 1])
      BY <2>2, <2>3, <2>4, <3>1, <3>3, InOneFolder
    <3> QED
      BY <2>3, <3>2, <3>4
  <2>5. IsFolder(cur[a])' => c \in Live \cup {Top}
    BY <2>1, <2>3 DEF IsFolder
  <2> HIDE DEF Full
  <2> QED
    BY <1>0, <2>1, <2>3, <2>4, <2>5 DEF Careful
<1>7. CASE MakesFolder(a)
  <2>1. /\ pc[a] = "mkfolder" /\ pc'[a] = "folders" /\ op'[a] = op[a] /\ cur'[a] = NextId
        /\ Full(a)' = Full(a) /\ dir'[a] = dir[a] /\ n'[a] = n[a] + 1
    BY <1>7, SamePaths DEF MakesFolder, SameCall
  <2>2. Live' = Live \cup {NextId} /\ n[a] + 1 \in 0..Len(dir[a])
    BY <1>7, NewFolder
  <2>3. Q[NextId] = SubSeq(dir[a], 1, n[a] + 1)
    <3>1. Q[cur'[a]] = SubSeq(dir'[a], 1, n'[a])
      BY <2>1 DEF Placed
    <3> QED
      BY <2>1, <3>1
  <2>4. ASSUME op[a].kind = "write" PROVE SubSeq(dir[a], 1, n[a] + 1) # Full(a)
    <3>1. dir[a] = Target(a)
      BY <2>1 DEF CallsOK, Fits
    <3>2. PICK s \in Seq(Name), l \in Nat : s = Full(a) /\ l = Len(s)
      BY CallPaths, LenProperties
    <3>3. l > 1 /\ dir[a] = SubSeq(s, 1, l - 1)
      BY <2>4, <3>1, <3>2, CallPaths DEF Target
    <3>4. l - 1 \in 0..l
      BY <3>3
    <3>5. Len(dir[a]) = l - 1 /\ dir[a] \in Seq(Name)
      BY <3>2, <3>3, <3>4, SubSeqIs
    <3>6. n[a] + 1 # l
      BY <2>2, <3>5
    <3>7. Len(SubSeq(dir[a], 1, n[a] + 1)) = n[a] + 1
      BY <2>2, <3>5, SubSeqIs
    <3> QED
      BY <3>2, <3>6, <3>7
  <2> HIDE DEF Full, NextId, Live
  <2> QED
    BY <1>0, <2>1, <2>2, <2>3, <2>4 DEF Careful
<1> QED
  BY <1>1, <1>2, <1>3, <1>4, <1>5, <1>6, <1>7 DEF Moves

(* Nobody else's findings are touched by a step that leaves Drive alone. *)
LEMMA CarefulStays ==
  ASSUME RemoteOK, CallsOK, NEW a \in Adapter, Only(a), NEW c \in Adapter, c # a,
         remote' = remote \/ ~Busy(c), NEW P, NEW Q, Grows(P, Q), Careful(P, c)
  PROVE  Careful(Q, c)'
<1>0. \A i \in Live : Q[i] = P[i]
  BY RemoteFacts DEF Grows
<1>1. /\ pc'[c] = pc[c] /\ op'[c] = op[c] /\ dir'[c] = dir[c] /\ n'[c] = n[c] /\ cur'[c] = cur[c]
      /\ Full(c)' = Full(c)
  BY Others
<1>2. CASE ~Busy(c)
  <2>1. pc'[c] \notin {"lookup", "folders", "mkfolder"}
    BY <1>1, <1>2 DEF Busy, CallsOK
  <2> QED
    BY <2>1 DEF Careful
<1>3. CASE remote' = remote
  <2>1. Live' = Live /\ \A i : IsFolder(i)' <=> IsFolder(i)
    BY <1>3 DEF Live, IsFolder
  <2>2. IsFolder(cur[c])' => IsFolder(cur[c])
    BY <1>1, <1>3 DEF Live, IsFolder
  <2> HIDE DEF Full, IsFolder
  <2> QED
    BY <1>0, <1>1, <2>1, <2>2 DEF Careful
<1> QED
  BY <1>2, <1>3

LEMMA WhoChanges ==
  ASSUME NEW a \in Adapter, Moves(a)
  PROVE  /\ remote' = remote \/ Busy(a)
         /\ \/ overlapped' = overlapped
            \/ Starts(a) /\ overlapped' = (overlapped \/ \E b \in Adapter \ {a} : Busy(b))
<1>1. CASE Starts(a)
  <2>1. overlapped' = (overlapped \/ \E b \in Adapter \ {a} : Busy(b))
    BY <1>1 DEF Starts, Busy
  <2> QED
    BY <1>1, <2>1 DEF Starts
<1>2. CASE MakesFolder(a) \/ MakesFile(a) \/ Updates(a) \/ Deletes(a)
  BY <1>2 DEF Busy, MakesFolder, MakesFile, Makes, Updates, Deletes, Found
<1>3. CASE Still
  BY <1>3 DEF Still
<1> QED
  BY <1>1, <1>2, <1>3
     DEF Moves, Ends, Finds, TurnsToFolders, FindsFolder, FindsNoFolder, Opens

AllNamed == \A a \in Adapter : Named(a)

(* calls that take turns *)
Alternate == \A a, b \in Adapter : Busy(a) /\ Busy(b) => a = b

TwinsInv ==
  /\ Typed
  /\ \E P : /\ Placed(P)
            /\ AllNamed => FilesOf(P, Adapter)
            /\ AllNamed /\ ~overlapped =>
                 Alternate /\ NoTwins(P) /\ \A a \in Adapter : Careful(P, a)

(* No endpoint's path leads through another's file.                        *)
FilesApart == \A a \in Adapter : Apart(a, Adapter)

(* An endpoint's own files are apart from its paths. *)
LEMMA EndpointOf ==
  ASSUME NEW a \in Adapter, NEW p \in FilePaths, NEW q \in Path,
         Root[a] \o p \in Prefixes(Root[a] \o q)
  PROVE  p = q
<1>1. PICK r \in Seq(Name) : r = Root[a]
  BY DriveAssumption
<1>2. p \in Seq(Name) /\ q \in Seq(Name) /\ p \in Path
  BY DriveAssumption DEF Path
<1>3. PICK k \in 0..Len(r \o q) : r \o p = SubSeq(r \o q, 1, k)
  BY <1>1 DEF Prefixes
<1>4. PICK lr \in Nat, lp \in Nat, lq \in Nat : lr = Len(r) /\ lp = Len(p) /\ lq = Len(q)
  BY <1>1, <1>2, LenProperties
<1>5. /\ r \o q \in Seq(Name) /\ Len(r \o q) = lr + lq
      /\ \A i \in 1..lr + lq : (r \o q)[i] = IF i <= lr THEN r[i] ELSE q[i - lr]
  BY <1>1, <1>2, <1>4, ConcatProperties
<1>6. /\ r \o p \in Seq(Name) /\ Len(r \o p) = lr + lp
      /\ \A i \in 1..lr + lp : (r \o p)[i] = IF i <= lr THEN r[i] ELSE p[i - lr]
  BY <1>1, <1>2, <1>4, ConcatProperties
<1>7. Len(SubSeq(r \o q, 1, k)) = k /\ \A i \in 1..k : SubSeq(r \o q, 1, k)[i] = (r \o q)[i]
  BY <1>3, <1>5, SubSeqIs
<1>8. k = lr + lp /\ lp <= lq /\ lp \in 0..lq
  <2>1. k = lr + lp
    BY <1>3, <1>6, <1>7
  <2>2. k \in 0..lr + lq
    BY <1>3, <1>5
  <2> QED
    BY <2>1, <2>2
<1>9. ASSUME NEW i \in 1..lp PROVE p[i] = q[i]
  <2>1. PICK j \in Nat : j = lr + i
    OBVIOUS
  <2>2. j \in 1..lr + lp /\ j \in 1..lr + lq /\ ~(j <= lr) /\ j - lr = i /\ j \in 1..k
    BY <1>8, <1>9, <2>1
  <2>3. (r \o p)[j] = p[i] /\ (r \o q)[j] = q[i]
    BY <1>5, <1>6, <2>2
  <2>4. (r \o p)[j] = (r \o q)[j]
    BY <1>3, <1>7, <2>2
  <2> QED
    BY <2>3, <2>4
<1>10. SubSeq(q, 1, lp) = p
  <2>1. /\ SubSeq(q, 1, lp) \in Seq(Name) /\ Len(SubSeq(q, 1, lp)) = lp
        /\ \A i \in 1..lp : SubSeq(q, 1, lp)[i] = q[i]
    BY <1>2, <1>4, <1>8, SubSeqIs
  <2>2. \A i \in 1..lp : SubSeq(q, 1, lp)[i] = p[i]
    BY <1>9, <2>1
  <2> QED
    BY <1>2, <1>4, <2>1, <2>2, SeqEqual
<1>11. p \in Prefixes(q)
  BY <1>4, <1>8, <1>10 DEF Prefixes
<1> QED
  BY <1>11, DriveAssumption

(* Adapters of one endpoint are apart. *)
LEMMA OneEndpoint ==
  ASSUME \A a, b \in Adapter : Root[a] = Root[b]
  PROVE  FilesApart
<1> SUFFICES ASSUME NEW a \in Adapter, NEW b \in Adapter, NEW p \in FilePaths, NEW q \in Path,
                    Root[b] \o p \in Prefixes(Root[a] \o q)
             PROVE  Root[b] \o p = Root[a] \o q /\ q \in FilePaths
  BY DEF FilesApart, Apart
<1> QED
  BY EndpointOf

LEMMA AlternateMove ==
  ASSUME CallsOK, NEW a \in Adapter, Only(a), Moves(a), Alternate, ~overlapped, ~overlapped'
  PROVE  Alternate'
<1>1. \A b \in Adapter : b # a => (Busy(b)' <=> Busy(b))
  BY Others DEF Busy
<1>2. Busy(a) \/ ~Busy(a)' \/ \A b \in Adapter : b # a => ~Busy(b)
  <2>1. CASE Starts(a)
    BY <2>1 DEF Starts, Busy
  <2>2. CASE Ends(a)
    BY <2>2 DEF Ends, Busy
  <2>3. CASE ~Starts(a) /\ ~Ends(a)
    BY <2>3 DEF Busy, Moves, Finds, TurnsToFolders, FindsFolder, FindsNoFolder, Opens,
                MakesFolder, MakesFile, Updates, Deletes, Found
  <2> QED
    BY <2>1, <2>2, <2>3
<1> HIDE DEF Busy
<1> QED
  BY <1>1, <1>2 DEF Alternate

LEMMA TwinsMove ==
  ASSUME FilesApart, RemoteOK, RemoteOK', CallsOK, NEW a \in Adapter, Only(a), Moves(a),
         NEW P, Placed(P), NEW Q, Grows(P, Q), Placed(Q)', AllNamed, FilesOf(P, Adapter),
         ~overlapped', Alternate, NoTwins(P), \A c \in Adapter : Careful(P, c), ~overlapped
  PROVE  Alternate' /\ NoTwins(Q)' /\ \A c \in Adapter : Careful(Q, c)'
<1>1. Alternate'
  BY AlternateMove
<1>2. Named(a) /\ Apart(a, Adapter)
  BY DEF AllNamed, FilesApart
<1>3. NoTwins(Q)'
  BY <1>2, MakesNoTwin
<1>4. Careful(Q, a)'
  BY <1>2, CarefulMove
<1>5. ASSUME NEW c \in Adapter, c # a PROVE Careful(Q, c)'
  <2>1. remote' = remote \/ ~Busy(c)
    BY <1>5, WhoChanges DEF Alternate
  <2> QED
    BY <1>5, <2>1, CarefulStays
<1> QED
  BY <1>1, <1>3, <1>4, <1>5

LEMMA TwinsInit == Init => TwinsInv
<1> SUFFICES ASSUME Init PROVE TwinsInv
  OBVIOUS
<1>1. PICK P : P = [i \in Id \cup {Top} |-> <<>>]
  OBVIOUS
<1>2. Placed(P)
  BY <1>1, PlacedInit
<1>3. Live = {}
  BY States DEF Init, Live
<1>4. FilesOf(P, Adapter) /\ NoTwins(P)
  BY <1>3 DEF FilesOf, NoTwins
<1>5. Alternate /\ \A a \in Adapter : Careful(P, a)
  BY DEF Init, Alternate, Busy, Careful
<1> QED
  BY <1>2, <1>4, <1>5, TypedInit DEF TwinsInv

LEMMA TwinsNext == FilesApart /\ TwinsInv /\ [Next]_vars => TwinsInv'
<1> SUFFICES ASSUME FilesApart, TwinsInv, [Next]_vars PROVE TwinsInv'
  OBVIOUS
<1>1. RemoteOK /\ CallsOK /\ Typed' /\ RemoteOK' /\ CallsOK'
  BY TypedNext DEF TwinsInv, Typed
<1>2. PICK P : /\ Placed(P)
               /\ AllNamed => FilesOf(P, Adapter)
               /\ AllNamed /\ ~overlapped =>
                    Alternate /\ NoTwins(P) /\ \A a \in Adapter : Careful(P, a)
  BY DEF TwinsInv
<1>0. AllNamed' <=> AllNamed
  BY DEF AllNamed, Named
<1>3. CASE Next
  <2>1. PICK a \in Adapter : Only(a) /\ Moves(a)
    BY <1>1, <1>3, NextMoves
  <2>2. PICK Q : Grows(P, Q)
    BY <1>1, <1>2, <2>1, PathsGrow
  <2>3. Placed(Q)'
    BY <1>1, <1>2, <2>1, <2>2, PlacedMove
  <2>4. AllNamed => FilesOf(Q, Adapter)'
    BY <1>1, <1>2, <2>1, <2>2, FilesMove DEF AllNamed
  <2>5. ~overlapped' => ~overlapped
    BY <2>1, WhoChanges
  <2>6. ASSUME AllNamed, ~overlapped'
        PROVE  Alternate' /\ NoTwins(Q)' /\ \A c \in Adapter : Careful(Q, c)'
    BY <1>1, <1>2, <2>1, <2>2, <2>3, <2>5, <2>6, TwinsMove
  <2> QED
    BY <1>0, <1>1, <2>3, <2>4, <2>6 DEF TwinsInv
<1>4. CASE UNCHANGED vars
  <2>1. Placed(P)'
    BY <1>2, <1>4, SameStutter
  <2>2. Live' = Live /\ remote' = remote /\ overlapped' = overlapped
    BY <1>4 DEF vars, Live
  <2>3. FilesOf(P, Adapter)' <=> FilesOf(P, Adapter)
    BY <2>2 DEF FilesOf
  <2>4. NoTwins(P)' <=> NoTwins(P)
    BY <2>2 DEF NoTwins
  <2>5. Alternate' <=> Alternate
    BY <1>4 DEF vars, Alternate, Busy
  <2>6. \A a \in Adapter : Careful(P, a)' <=> Careful(P, a)
    BY <1>4 DEF vars, Careful, Full, IsFolder, Live
  <2> QED
    BY <1>0, <1>1, <1>2, <2>1, <2>2, <2>3, <2>4, <2>5, <2>6 DEF TwinsInv
<1> QED
  BY <1>3, <1>4

LEMMA TwinsInvIsProperty == TwinsInv => TwinsNeedOverlap
<1> SUFFICES ASSUME TwinsInv, ~overlapped, AllNamed, NEW i \in Live, NEW j \in Live,
                    remote[i].parent = remote[j].parent, remote[i].name = remote[j].name
             PROVE  i = j
  BY DEF TwinsNeedOverlap, AllNamed
<1>1. PICK P : Placed(P) /\ NoTwins(P)
  BY DEF TwinsInv
<1>2. P[i] = P[j]
  BY <1>1 DEF Placed
<1> QED
  BY <1>1, <1>2 DEF NoTwins

(* Adapters whose calls take turns never make two entries of one name in   *)
(* one folder, whatever their caches hold, whichever requests fail and     *)
(* wherever calls break off, as long as no endpoint's path leads through   *)
(* another's file (a folder is looked for among folders only).             *)
THEOREM TwinsOverlap ==
  ASSUME FilesApart
  PROVE  Spec => []TwinsNeedOverlap
<1>1. Spec => []TwinsInv
  BY TwinsInit, TwinsNext, PTL DEF Spec
<1> QED
  BY <1>1, TwinsInvIsProperty, PTL

-----------------------------------------------------------------------------
(* The answers of an adapter that has Drive to itself.                     *)

There(P, a) == {i \in Live \cup {Top} : P[i] = Full(a)}

(* the folders are those that a's paths need *)
FoldersOf(P, a) ==
  \A i \in Live : remote[i].kind = "folder" =>
    \E q \in Path : P[i] \in Prefixes(Root[a] \o q) /\ (P[i] = Root[a] \o q => q \notin FilePaths)

(* Honest, in terms of paths *)
Told(P, a) ==
  pc[a] = "idle" /\ answer[a].result \notin {"none", "failed"} =>
    /\ op[a].kind = "write" => /\ answer[a].result = "ok"
                               /\ \E i \in There(P, a) : IsFile(i) /\ remote[i].content = op[a].content
    /\ op[a].kind \in {"mkdir", "open"} => /\ answer[a].result = "ok"
                                           /\ \E i \in There(P, a) : IsFolder(i)
    /\ op[a].kind = "delete" => There(P, a) = {}
    /\ op[a].kind \in {"exists", "stat", "list"} => (answer[a].result = "ok" <=> There(P, a) # {})
    /\ op[a].kind = "read" =>
         IF answer[a].result = "ok"
           THEN \E i \in There(P, a) : IsFile(i) /\ remote[i].content = answer[a].got
           ELSE There(P, a) = {}

Own(P, a) ==
  /\ Fresh(a) /\ FilesOf(P, {a}) /\ FoldersOf(P, a) /\ NoTwins(P) /\ Careful(P, a) /\ Told(P, a)

LEMMA OwnApart ==
  ASSUME NEW a \in Adapter
  PROVE  Apart(a, {a})
BY EndpointOf DEF Apart

(* What is at the path of a file is a file. *)
LEMMA FileThere ==
  ASSUME RemoteOK, CallsOK, NEW a \in Adapter, op[a].kind \in {"write", "read"}, NEW P,
         FoldersOf(P, a), NEW i \in Live, P[i] = Full(a)
  PROVE  IsFile(i)
<1>1. op[a].path \in FilePaths
  BY DEF CallsOK, Fits
<1>2. SUFFICES ASSUME remote[i].kind = "folder" PROVE FALSE
  BY Names DEF IsFile
<1>3. PICK q \in Path : /\ P[i] \in Prefixes(Root[a] \o q)
                        /\ P[i] = Root[a] \o q => q \notin FilePaths
  BY <1>2 DEF FoldersOf
<1>4. op[a].path = q
  BY <1>1, <1>3, EndpointOf DEF Full
<1> QED
  BY <1>1, <1>3, <1>4 DEF Full

(* What the folders of a call lead to is a folder that is there. *)
LEMMA FolderThere ==
  ASSUME RemoteOK, CallsOK, NEW a \in Adapter, Named(a), NEW P, Placed(P), Fresh(a),
         FilesOf(P, {a})
  PROVE  /\ pc[a] = "mkfolder" => IsFolder(cur[a])
         /\ pc[a] = "folders" => InFolder(a) \in Live \cup {Top} /\ IsFolder(InFolder(a))
<1>1. ASSUME pc[a] = "mkfolder" PROVE IsFolder(cur[a])
  <2>1. cur[a] \in Live \cup {Top} /\ P[cur[a]] = SubSeq(dir[a], 1, n[a])
    BY <1>1 DEF Fresh, Placed
  <2>2. dir[a] \in Seq(Name) /\ n[a] <= Len(dir[a]) /\ n[a] \in Nat
    BY <1>1, Keys DEF CallsOK, Fits
  <2>3. n[a] \in 0..Len(dir[a])
    BY <2>2, LenProperties
  <2>4. CASE cur[a] \in Live
    BY <1>1, <2>1, <2>3, <2>4, FoldersOnly, OwnApart
  <2>5. CASE cur[a] = Top
    BY <2>5 DEF IsFolder
  <2> QED
    BY <2>1, <2>4, <2>5
<1>2. ASSUME pc[a] = "folders" PROVE InFolder(a) \in Live \cup {Top} /\ IsFolder(InFolder(a))
  <2>1. PICK c, k : c = InFolder(a) /\ k = Passed(a)
    OBVIOUS
  <2>2. c \in Live \cup {Top} /\ P[c] = SubSeq(dir[a], 1, k)
    BY <1>2, <2>1, FreshFolder, PathFacts
  <2>3. k \in n[a]..Len(dir[a]) /\ n[a] \in Nat /\ Len(dir[a]) \in Nat
    BY <1>2, <2>1, PassedIs DEF CallsOK
  <2>4. k \in 0..Len(dir[a])
    BY <2>3
  <2>5. CASE c \in Live
    <3>1. IsFolder(c)
      BY <1>2, <2>2, <2>4, <2>5, FoldersOnly, OwnApart
    <3> QED
      BY <2>1, <2>2, <3>1
  <2>6. CASE c = Top
    BY <2>1, <2>6 DEF IsFolder
  <2> QED
    BY <2>2, <2>5, <2>6
<1> QED
  BY <1>1, <1>2

(* What a look-up has found is there. *)
LEMMA FoundThere ==
  ASSUME RemoteOK, CallsOK, NEW a \in Adapter, NEW kind, Found(a, kind), NEW P, Placed(P), Fresh(a)
  PROVE  /\ cur[a] \in Live /\ P[cur[a]] = Full(a) /\ cur[a] \in There(P, a) /\ ~IsGone(cur[a])
         /\ op[a].kind = kind
         /\ kind \in {"write", "read"} /\ FoldersOf(P, a) => IsFile(cur[a])
<1>1. P[cur[a]] = Full(a) /\ op[a].kind = kind /\ cur[a] \in Live \cup {Top}
  BY FoundAt DEF Fresh
<1>2. Full(a) # <<>>
  <2>1. op[a].kind # "open"
    BY DEF Found, CallsOK, Fits
  <2> QED
    BY <2>1, CallPaths
<1>3. cur[a] \in Live
  BY <1>1, <1>2 DEF Placed
<1>4. cur[a] \in There(P, a) /\ ~IsGone(cur[a])
  BY <1>1, <1>3 DEF There, IsGone
<1>5. kind \in {"write", "read"} /\ FoldersOf(P, a) => IsFile(cur[a])
  BY <1>1, <1>3, FileThere
<1> QED
  BY <1>1, <1>3, <1>4, <1>5

LEMMA FoldersMove ==
  ASSUME RemoteOK, RemoteOK', CallsOK, NEW a \in Adapter, NEW b \in Adapter, Moves(b), NEW P,
         Placed(P), NEW Q, Grows(P, Q), Placed(Q)', FoldersOf(P, a), Named(a),
         remote' = remote \/ b = a
  PROVE  FoldersOf(Q, a)'
<1> SUFFICES ASSUME NEW i \in Live', remote'[i].kind = "folder"
             PROVE  \E q \in Path : /\ Q[i] \in Prefixes(Root[a] \o q)
                                    /\ Q[i] = Root[a] \o q => q \notin FilePaths
  BY DEF FoldersOf
<1>1. CASE i \in Live
  <2>1. remote[i].kind = "folder" /\ Q[i] = P[i]
    BY <1>1, DriveMoves, RemoteFacts DEF Grows
  <2> QED
    BY <1>1, <2>1 DEF FoldersOf
<1>2. CASE i \notin Live
  <2>1. (MakesFolder(a) \/ MakesFile(a)) /\ i = NextId
    BY <1>2, DriveMoves, Same
  <2>2. ~MakesFile(a)
    <3>1. MakesFile(a) =>
            remote'[NextId] = Node(Full(a)[Len(Full(a))], InFolder(a), "file", op[a].content)
      BY NewFile
    <3> QED
      BY <2>1, <3>1, States
  <2>3. /\ pc'[a] = "folders" /\ cur'[a] = NextId /\ n'[a] = n[a] + 1 /\ dir'[a] = dir[a]
        /\ pc[a] = "mkfolder"
    BY <2>1, <2>2 DEF MakesFolder
  <2>4. Q[cur'[a]] = SubSeq(dir'[a], 1, n'[a])
    BY <2>3 DEF Placed
  <2>5. Q[i] = SubSeq(dir[a], 1, n[a] + 1) /\ n[a] + 1 \in 0..Len(dir[a])
    BY <2>1, <2>2, <2>3, <2>4, NewFolder
  <2> QED
    BY <2>3, <2>5, OnTheWay
<1> QED
  BY <1>1, <1>2

(* A refusal or an answer of a call that changes nothing is right. *)
LEMMA WhyTold ==
  ASSUME RemoteOK, CallsOK, NEW a \in Adapter, NEW P, Placed(P), Own(P, a), Named(a),
         NEW result, NEW got, Why(a, result, got), result # "failed"
  PROVE  /\ op[a].kind # "write"
         /\ op[a].kind \in {"mkdir", "open"} => result = "ok" /\ \E i \in There(P, a) : IsFolder(i)
         /\ op[a].kind = "delete" => There(P, a) = {}
         /\ op[a].kind \in {"exists", "stat", "list"} => (result = "ok" <=> There(P, a) # {})
         /\ op[a].kind = "read" =>
              IF result = "ok" THEN \E i \in There(P, a) : IsFile(i) /\ remote[i].content = got
              ELSE There(P, a) = {}
<1>0. Fresh(a) /\ FilesOf(P, {a}) /\ FoldersOf(P, a) /\ NoTwins(P) /\ Careful(P, a)
  BY DEF Own
<1>1. CASE /\ pc[a] = "lookup" /\ n[a] < Len(Full(a)) /\ op[a].kind # "write"
           /\ Children(cur[a], Full(a)[n[a] + 1]) = {} /\ result = "notfound"
  <2>1. cur[a] \in Live \cup {Top} /\ P[cur[a]] = SubSeq(Full(a), 1, n[a])
    BY <1>0, <1>1 DEF Careful, Placed
  <2>2. Full(a) \in Key /\ n[a] \in Nat /\ op[a].kind \notin {"open", "mkdir"} /\ Full(a) # <<>>
    BY <1>1, CallPaths DEF CallsOK, Fits
  <2>3. \A i \in Live : P[i] # Full(a)
    BY <1>0, <1>1, <2>1, <2>2, NobodyAt
  <2>4. There(P, a) = {}
    BY <2>2, <2>3 DEF There, Placed
  <2> QED
    BY <1>1, <2>2, <2>4
<1>2. CASE pc[a] = "mkfolder" /\ ~IsFolder(cur[a])
  BY <1>0, <1>2, FolderThere
<1>3. CASE FoldersDone(a) /\ ~IsFolder(InFolder(a))
  BY <1>0, <1>3, FolderThere DEF FoldersDone
<1>4. CASE FoldersDone(a) /\ op[a].kind = "mkdir" /\ result = "ok"
  <2>1. PICK c : c = InFolder(a)
    OBVIOUS
  <2>2. c \in Live \cup {Top} /\ IsFolder(c)
    BY <1>0, <1>4, <2>1, FolderThere DEF FoldersDone
  <2>3. P[c] = Full(a)
    BY <1>4, <2>1, DoneAt DEF FoldersDone, Target
  <2>4. c \in There(P, a)
    BY <2>2, <2>3 DEF There
  <2> QED
    BY <1>4, <2>2, <2>4
<1>5. CASE Found(a, "write") /\ ~IsFile(cur[a])
  BY <1>0, <1>5, FoundThere
<1>6. CASE Found(a, "delete") /\ IsGone(cur[a])
  BY <1>0, <1>6, FoundThere
<1>7. CASE Found(a, "exists") /\ result = "ok"
  <2>1. op[a].kind = "exists" /\ cur[a] \in There(P, a)
    BY <1>0, <1>7, FoundThere
  <2> QED
    BY <1>7, <2>1
<1>8. CASE Found(a, "stat") /\ result = IF IsGone(cur[a]) THEN "notfound" ELSE "ok"
  <2>1. op[a].kind = "stat" /\ cur[a] \in There(P, a) /\ ~IsGone(cur[a])
    BY <1>0, <1>8, FoundThere
  <2> QED
    BY <1>8, <2>1
<1>9. CASE Found(a, "list") /\ (result = "ok" \/ (IsGone(cur[a]) /\ result = "notfound"))
  <2>1. op[a].kind = "list" /\ cur[a] \in There(P, a) /\ ~IsGone(cur[a])
    BY <1>0, <1>9, FoundThere
  <2> QED
    BY <1>9, <2>1
<1>10. CASE Found(a, "read") /\ IF IsFile(cur[a]) THEN result = "ok" /\ got = remote[cur[a]].content
                                ELSE result \in {"notfound", "error"}
  <2>1. op[a].kind = "read" /\ cur[a] \in There(P, a) /\ IsFile(cur[a])
    BY <1>0, <1>10, FoundThere
  <2> QED
    BY <1>10, <2>1
<1> QED
  BY <1>1, <1>2, <1>3, <1>4, <1>5, <1>6, <1>7, <1>8, <1>9, <1>10 DEF Why

(* A step that leaves Drive and a's call alone leaves a's answer right. *)
LEMMA ToldStays ==
  ASSUME RemoteOK, CallsOK, NEW a \in Adapter, NEW P, NEW Q, Grows(P, Q), P[Top] = Q[Top],
         remote' = remote, op'[a] = op[a]
  PROVE  /\ There(Q, a)' = There(P, a)
         /\ \A i : IsFile(i)' <=> IsFile(i)
         /\ \A i : IsFolder(i)' <=> IsFolder(i)
<1>1. Live' = Live /\ \A i \in Live : Q[i] = P[i]
  BY Same, RemoteFacts DEF Grows
<1>2. Full(a)' = Full(a)
  BY SamePaths
<1> HIDE DEF Live, Full
<1> QED
  BY <1>1, <1>2 DEF There, IsFile, IsFolder

LEMMA ToldOther ==
  ASSUME RemoteOK, CallsOK, NEW a \in Adapter, NEW b \in Adapter, b # a, Only(b),
         NEW P, NEW Q, Grows(P, Q), remote' = remote, Told(P, a)
  PROVE  Told(Q, a)'
<1>1. pc'[a] = pc[a] /\ op'[a] = op[a] /\ answer'[a] = answer[a]
  BY Others
<1>2. P[Top] = Q[Top]
  BY DEF Grows
<1>3. /\ There(Q, a)' = There(P, a)
      /\ \A i : IsFile(i)' <=> IsFile(i)
      /\ \A i : IsFolder(i)' <=> IsFolder(i)
  BY <1>1, <1>2, ToldStays
<1> HIDE DEF There, IsFile, IsFolder
<1> QED
  BY <1>1, <1>3 DEF Told

LEMMA ToldMove ==
  ASSUME RemoteOK, RemoteOK', CallsOK, NEW a \in Adapter, Only(a), Moves(a), NEW P, Placed(P),
         NEW Q, Grows(P, Q), Own(P, a), Alone(a)'
  PROVE  Told(Q, a)'
<1>0. /\ Fresh(a) /\ FilesOf(P, {a}) /\ FoldersOf(P, a) /\ NoTwins(P) /\ Careful(P, a)
      /\ Named(a) /\ Q[Top] = P[Top]
  BY AloneBefore DEF Own, Grows
<1>1. CASE Ends(a)
  <2>1. SUFFICES ASSUME pc'[a] = "idle", answer'[a].result \notin {"none", "failed"}
                 PROVE  Told(Q, a)'
    BY DEF Told
  <2>2. PICK result, got : result = answer'[a].result /\ got = answer'[a].got
    OBVIOUS
  <2>3. Why(a, result, got) /\ op'[a] = op[a] /\ remote' = remote /\ result # "failed"
    BY <1>1, <2>1, <2>2 DEF Ends, Over, Still
  <2>4. /\ op[a].kind # "write"
        /\ op[a].kind \in {"mkdir", "open"} => result = "ok" /\ \E i \in There(P, a) : IsFolder(i)
        /\ op[a].kind = "delete" => There(P, a) = {}
        /\ op[a].kind \in {"exists", "stat", "list"} => (result = "ok" <=> There(P, a) # {})
        /\ op[a].kind = "read" =>
             IF result = "ok" THEN \E i \in There(P, a) : IsFile(i) /\ remote[i].content = got
             ELSE There(P, a) = {}
    BY <1>0, <2>3, WhyTold
  <2>5. /\ There(Q, a)' = There(P, a)
        /\ \A i : IsFile(i)' <=> IsFile(i)
        /\ \A i : IsFolder(i)' <=> IsFolder(i)
    BY <1>0, <2>3, ToldStays
  <2> HIDE DEF There, IsFile, IsFolder
  <2> QED
    BY <2>2, <2>3, <2>4, <2>5 DEF Told
<1>2. CASE MakesFile(a)
  <2>1. /\ op'[a] = op[a] /\ op[a].kind = "write" /\ answer'[a].result = "ok"
        /\ Full(a)' = Full(a)
    BY <1>2, SamePaths DEF MakesFile, Over
  <2>2. PICK i : i = NextId
    OBVIOUS
  <2>3. Q[i] = Full(a)
    BY <1>0, <1>2, <2>2, NewFileAt
  <2>4. /\ i \in Live'
        /\ remote'[i] = Node(Full(a)[Len(Full(a))], InFolder(a), "file", op[a].content)
    BY <1>2, <2>2, NewFile
  <2>5. i \in There(Q, a)' /\ IsFile(i)' /\ remote'[i].content = op[a].content
    BY <2>1, <2>3, <2>4, States DEF There, IsFile
  <2> HIDE DEF There, IsFile, Full
  <2> QED
    BY <2>1, <2>5 DEF Told
<1>3. CASE Updates(a)
  <2>1. /\ op'[a] = op[a] /\ op[a].kind = "write" /\ answer'[a].result = "ok"
        /\ Full(a)' = Full(a)
    BY <1>3, SamePaths DEF Updates, Over, Found
  <2>2. PICK i : i = cur[a]
    OBVIOUS
  <2>3. i \in Live /\ P[i] = Full(a) /\ IsFile(i)
    BY <1>0, <1>3, <2>2, FoundThere DEF Updates
  <2>4. op[a].content \in Content /\ remote' = [remote EXCEPT ![i].content = op[a].content]
    BY <1>3, <2>2 DEF Updates, CallsOK
  <2>5. Live' = Live /\ remote'[i].kind = remote[i].kind /\ remote'[i].content = op[a].content
    BY <2>3, <2>4, Updated
  <2>6. Q[i] = P[i]
    BY <2>3, RemoteFacts DEF Grows
  <2>7. i \in There(Q, a)' /\ IsFile(i)'
    BY <2>1, <2>3, <2>5, <2>6 DEF There, IsFile
  <2> HIDE DEF There, IsFile, Full
  <2> QED
    BY <2>1, <2>5, <2>7 DEF Told
<1>4. CASE Deletes(a)
  <2>1. /\ op'[a] = op[a] /\ op[a].kind = "delete" /\ answer'[a].result = "ok"
        /\ Full(a)' = Full(a) /\ Subtree(cur[a]) = {cur[a]}
    <3>1. op'[a] = op[a] /\ op[a].kind = "delete" /\ answer'[a].result = "ok"
      BY <1>4 DEF Deletes, Over, Found
    <3>2. Full(a)' = Full(a)
      BY <3>1, SamePaths
    <3>3. orderly' /\ orderly' = (orderly /\ Subtree(cur[a]) = {cur[a]})
      BY <1>4 DEF Alone, Deletes
    <3> HIDE DEF Full, Subtree
    <3> QED
      BY <3>1, <3>2, <3>3
  <2>2. PICK i : i = cur[a]
    OBVIOUS
  <2>3. i \in Live /\ P[i] = Full(a)
    BY <1>0, <1>4, <2>2, FoundThere DEF Deletes
  <2>4. Live' = Live \ {i}
    BY <1>4, <2>1, <2>2, <2>3, Cut DEF Deletes
  <2>5. \A j \in Live : Q[j] = P[j]
    BY RemoteFacts DEF Grows
  <2>6. Full(a) # <<>> /\ P[Top] = <<>>
    BY <1>0, CallPaths DEF Placed
  <2>7. There(Q, a)' = {}
    <3>1. \A j \in Live' : Q[j] # Full(a)
      BY <1>0, <2>3, <2>4, <2>5 DEF NoTwins
    <3> HIDE DEF Full
    <3> QED
      BY <1>0, <2>1, <2>6, <3>1 DEF There
  <2> HIDE DEF There
  <2> QED
    BY <2>1, <2>7 DEF Told
<1>5. CASE Opens(a)
  <2>1. /\ op'[a] = op[a] /\ op[a].kind = "open" /\ answer'[a].result = "ok" /\ remote' = remote
        /\ pc[a] = "folders" /\ Passed(a) = Len(dir[a])
    BY <1>5, SamePaths DEF Opens, Over, Still
  <2>2. PICK c : c = InFolder(a)
    OBVIOUS
  <2>3. c \in Live \cup {Top} /\ IsFolder(c)
    BY <1>0, <2>1, <2>2, FolderThere
  <2>4. P[c] = Full(a)
    BY <2>1, <2>2, DoneAt DEF Target
  <2>5. c \in There(P, a)
    BY <2>3, <2>4 DEF There
  <2>6. /\ There(Q, a)' = There(P, a)
        /\ \A i : IsFolder(i)' <=> IsFolder(i)
    BY <1>0, <2>1, ToldStays
  <2> HIDE DEF There, IsFolder
  <2> QED
    BY <2>1, <2>3, <2>5, <2>6 DEF Told
<1>6. CASE \/ Starts(a) \/ Finds(a) \/ TurnsToFolders(a) \/ FindsFolder(a) \/ FindsNoFolder(a)
           \/ MakesFolder(a)
  <2>1. pc'[a] # "idle"
    BY <1>6 DEF Starts, Finds, TurnsToFolders, FindsFolder, FindsNoFolder, MakesFolder
  <2> QED
    BY <2>1 DEF Told
<1> QED
  BY <1>1, <1>2, <1>3, <1>4, <1>5, <1>6 DEF Moves

LEMMA OwnMove ==
  ASSUME RemoteOK, RemoteOK', CallsOK, NEW a \in Adapter, NEW b \in Adapter, Only(b), Moves(b),
         NEW P, Placed(P), NEW Q, Grows(P, Q), Placed(Q)', Alone(a)', Own(P, a)
  PROVE  Own(Q, a)'
<1>0. /\ Fresh(a) /\ FilesOf(P, {a}) /\ FoldersOf(P, a) /\ NoTwins(P) /\ Careful(P, a) /\ Told(P, a)
      /\ Named(a) /\ (b # a => remote' = remote)
  BY AloneBefore DEF Own
<1>1. Fresh(a)'
  BY <1>0, FreshMove
<1>2. FilesOf(Q, {a})'
  BY <1>0, FilesMove
<1>3. FoldersOf(Q, a)'
  BY <1>0, FoldersMove
<1>4. CASE b = a
  BY <1>0, <1>1, <1>2, <1>3, <1>4, MakesNoTwin, CarefulMove, OwnApart, ToldMove DEF Own
<1>5. CASE b # a
  <2>1. Live' = Live /\ remote' = remote
    BY <1>0, <1>5, Same
  <2>2. NoTwins(Q)'
    BY <1>0, <2>1, RemoteFacts DEF NoTwins, Grows
  <2>3. Careful(Q, a)'
    BY <1>0, <1>5, CarefulStays
  <2>4. Told(Q, a)'
    BY <1>0, <1>5, ToldOther
  <2> QED
    BY <1>1, <1>2, <1>3, <2>2, <2>3, <2>4 DEF Own
<1> QED
  BY <1>4, <1>5

OwnInv == Typed /\ \E P : Placed(P) /\ \A a \in Adapter : Alone(a) => Own(P, a)

LEMMA OwnInit == Init => OwnInv
<1> SUFFICES ASSUME Init PROVE OwnInv
  OBVIOUS
<1>1. PICK P : P = [i \in Id \cup {Top} |-> <<>>]
  OBVIOUS
<1>2. Placed(P)
  BY <1>1, PlacedInit
<1>3. Live = {}
  BY States DEF Init, Live
<1>4. ASSUME NEW a \in Adapter PROVE Own(P, a)
  <2>1. FilesOf(P, {a}) /\ FoldersOf(P, a) /\ NoTwins(P)
    BY <1>3 DEF FilesOf, FoldersOf, NoTwins
  <2>2. Fresh(a) /\ Careful(P, a) /\ Told(P, a)
    BY DEF Init, Fresh, Careful, Told
  <2> QED
    BY <2>1, <2>2 DEF Own
<1> QED
  BY <1>2, <1>4, TypedInit DEF OwnInv

LEMMA OwnNext == OwnInv /\ [Next]_vars => OwnInv'
<1> SUFFICES ASSUME OwnInv, [Next]_vars PROVE OwnInv'
  OBVIOUS
<1>1. RemoteOK /\ CallsOK /\ Typed' /\ RemoteOK' /\ CallsOK'
  BY TypedNext DEF OwnInv, Typed
<1>2. PICK P : Placed(P) /\ \A a \in Adapter : Alone(a) => Own(P, a)
  BY DEF OwnInv
<1>3. CASE Next
  <2>1. PICK b \in Adapter : Only(b) /\ Moves(b)
    BY <1>1, <1>3, NextMoves
  <2>2. PICK Q : Grows(P, Q)
    BY <1>1, <1>2, <2>1, PathsGrow
  <2>3. Placed(Q)'
    BY <1>1, <1>2, <2>1, <2>2, PlacedMove
  <2>4. ASSUME NEW a \in Adapter, Alone(a)' PROVE Own(Q, a)'
    <3>1. Own(P, a)
      BY <1>1, <1>2, <2>1, <2>4, AloneBefore
    <3> QED
      BY <1>1, <1>2, <2>1, <2>2, <2>3, <2>4, <3>1, OwnMove
  <2> QED
    BY <1>1, <2>3, <2>4 DEF OwnInv
<1>4. CASE UNCHANGED vars
  <2>1. Placed(P)'
    BY <1>2, <1>4, SameStutter
  <2>2. Live' = Live /\ remote' = remote
    BY <1>4 DEF vars, Live
  <2>3. NoTwins(P)' <=> NoTwins(P)
    BY <2>2 DEF NoTwins
  <2>4. ASSUME NEW a \in Adapter
        PROVE  /\ (Alone(a)' <=> Alone(a)) /\ (Fresh(a)' <=> Fresh(a))
               /\ (FilesOf(P, {a})' <=> FilesOf(P, {a}))
               /\ (FoldersOf(P, a)' <=> FoldersOf(P, a))
    BY <1>4, <2>2 DEF vars, Alone, Named, Fresh, FilesOf, FoldersOf
  <2>5. ASSUME NEW a \in Adapter PROVE Careful(P, a)' <=> Careful(P, a)
    BY <1>4 DEF vars, Careful, Full, IsFolder, Live
  <2>6. ASSUME NEW a \in Adapter PROVE Told(P, a)' <=> Told(P, a)
    BY <1>4 DEF vars, Told, There, Full, IsFolder, IsFile, Live
  <2> QED
    BY <1>1, <1>2, <2>1, <2>3, <2>4, <2>5, <2>6 DEF OwnInv, Own
<1> QED
  BY <1>3, <1>4

LEMMA OwnIsAnswersTrue == OwnInv => AnswersTrue
<1> SUFFICES ASSUME OwnInv, NEW a \in Adapter, Answered(a), Alone(a) PROVE Honest(a)
  BY DEF AnswersTrue
<1>1. RemoteOK /\ CallsOK
  BY DEF OwnInv, Typed
<1>2. PICK P : Placed(P) /\ Told(P, a)
  BY DEF OwnInv, Own
<1>3. IdsAt(Full(a)) = There(P, a)
  BY <1>1, <1>2, IdsAtIs, CallPaths DEF There
<1> HIDE DEF IdsAt, Full, There
<1> QED
  BY <1>2, <1>3 DEF Honest, Told, Answered

(* An adapter that has Drive to itself, and deletes folder by folder,      *)
(* answers as the interface promises: every call but one whose request     *)
(* fails does what it reports, whatever calls, failures and restarts came  *)
(* before, and however other adapters' reads come between its requests.    *)
THEOREM AnswersAreTrue == Spec => []AnswersTrue
<1>1. Spec => []OwnInv
  BY OwnInit, OwnNext, PTL DEF Spec
<1> QED
  BY <1>1, OwnIsAnswersTrue, PTL
=============================================================================
