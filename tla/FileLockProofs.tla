--------------------------- MODULE FileLockProofs ---------------------------
(* What holds of FileLock for every set of instances, hosts, pids and rules. *)
EXTENDS FileLock, TLAPS

(* A process that runs has a pid, and the records a step needs are there   *)
(* when it runs.                                                           *)
RecordsAtHand ==
  \A p \in Inst :
    /\ pc[p] # "down" => pid[p] # NoPid
    /\ pc[p] \in {"reread", "truncate", "rewrite", "verify", "unlink"} => info[p] # None
    /\ pc[p] \in {"truncate", "rewrite", "check", "remove", "encode"} => local[p] # None

TypeInv == TypeOK /\ RecordsAtHand

LEMMA InitTypeInv == Init => TypeInv
BY ConstantsAssumption DEF Init, TypeInv, TypeOK, RecordsAtHand, Pcs, Outcomes

(* Goto and Return keep the program counters and the results typed.        *)
LEMMA GotoType ==
  ASSUME NEW p \in Inst, NEW l \in Pcs, pc \in [Inst -> Pcs], Goto(p, l)
  PROVE  /\ pc' \in [Inst -> Pcs]
         /\ pc'[p] = l
         /\ \A q \in Inst \ {p} : pc'[q] = pc[q]
BY DEF Goto

LEMMA ReturnType ==
  ASSUME NEW p \in Inst, NEW res \in Outcomes, TypeOK, Return(p, res)
  PROVE  /\ pc' \in [Inst -> Pcs]
         /\ outcome' \in [Inst -> Outcomes]
         /\ local' \in [Inst -> LockInfo \cup {None}]
         /\ pc'[p] \in {"idle", "held"}
         /\ res # "granted" => pc'[p] = "idle"
         /\ \A q \in Inst \ {p} : pc'[q] = pc[q] /\ local'[q] = local[q]
BY DEF Return, TypeOK, Pcs

LEMMA NextTypeInv == TypeInv /\ [Next]_vars => TypeInv'
<1> SUFFICES ASSUME TypeInv, [Next]_vars PROVE TypeInv'
  OBVIOUS
<1> USE DEF TypeInv, RecordsAtHand
<1>0. None \notin LockInfo /\ NoPid \notin Pid /\ MaxTime \in Nat /\ MaxLives \in Nat
  BY ConstantsAssumption
<1>1. ASSUME NEW p \in Inst, Start(p) PROVE TypeInv'
  BY <1>0, <1>1 DEF Start, Goto, TypeOK, Pcs
<1>2. ASSUME NEW p \in Inst, Stop(p) PROVE TypeInv'
  BY <1>2 DEF Stop, Goto, TypeOK, Pcs, Outcomes
<1>3. CASE Tick
  BY <1>0, <1>3 DEF Tick, TypeOK
<1>4. ASSUME NEW p \in Inst, NEW r \in Rule, Acquire(p, r) PROVE TypeInv'
  BY <1>4 DEF Acquire, Goto, TypeOK, Pcs, Outcomes
<1>5. ASSUME NEW p \in Inst, Reread(p) PROVE TypeInv'
  <2>1. CASE Readable /\ HeldByThisInstance(p, file)
    <3>1. file \in LockInfo /\ rule[p] \in Rule
      BY <2>1 DEF TypeOK, Readable
    <3>2. [file EXCEPT !.rule = rule[p]] \in LockInfo
      BY <3>1 DEF LockInfo
    <3> QED BY <1>0, <1>5, <2>1, <3>2 DEF Reread, Goto, TypeOK, Pcs
  <2>2. CASE ~(Readable /\ HeldByThisInstance(p, file))
    BY <1>5, <2>2 DEF Reread, Goto, TypeOK, Pcs
  <2> QED BY <2>1, <2>2
<1>6. ASSUME NEW p \in Inst, Truncate(p) PROVE TypeInv'
  BY <1>6 DEF Truncate, Goto, TypeOK, Pcs
<1>7. ASSUME NEW p \in Inst, Rewrite(p) PROVE TypeInv'
  <2>1. info[p] \in LockInfo /\ local[p] \in LockInfo /\ rule[p] \in Rule
    BY <1>7 DEF Rewrite, TypeOK
  <2>2. [info[p] EXCEPT !.rule = rule[p]] \in LockInfo
    BY <2>1 DEF LockInfo
  <2>3. info' \in [Inst -> LockInfo \cup {None}]
    BY <1>7, <2>2 DEF Rewrite, TypeOK
  <2> QED BY <1>7, <2>1, <2>3, ReturnType DEF Rewrite, TypeOK, Outcomes
<1>8. ASSUME NEW p \in Inst, Read(p) PROVE TypeInv'
  BY <1>0, <1>8 DEF Read, Readable, Goto, TypeOK, Pcs
<1>9. ASSUME NEW p \in Inst, Check(p) PROVE TypeInv'
  BY <1>9 DEF Check, Return, Goto, TypeOK, Pcs, Outcomes
<1>10. ASSUME NEW p \in Inst, RemoveStale(p) PROVE TypeInv'
  <2>1. CASE file = Absent
    BY <1>10, <2>1 DEF RemoveStale, Return, TypeOK, Pcs, Outcomes
  <2>2. CASE file # Absent
    <3> linked' \in [Inst -> BOOLEAN]
      BY <1>10, <2>2 DEF RemoveStale, Unlinked
    <3>1. TypeOK'
      BY <1>10, <2>2 DEF RemoveStale, Unlinked, Goto, TypeOK, Pcs
    <3>2. RecordsAtHand'
      BY <1>10, <2>2 DEF RemoveStale, Unlinked, Return, Goto, TypeOK, Pcs
    <3> QED BY <3>1, <3>2
  <2> QED BY <2>1, <2>2
<1>11. ASSUME NEW p \in Inst, Create(p) PROVE TypeInv'
  <2> DEFINE rec == [pid |-> pid[p], host |-> HostOf[p], start |-> now, rule |-> rule[p]]
  <2>1. pid[p] \in Pid => rec \in LockInfo
    BY ConstantsAssumption DEF TypeOK, LockInfo
  <2>2. pc[p] = "create" => pid[p] \in Pid
    BY DEF TypeOK
  <2>3. rec # None
    BY <1>0, <1>11, <2>1, <2>2 DEF Create, TypeOK
  <2>4. CASE file = Absent
    <3>1. local' = [local EXCEPT ![p] = rec] /\ local' \in [Inst -> LockInfo \cup {None}]
      BY <1>11, <2>1, <2>2, <2>4 DEF Create, TypeOK
    <3>2. TypeOK'
      BY <1>11, <2>4, <3>1 DEF Create, Goto, TypeOK, Pcs
    <3>3. pc' = [pc EXCEPT ![p] = "encode"] /\ UNCHANGED <<info, pid>>
      BY <1>11, <2>4 DEF Create, Goto
    <3> HIDE DEF rec
    <3>4. RecordsAtHand'
      <4>1. \A q \in Inst : /\ pc'[q] = IF q = p THEN "encode" ELSE pc[q]
                            /\ local'[q] = IF q = p THEN rec ELSE local[q]
        BY <3>1, <3>3 DEF TypeOK
      <4>2. pc[p] = "create"
        BY <1>11 DEF Create
      <4> QED BY <2>3, <3>3, <4>1, <4>2
    <3> QED BY <3>2, <3>4
  <2>5. CASE file # Absent
    BY <1>11, <2>5 DEF Create, Goto, TypeOK, Pcs
  <2> QED BY <2>4, <2>5
<1>12. ASSUME NEW p \in Inst, Exists(p) PROVE TypeInv'
  BY <1>12 DEF Exists, Return, TypeOK, Pcs, Outcomes
<1>13. ASSUME NEW p \in Inst, Encode(p) PROVE TypeInv'
  BY <1>13 DEF Encode, Return, TypeOK, Pcs, Outcomes
<1>14. ASSUME NEW p \in Inst, Undo(p) PROVE TypeInv'
  BY <1>14 DEF Undo, Unlinked, Return, TypeOK, Pcs, Outcomes
<1>15. ASSUME NEW p \in Inst, Release(p) PROVE TypeInv'
  BY <1>15 DEF Release, Goto, TypeOK, Pcs, Outcomes
<1>16. ASSUME NEW p \in Inst, Verify(p) PROVE TypeInv'
  BY <1>16 DEF Verify, Return, Goto, TypeOK, Pcs, Outcomes
<1>17. ASSUME NEW p \in Inst, Unlink(p) PROVE TypeInv'
  BY <1>17 DEF Unlink, Unlinked, Return, TypeOK, Pcs, Outcomes
<1>18. ASSUME NEW p \in Inst, ForceRelease(p) PROVE TypeInv'
  BY <1>18 DEF ForceRelease, Unlinked, Return, TypeOK, Pcs, Outcomes
<1>19. ASSUME NEW p \in Inst, IOFault(p) PROVE TypeInv'
  <2>1. CASE pc[p] \in {"truncate", "rewrite", "remove", "create", "undo", "unlink"}
    <3> linked' \in [Inst -> BOOLEAN]
      BY <1>19, <2>1 DEF IOFault, TypeOK
    <3>1. TypeOK'
      BY <1>19, <2>1 DEF IOFault, Return, TypeOK, Pcs, Outcomes
    <3>2. RecordsAtHand'
      <4>1. \A q \in Inst : /\ pc'[q] = IF q = p THEN "idle" ELSE pc[q]
                            /\ local'[q] = IF q = p THEN None ELSE local[q]
        BY <1>19, <2>1 DEF IOFault, Return, TypeOK
      <4>2. UNCHANGED <<info, pid>>
        BY <1>19, <2>1 DEF IOFault
      <4> QED BY <2>1, <4>1, <4>2
    <3> QED BY <3>1, <3>2
  <2>2. CASE pc[p] \in {"reread", "read", "encode"}
    BY <1>19, <2>2 DEF IOFault, Goto, TypeOK, Pcs
  <2>3. CASE pc[p] \in {"exists", "verify"}
    BY <1>19, <2>3 DEF IOFault, Return, TypeOK, Pcs, Outcomes
  <2> QED BY <1>19, <2>1, <2>2, <2>3 DEF IOFault
<1>20. CASE UNCHANGED vars
  BY <1>20 DEF vars, TypeOK
<1> QED
  BY <1>1, <1>2, <1>3, <1>4, <1>5, <1>6, <1>7, <1>8, <1>9, <1>10, <1>11, <1>12,
     <1>13, <1>14, <1>15, <1>16, <1>17, <1>18, <1>19, <1>20 DEF Next, Step

(* Every variable keeps its type, whoever crashes, whatever call fails and *)
(* whoever forces the lock.                                                *)
THEOREM TypeCorrect == Spec => []TypeOK
<1>1. TypeInv => TypeOK
  BY DEF TypeInv
<1> QED BY InitTypeInv, NextTypeInv, <1>1, PTL DEF Spec

-----------------------------------------------------------------------------
(* The next operators and lemmas serve the proof of mutual exclusion.      *)

(* A step of p leaves the other instances' calls, and every pid, alone.    *)
OthersKeep(p) ==
  /\ pid' = pid
  /\ \A q \in Inst \ {p} : pc'[q] = pc[q] /\ info'[q] = info[q] /\ local'[q] = local[q]

(* What a step of p must see to for OwnerInv to survive it.                *)
Respects(p) ==
  /\ Owns(p)' => Owns(p) \/ file = Absent
  /\ file' = Absent => (file = Absent \/ Owns(p)) /\ ~Owns(p)'
  /\ pc'[p] = "held" => info'[p] # None
  /\ pc'[p] \in {"encode", "undo"} => info'[p] = None
  /\ pc'[p] \notin {"remove", "down"}
  /\ Readable' => NamesLive(file')
  /\ local'[p] # None => NamesLive(local'[p])

LEMMA RespectfulStep ==
  ASSUME NEW p \in Inst, OwnerInv, OthersKeep(p), Respects(p)
  PROVE  OwnerInv'
<1>1. \A q \in Inst \ {p} : Owns(q)' <=> Owns(q)
  BY DEF OthersKeep, Owns
<1>2. \A q, r \in Inst : Owns(q)' /\ Owns(r)' => q = r
  BY <1>1 DEF OwnerInv, Respects
<1>3. \A q \in Inst : Owns(q)' => file' # Absent
  BY <1>1 DEF OwnerInv, Respects
<1>4. \A q \in Inst : local'[q] # None => NamesLive(local[q])'
  <2>1. ASSUME NEW q \in Inst, local'[q] # None PROVE NamesLive(local[q])'
    <3>1. NamesLive(local'[q])
      BY <2>1 DEF OwnerInv, Respects, OthersKeep
    <3> QED BY <3>1 DEF OthersKeep, NamesLive, ProcessExists
  <2> QED BY <2>1
<1>5. Readable' => NamesLive(file)'
  BY DEF Respects, OthersKeep, NamesLive, ProcessExists
<1>6. \A q \in Inst : /\ pc'[q] = "held" => info'[q] # None
                      /\ pc'[q] \in {"encode", "undo"} => info'[q] = None
                      /\ pc'[q] # "remove"
                      /\ pc'[q] = "down" => pid'[q] = NoPid
  BY DEF OwnerInv, Respects, OthersKeep
<1> QED BY <1>2, <1>3, <1>4, <1>5, <1>6 DEF OwnerInv

(* A record that names a running process is never judged stale.            *)
LEMMA LiveIsNotStale ==
  ASSUME Calm, TypeOK, NEW p \in Inst, NEW rec \in LockInfo, NamesLive(rec)
  PROVE  ~IsStale(p, rec)
<1>1. CASE rec.host = HostOf[p]
  BY <1>1 DEF IsStale, NamesLive
<1>2. CASE rec.host # HostOf[p]
  <2>1. MaxTime <= StaleTimeout
    BY <1>2 DEF Calm, NamesLive, ProcessExists
  <2>2. now \in 0..MaxTime /\ rec.start \in 0..MaxTime
    BY DEF TypeOK, LockInfo
  <2>3. now - rec.start <= StaleTimeout
    BY <2>1, <2>2, ConstantsAssumption
  <2>4. ~(now - rec.start > StaleTimeout)
    BY <2>2, <2>3, ConstantsAssumption
  <2> QED BY <1>2, <2>4 DEF IsStale
<1> QED BY <1>1, <1>2

LEMMA InitOwnerInv == Init => OwnerInv
BY DEF Init, OwnerInv, Owns, Readable

LEMMA NextOwnerInv ==
  ASSUME Calm
  PROVE  TypeInv /\ TypeInv' /\ OwnerInv /\ [Next]_vars => OwnerInv'
<1> SUFFICES ASSUME TypeInv, TypeInv', OwnerInv, [Next]_vars PROVE OwnerInv'
  OBVIOUS
<1>0. None \notin LockInfo /\ Absent \notin LockInfo /\ Empty # Absent /\ NoPid \notin Pid
  BY ConstantsAssumption
<1> USE DEF Owns, Readable
<1>1. ASSUME NEW p \in Inst, Start(p) PROVE OwnerInv'
  <2>1. UNCHANGED <<file, info, local>> /\ pc[p] = "down" /\ pid[p] = NoPid
    BY <1>1 DEF Start, OwnerInv
  <2>2. \A q \in Inst : pc'[q] = IF q = p THEN "idle" ELSE pc[q]
    BY <1>1 DEF Start, Goto, TypeInv, TypeOK
  <2>3. \A q \in Inst \ {p} : pid'[q] = pid[q]
    BY <1>1 DEF Start, TypeInv, TypeOK
  <2>4. ASSUME NEW rec \in LockInfo, NamesLive(rec) PROVE NamesLive(rec)'
    BY <1>0, <2>1, <2>3, <2>4 DEF NamesLive, ProcessExists, LockInfo
  <2>5. file \in LockInfo \cup {Absent, Empty} /\ \A q \in Inst : local[q] \in LockInfo \cup {None}
    BY DEF TypeInv, TypeOK
  <2> QED BY <2>1, <2>2, <2>3, <2>4, <2>5 DEF OwnerInv
<1>2. ASSUME NEW p \in Inst, Stop(p) PROVE OwnerInv'
  BY <1>2 DEF Stop, Calm
<1>3. CASE Tick
  BY <1>3 DEF Tick, OwnerInv, NamesLive, ProcessExists
<1>4. ASSUME NEW p \in Inst, NEW r \in Rule, Acquire(p, r) PROVE OwnerInv'
  <2>1. OthersKeep(p) /\ Respects(p)
    BY <1>4 DEF Acquire, Goto, OthersKeep, Respects, OwnerInv, TypeInv, TypeOK
  <2> QED BY <2>1, RespectfulStep
<1>5. ASSUME NEW p \in Inst, Truncate(p) PROVE OwnerInv'
  <2>1. OthersKeep(p) /\ Respects(p)
    BY <1>0, <1>5 DEF Truncate, Goto, OthersKeep, Respects, OwnerInv, TypeInv, TypeOK, RecordsAtHand
  <2> QED BY <2>1, RespectfulStep
<1>6. ASSUME NEW p \in Inst, Rewrite(p) PROVE OwnerInv'
  <2>1. info[p] # None /\ info'[p] # None /\ info[p] \in LockInfo
    <3>1. info[p] \in LockInfo /\ rule[p] \in Rule
      BY <1>6 DEF Rewrite, TypeInv, TypeOK, RecordsAtHand
    <3>2. info'[p] = [info[p] EXCEPT !.rule = rule[p]]
      BY <1>6 DEF Rewrite, TypeInv, TypeOK
    <3>3. [info[p] EXCEPT !.rule = rule[p]] \in LockInfo
      BY <3>1 DEF LockInfo
    <3> QED BY <1>0, <3>1, <3>2, <3>3
  <2>2. local[p] \in LockInfo /\ NamesLive(local[p]) /\ file # Absent
    BY <1>6, <2>1 DEF Rewrite, TypeInv, TypeOK, RecordsAtHand, OwnerInv
  <2>3. file' # Absent /\ (Readable' => NamesLive(file'))
    BY <1>0, <1>6, <2>2 DEF Rewrite, OwnerInv
  <2>4. OthersKeep(p) /\ pc'[p] = "held" /\ local'[p] = None
    BY <1>6 DEF Rewrite, Return, OthersKeep, TypeInv, TypeOK
  <2> QED BY <2>1, <2>3, <2>4, RespectfulStep DEF Respects
<1>7. ASSUME NEW p \in Inst, Read(p) PROVE OwnerInv'
  <2>1. OthersKeep(p) /\ Respects(p)
    BY <1>7 DEF Read, Goto, OthersKeep, Respects, OwnerInv, TypeInv, TypeOK
  <2> QED BY <2>1, RespectfulStep
<1>8. ASSUME NEW p \in Inst, Create(p) PROVE OwnerInv'
  <2>1. CASE file = Absent
    <3>1. info[p] = None
      BY <2>1 DEF OwnerInv
    <3>2. /\ pc' = [pc EXCEPT ![p] = "encode"] /\ file' = Empty
          /\ UNCHANGED <<info, pid>>
          /\ local'[p].pid = pid[p] /\ local'[p].host = HostOf[p]
          /\ \A q \in Inst \ {p} : local'[q] = local[q]
      BY <1>8, <2>1 DEF Create, Goto, TypeInv, TypeOK
    <3>3. NamesLive(local'[p])
      BY <3>2 DEF NamesLive, ProcessExists
    <3>4. pc'[p] = "encode" /\ \A q \in Inst \ {p} : pc'[q] = pc[q]
      BY <3>2 DEF TypeInv, TypeOK
    <3>5. OthersKeep(p) /\ Respects(p)
      BY <1>0, <2>1, <3>1, <3>2, <3>3, <3>4 DEF OthersKeep, Respects
    <3> QED BY <3>5, RespectfulStep
  <2>2. CASE file # Absent
    <3>1. OthersKeep(p) /\ Respects(p)
      BY <1>8, <2>2 DEF Create, Goto, OthersKeep, Respects, OwnerInv, TypeInv, TypeOK
    <3> QED BY <3>1, RespectfulStep
  <2> QED BY <2>1, <2>2
<1>9. ASSUME NEW p \in Inst, Exists(p) PROVE OwnerInv'
  <2>1. OthersKeep(p) /\ Respects(p)
    BY <1>9 DEF Exists, Return, OthersKeep, Respects, OwnerInv, TypeInv, TypeOK
  <2> QED BY <2>1, RespectfulStep
<1>10. ASSUME NEW p \in Inst, Encode(p) PROVE OwnerInv'
  <2>1. local[p] \in LockInfo /\ NamesLive(local[p]) /\ file # Absent
    BY <1>10 DEF Encode, TypeInv, TypeOK, RecordsAtHand, OwnerInv
  <2>2. file' # Absent /\ (Readable' => NamesLive(file'))
    BY <1>0, <1>10, <2>1 DEF Encode, OwnerInv
  <2>3. OthersKeep(p) /\ pc[p] = "encode" /\ pc'[p] = "held" /\ local'[p] = None
        /\ info'[p] = local[p]
    BY <1>10 DEF Encode, Return, OthersKeep, TypeInv, TypeOK
  <2> QED BY <1>0, <2>1, <2>2, <2>3, RespectfulStep DEF Respects
<1>11. ASSUME NEW p \in Inst, Undo(p) PROVE OwnerInv'
  <2>1. OthersKeep(p) /\ Respects(p)
    BY <1>11 DEF Undo, Unlinked, Return, OthersKeep, Respects, OwnerInv, TypeInv, TypeOK
  <2> QED BY <2>1, RespectfulStep
<1>12. ASSUME NEW p \in Inst, Release(p) PROVE OwnerInv'
  <2>1. OthersKeep(p) /\ Respects(p)
    BY <1>12 DEF Release, Goto, OthersKeep, Respects, OwnerInv, TypeInv, TypeOK
  <2> QED BY <2>1, RespectfulStep
<1>13. ASSUME NEW p \in Inst, Verify(p) PROVE OwnerInv'
  <2>1. OthersKeep(p) /\ Respects(p)
    BY <1>13 DEF Verify, Goto, Return, OthersKeep, Respects, OwnerInv, TypeInv, TypeOK
  <2> QED BY <2>1, RespectfulStep
<1>14. ASSUME NEW p \in Inst, Unlink(p) PROVE OwnerInv'
  <2>1. OthersKeep(p) /\ Respects(p)
    BY <1>14 DEF Unlink, Unlinked, Return, OthersKeep, Respects, OwnerInv, TypeInv, TypeOK, RecordsAtHand
  <2> QED BY <2>1, RespectfulStep
<1>15. ASSUME NEW p \in Inst, IOFault(p) PROVE OwnerInv'
  <2>1. OthersKeep(p) /\ Respects(p)
    BY <1>15 DEF IOFault, Goto, Return, OthersKeep, Respects, OwnerInv, TypeInv, TypeOK
  <2> QED BY <2>1, RespectfulStep
<1>16. ASSUME NEW p \in Inst, Reread(p) PROVE OwnerInv'
  <2>1. CASE Readable /\ HeldByThisInstance(p, file)
    <3>1. file \in LockInfo /\ rule[p] \in Rule
      BY <2>1 DEF TypeInv, TypeOK
    <3>2. /\ UNCHANGED <<file, info, pid>> /\ pc' = [pc EXCEPT ![p] = "truncate"]
          /\ local' = [local EXCEPT ![p] = [file EXCEPT !.rule = rule[p]]]
      BY <1>16, <2>1 DEF Reread, Goto
    <3>3. local'[p].pid = file.pid /\ local'[p].host = file.host
      BY <3>1, <3>2 DEF LockInfo, TypeInv, TypeOK
    <3>4. NamesLive(local'[p])
      BY <2>1, <3>3 DEF OwnerInv, NamesLive, ProcessExists
    <3>5. pc'[p] = "truncate" /\ \A q \in Inst \ {p} : pc'[q] = pc[q] /\ local'[q] = local[q]
      BY <3>2 DEF TypeInv, TypeOK
    <3>6. NamesLive(file) /\ info[p] # None
      BY <2>1 DEF OwnerInv, HeldByThisInstance
    <3>7. OthersKeep(p) /\ Respects(p)
      BY <2>1, <3>2, <3>4, <3>5, <3>6 DEF OthersKeep, Respects
    <3> QED BY <3>7, RespectfulStep
  <2>2. CASE ~(Readable /\ HeldByThisInstance(p, file))
    <3>1. OthersKeep(p) /\ Respects(p)
      BY <1>16, <2>2 DEF Reread, Goto, OthersKeep, Respects, OwnerInv, TypeInv, TypeOK
    <3> QED BY <3>1, RespectfulStep
  <2> QED BY <2>1, <2>2
<1>17. ASSUME NEW p \in Inst, Check(p) PROVE OwnerInv'
  <2>1. local[p] \in LockInfo /\ NamesLive(local[p])
    BY <1>17 DEF Check, TypeInv, TypeOK, RecordsAtHand, OwnerInv
  <2>2. ~IsStale(p, local[p])
    BY <2>1, LiveIsNotStale DEF TypeInv
  <2>3. OthersKeep(p) /\ Respects(p)
    BY <1>17, <2>2 DEF Check, Return, OthersKeep, Respects, OwnerInv, TypeInv, TypeOK
  <2> QED BY <2>3, RespectfulStep
<1>18. ASSUME NEW p \in Inst, RemoveStale(p) \/ ForceRelease(p) PROVE OwnerInv'
  BY <1>18 DEF RemoveStale, ForceRelease, OwnerInv, Calm
<1>19. CASE UNCHANGED vars
  BY <1>19 DEF vars, OwnerInv, NamesLive, ProcessExists
<1> QED
  BY <1>1, <1>2, <1>3, <1>4, <1>5, <1>6, <1>7, <1>8, <1>9, <1>10, <1>11, <1>12, <1>13, <1>14, <1>15, <1>16, <1>17, <1>18, <1>19 DEF Next, Step

(* Nobody else owns the lock and nothing judges it stale, as long as nobody *)
(* ends, nobody forces it and no lock outlives the cross-host timeout; any *)
(* system call may fail.                                                   *)
THEOREM OneOwner == ASSUME Calm PROVE Spec => []OwnerInv
<1>1. Init => TypeInv /\ OwnerInv
  BY InitTypeInv, InitOwnerInv
<1>2. TypeInv /\ OwnerInv /\ [Next]_vars => TypeInv' /\ OwnerInv'
  BY NextTypeInv, NextOwnerInv
<1> QED BY <1>1, <1>2, PTL DEF Spec

(* So two callers never both hold the lock (lock.go:54-141).               *)
THEOREM LockExcludes == ASSUME Calm PROVE Spec => []MutualExclusion
<1>1. OwnerInv => MutualExclusion
  BY DEF OwnerInv, Owns, MutualExclusion
<1> QED BY <1>1, OneOwner, PTL

-----------------------------------------------------------------------------
(* Processes that end anywhere, calls that fail, locks that are forced: a  *)
(* lock file that names a live process still finds the record in its       *)
(* FileLock, unless the system gives a dead process's pid away again or    *)
(* Release cannot read the file.                                           *)

(* rec is a record that p itself has made *)
Its(p, rec) == rec \in LockInfo /\ rec.pid = pid[p] /\ rec.host = HostOf[p]

(* Why: only a process itself writes its record into the file, and then it *)
(* knows it; while it is writing, the file is not yet its own.             *)
KnownInv ==
  /\ \A p \in Inst : pc[p] = "down" => pid[p] = NoPid
  /\ \A p, q \in Inst : HostOf[p] = HostOf[q] /\ pid[p] = pid[q] /\ pid[p] # NoPid => p = q
  /\ \A p \in Inst : pc[p] = "encode" => Its(p, local[p])
  /\ \A p \in Inst : pc[p] \in {"truncate", "rewrite"} =>
       Its(p, local[p]) /\ local[p].start = info[p].start /\ local[p].rule = rule[p]
  /\ \A p \in Inst : Readable /\ file.host = HostOf[p] /\ file.pid = pid[p] =>
       /\ HeldByThisInstance(p, file)
       /\ pc[p] \notin {"rewrite", "encode"}

LEMMA InitKnownInv == Init => KnownInv
BY DEF Init, KnownInv, Readable

LEMMA NextKnownInv ==
  ASSUME ~PidRecycling, "verify" \notin FaultPoints, TypeInv, TypeInv', KnownInv, [Next]_vars
  PROVE  KnownInv'
<1> USE DEF TypeInv, TypeOK, KnownInv, Readable, HeldByThisInstance, Its
<1>0. /\ None \notin LockInfo /\ Absent \notin LockInfo /\ Empty \notin LockInfo
      /\ Empty # Absent /\ NoPid \notin Pid
      /\ \A rec \in LockInfo : rec.pid \in Pid
  BY ConstantsAssumption DEF LockInfo
<1>1. ASSUME NEW p \in Inst, Start(p) PROVE KnownInv'
  <2>1. PICK n \in Pid : /\ ~ProcessExists(HostOf[p], n) /\ ~Named(n)
                         /\ pid' = [pid EXCEPT ![p] = n]
    BY <1>1 DEF Start
  <2>2. pc' = [pc EXCEPT ![p] = "idle"] /\ UNCHANGED <<file, linked, info, local, rule>>
    BY <1>1 DEF Start, Goto
  <2>3. \A q \in Inst : HostOf[q] = HostOf[p] => pid[q] # n
    BY <2>1 DEF ProcessExists
  <2>4. file \in LockInfo => file.pid # n
    BY <1>0, <2>1 DEF Named
  <2> QED
    BY <1>0, <2>1, <2>2, <2>3, <2>4
<1>2. ASSUME NEW p \in Inst, Stop(p) PROVE KnownInv'
  BY <1>0, <1>2 DEF Stop, Goto
<1>3. ASSUME NEW p \in Inst, NEW r \in Rule, Acquire(p, r) PROVE KnownInv'
  BY <1>0, <1>3 DEF Acquire, Goto
<1>4. ASSUME NEW p \in Inst, Reread(p) PROVE KnownInv'
  <2>1. CASE Readable /\ HeldByThisInstance(p, file)
    <3> DEFINE rec == [file EXCEPT !.rule = rule[p]]
    <3>1. file \in LockInfo /\ rule[p] \in Rule
      BY <1>4, <2>1 DEF Reread
    <3>2. /\ local' = [local EXCEPT ![p] = rec] /\ pc' = [pc EXCEPT ![p] = "truncate"]
          /\ UNCHANGED <<file, linked, info, rule, pid>>
      BY <1>4, <2>1 DEF Reread, Goto
    <3>3. /\ rec \in LockInfo /\ rec.pid = file.pid /\ rec.host = file.host
          /\ rec.start = file.start /\ rec.rule = rule[p]
      BY <3>1 DEF LockInfo
    <3> HIDE DEF rec
    <3>4. Its(p, local[p])' /\ local'[p].start = info'[p].start /\ local'[p].rule = rule'[p]
      BY <2>1, <3>2, <3>3
    <3> QED
      BY <1>0, <1>4, <2>1, <3>2, <3>4 DEF Reread
  <2>2. CASE ~(Readable /\ HeldByThisInstance(p, file))
    BY <1>0, <1>4, <2>2 DEF Reread, Goto
  <2> QED
    BY <2>1, <2>2
<1>5. ASSUME NEW p \in Inst, Truncate(p) PROVE KnownInv'
  BY <1>0, <1>5 DEF Truncate, Goto
<1>6. ASSUME NEW p \in Inst, Rewrite(p) PROVE KnownInv'
  <2>1. pc[p] = "rewrite" /\ Its(p, local[p]) /\ local[p].rule = rule[p]
        /\ local[p].start = info[p].start /\ info[p] \in LockInfo
    BY <1>6 DEF Rewrite, RecordsAtHand
  <2>2. /\ file' = (IF linked[p] THEN local[p] ELSE file)
        /\ pc' = [pc EXCEPT ![p] = IF "granted" = "granted" THEN "held" ELSE "idle"]
        /\ info' = [info EXCEPT ![p] = [info[p] EXCEPT !.rule = rule[p]]]
        /\ local' = [local EXCEPT ![p] = None]
        /\ UNCHANGED <<rule, pid>>
    BY <1>6, <2>1 DEF Rewrite, Return
  <2>3. info'[p] \in LockInfo /\ info'[p].start = info[p].start /\ info'[p].rule = rule[p]
    BY <2>1, <2>2 DEF LockInfo
  <2> QED
    BY <1>0, <2>1, <2>2, <2>3
<1>7. ASSUME NEW p \in Inst, Read(p) PROVE KnownInv'
  BY <1>0, <1>7 DEF Read, Goto
<1>8. ASSUME NEW p \in Inst, Check(p) PROVE KnownInv'
  BY <1>0, <1>8 DEF Check, Goto, Return
<1>9. ASSUME NEW p \in Inst, RemoveStale(p) PROVE KnownInv'
  BY <1>0, <1>9 DEF RemoveStale, Unlinked, Goto, Return
<1>10. ASSUME NEW p \in Inst, Create(p) PROVE KnownInv'
  <2> DEFINE rec == [pid |-> pid[p], host |-> HostOf[p], start |-> now, rule |-> rule[p]]
  <2>1. CASE file = Absent
    <3>1. pc[p] = "create" /\ pid[p] \in Pid
      BY <1>10 DEF Create, RecordsAtHand
    <3>2. rec \in LockInfo /\ rec.pid = pid[p] /\ rec.host = HostOf[p]
      BY <3>1, ConstantsAssumption DEF LockInfo
    <3>3. /\ file' = Empty /\ local' = [local EXCEPT ![p] = rec]
          /\ pc' = [pc EXCEPT ![p] = "encode"] /\ UNCHANGED <<info, rule, pid>>
      BY <1>10, <2>1 DEF Create, Goto
    <3> HIDE DEF rec
    <3>4. Its(p, local[p])'
      BY <3>2, <3>3
    <3> QED
      BY <1>0, <3>1, <3>3, <3>4
  <2>2. CASE file # Absent
    BY <1>0, <1>10, <2>2 DEF Create, Goto
  <2> QED
    BY <2>1, <2>2
<1>11. ASSUME NEW p \in Inst, Exists(p) PROVE KnownInv'
  BY <1>0, <1>11 DEF Exists, Return
<1>12. ASSUME NEW p \in Inst, Encode(p) PROVE KnownInv'
  BY <1>0, <1>12 DEF Encode, Return
<1>13. ASSUME NEW p \in Inst, Undo(p) \/ Unlink(p) \/ ForceRelease(p) PROVE KnownInv'
  BY <1>0, <1>13 DEF Undo, Unlink, ForceRelease, Unlinked, Return
<1>14. ASSUME NEW p \in Inst, Release(p) PROVE KnownInv'
  BY <1>0, <1>14 DEF Release, Goto
<1>15. ASSUME NEW p \in Inst, Verify(p) PROVE KnownInv'
  BY <1>0, <1>15 DEF Verify, Goto, Return
<1>16. ASSUME NEW p \in Inst, IOFault(p) PROVE KnownInv'
  BY <1>0, <1>16 DEF IOFault, Goto, Return
<1>17. CASE Tick \/ UNCHANGED vars
  BY <1>17 DEF Tick, vars
<1> QED
  BY <1>1, <1>2, <1>3, <1>4, <1>5, <1>6, <1>7, <1>8, <1>9, <1>10, <1>11, <1>12, <1>13, <1>14,
     <1>15, <1>16, <1>17 DEF Next, Step

(* What lock.go:72-74 calls critical: no lock file names a live process    *)
(* whose FileLock does not carry the very record, wherever processes end   *)
(* and whatever calls fail, the read in Release excepted.                  *)
THEOREM LockRemembered ==
  ASSUME ~PidRecycling, "verify" \notin FaultPoints PROVE Spec => []NoForgottenLock
<1>1. Init => TypeInv /\ KnownInv
  BY InitTypeInv, InitKnownInv
<1>2. TypeInv /\ KnownInv /\ [Next]_vars => TypeInv' /\ KnownInv'
  BY NextTypeInv, NextKnownInv
<1>3. KnownInv => NoForgottenLock
  BY DEF KnownInv, NoForgottenLock
<1> QED BY <1>1, <1>2, <1>3, PTL DEF Spec

-----------------------------------------------------------------------------
(* In a calm world whose system calls do not fail the lock file is the     *)
(* try-lock of SyncMutex, and its holder is visible in it.                 *)
Reliable == Calm /\ FaultPoints = {}

(* Why: an instance that is in has its record in the file, or has the file *)
(* open and its record in hand; and there is no file without its owner.    *)
VisibleInv ==
  /\ \A p \in Inst : info[p] # None <=> pc[p] \in Owning \ {"encode"}
  /\ \A p \in Inst : pc[p] # "undo"
  /\ \A p \in Inst : pc[p] \in {"held", "reread", "truncate", "verify", "unlink"} =>
       Readable /\ HeldByThisInstance(p, file)
  /\ \A p \in Inst : pc[p] \in {"encode", "rewrite"} => linked[p]
  /\ \A p \in Inst : pc[p] = "encode" => Its(p, local[p])
  /\ \A p \in Inst : pc[p] \in {"truncate", "rewrite"} =>
       Its(p, local[p]) /\ local[p].start = info[p].start /\ local[p].rule = rule[p]
  /\ file # Absent => \E p \in Inst : pc[p] \in Owning

-----------------------------------------------------------------------------
(* Whoever is in owns the lock, so there is one at most.                   *)
LEMMA OneIsIn ==
  ASSUME OwnerInv, VisibleInv, NEW p \in Inst, NEW q \in Inst, pc[p] \in Owning, pc[q] \in Owning
  PROVE  p = q
<1>1. Owns(p) /\ Owns(q)
  BY DEF VisibleInv, Owns, Owning
<1> QED
  BY <1>1 DEF OwnerInv

LEMMA InitVisibleInv == Init => VisibleInv
BY DEF Init, VisibleInv, Owning

(* No step of a reliable world disturbs the invariant.                     *)
LEMMA NextVisibleInv ==
  ASSUME Reliable, TypeInv, TypeInv', OwnerInv, OwnerInv', VisibleInv, [Next]_vars
  PROVE  VisibleInv'
<1> USE DEF TypeInv, TypeOK, VisibleInv, Owning, Readable, HeldByThisInstance, Its
<1>0. /\ None \notin LockInfo /\ Absent \notin LockInfo /\ Empty \notin LockInfo
      /\ Empty # Absent /\ NoPid \notin Pid
  BY ConstantsAssumption
<1>1. ASSUME NEW p \in Inst, Start(p) PROVE VisibleInv'
  BY <1>0, <1>1 DEF Start, Goto
<1>2. ASSUME NEW p \in Inst, NEW r \in Rule, Acquire(p, r) PROVE VisibleInv'
  BY <1>0, <1>2 DEF Acquire, Goto
<1>3. ASSUME NEW p \in Inst, Reread(p) PROVE VisibleInv'
  <2>1. Readable /\ HeldByThisInstance(p, file) /\ file \in LockInfo /\ rule[p] \in Rule
    BY <1>3 DEF Reread
  <2> DEFINE rec == [file EXCEPT !.rule = rule[p]]
  <2>2. /\ local' = [local EXCEPT ![p] = rec] /\ pc' = [pc EXCEPT ![p] = "truncate"]
        /\ UNCHANGED <<file, linked, info, rule, pid>>
    BY <1>3, <2>1 DEF Reread, Goto
  <2>3. /\ rec \in LockInfo /\ rec.pid = file.pid /\ rec.host = file.host
        /\ rec.start = file.start /\ rec.rule = rule[p]
    BY <2>1 DEF LockInfo
  <2> HIDE DEF rec
  <2>4. Its(p, local[p])' /\ local'[p].start = info'[p].start /\ local'[p].rule = rule'[p]
    BY <2>1, <2>2, <2>3
  <2>5. pc[p] = "reread"
    BY <1>3 DEF Reread
  <2> QED
    BY <2>1, <2>2, <2>4, <2>5
<1>4. ASSUME NEW p \in Inst, Truncate(p) PROVE VisibleInv'
  BY <1>0, <1>4, OneIsIn DEF Truncate, Goto
<1>5. ASSUME NEW p \in Inst, Rewrite(p) PROVE VisibleInv'
  <2>1. pc[p] = "rewrite" /\ linked[p] /\ Its(p, local[p]) /\ local[p].rule = rule[p]
        /\ local[p].start = info[p].start /\ info[p] \in LockInfo
    BY <1>5 DEF Rewrite
  <2>2. /\ file' = local[p] /\ pc' = [pc EXCEPT ![p] = "held"]
        /\ info' = [info EXCEPT ![p] = [info[p] EXCEPT !.rule = rule[p]]]
        /\ linked' = [linked EXCEPT ![p] = FALSE] /\ local' = [local EXCEPT ![p] = None]
        /\ UNCHANGED <<rule, pid>>
    BY <1>5, <2>1 DEF Rewrite, Return
  <2>3. /\ info'[p] \in LockInfo /\ info'[p].start = info[p].start /\ info'[p].rule = rule[p]
    BY <2>1, <2>2 DEF LockInfo
  <2>4. Readable' /\ HeldByThisInstance(p, file)'
    BY <1>0, <2>1, <2>2, <2>3
  <2>5. \A q \in Inst \ {p} : pc[q] \notin Owning /\ pc'[q] = pc[q] /\ info'[q] = info[q]
    BY <2>1, <2>2, OneIsIn
  <2> QED
    BY <1>0, <2>1, <2>2, <2>3, <2>4, <2>5
<1>6. ASSUME NEW p \in Inst, Read(p) PROVE VisibleInv'
  BY <1>0, <1>6 DEF Read, Goto
<1>7. ASSUME NEW p \in Inst, Check(p) PROVE VisibleInv'
  BY <1>0, <1>7 DEF Check, Goto, Return
<1>8. ASSUME NEW p \in Inst, Create(p) PROVE VisibleInv'
  <2> DEFINE rec == [pid |-> pid[p], host |-> HostOf[p], start |-> now, rule |-> rule[p]]
  <2>1. CASE file # Absent
    BY <1>8, <2>1 DEF Create, Goto
  <2>2. CASE file = Absent
    <3>1. /\ pc[p] = "create" /\ pid[p] \in Pid
      BY <1>8 DEF Create, RecordsAtHand
    <3>2. /\ rec \in LockInfo /\ rec.pid = pid[p] /\ rec.host = HostOf[p]
      BY <3>1, ConstantsAssumption DEF LockInfo
    <3>3. /\ file' = Empty /\ linked' = [linked EXCEPT ![p] = TRUE]
          /\ local' = [local EXCEPT ![p] = rec] /\ pc' = [pc EXCEPT ![p] = "encode"]
          /\ UNCHANGED <<info, rule, pid>>
      BY <1>8, <2>2 DEF Create, Goto
    <3> HIDE DEF rec
    <3>4. Its(p, local[p])'
      BY <3>2, <3>3
    <3>5. \A q \in Inst : pc[q] \notin Owning
      BY <2>2 DEF OwnerInv, Owns
    <3> QED
      BY <1>0, <3>1, <3>3, <3>4, <3>5
  <2> QED
    BY <2>1, <2>2
<1>9. ASSUME NEW p \in Inst, Exists(p) PROVE VisibleInv'
  BY <1>0, <1>9 DEF Exists, Return
<1>10. ASSUME NEW p \in Inst, Encode(p) PROVE VisibleInv'
  BY <1>0, <1>10, OneIsIn DEF Encode, Return
<1>11. ASSUME NEW p \in Inst, Release(p) PROVE VisibleInv'
  BY <1>0, <1>11 DEF Release, Goto
<1>12. ASSUME NEW p \in Inst, Verify(p) PROVE VisibleInv'
  BY <1>0, <1>12 DEF Verify, Goto, Return
<1>13. ASSUME NEW p \in Inst, Unlink(p) PROVE VisibleInv'
  BY <1>0, <1>13, OneIsIn DEF Unlink, Unlinked, Return
<1>14. ASSUME NEW p \in Inst, Stop(p) \/ RemoveStale(p) \/ Undo(p) \/ ForceRelease(p) \/ IOFault(p)
       PROVE  VisibleInv'
  BY <1>14 DEF Reliable, Calm, Stop, RemoveStale, Undo, ForceRelease, IOFault, OwnerInv
<1>15. CASE Tick \/ UNCHANGED vars
  BY <1>15 DEF Tick, vars
<1> QED
  BY <1>1, <1>2, <1>3, <1>4, <1>5, <1>6, <1>7, <1>8, <1>9, <1>10, <1>11, <1>12, <1>13, <1>14,
     <1>15 DEF Next, Step

(* Whoever holds the lock is visible in the file: a second contender is    *)
(* refused and IsLocked tells the truth (lock.go:64-77, 125-133).          *)
THEOREM HolderVisible == ASSUME Reliable PROVE Spec => []HolderIsVisible
<1>1. Init => TypeInv /\ OwnerInv /\ VisibleInv
  BY InitTypeInv, InitOwnerInv, InitVisibleInv
<1>2. TypeInv /\ OwnerInv /\ VisibleInv /\ [Next]_vars => TypeInv' /\ OwnerInv' /\ VisibleInv'
  BY NextTypeInv, NextOwnerInv, NextVisibleInv DEF Reliable
<1>3. VisibleInv => HolderIsVisible
  BY DEF VisibleInv, HolderIsVisible
<1> QED BY <1>1, <1>2, <1>3, PTL DEF Spec

-----------------------------------------------------------------------------
LEMMA PlacesAfter ==
  ASSUME NEW p \in Inst, NEW l, TypeInv, pc' = [pc EXCEPT ![p] = l]
  PROVE  Places' = [Places EXCEPT ![p] = Place(l)]
BY DEF Places, TypeInv, TypeOK

(* Every step of a reliable world is a step of the try-lock or a stutter.  *)
LEMMA StepImplements ==
  ASSUME Reliable, TypeInv, TypeInv', OwnerInv, OwnerInv', VisibleInv, VisibleInv', [Next]_vars
  PROVE  [Mutex!Next]_Places
<1>0. \A p \in Inst : Places[p] = Place(pc[p])
  BY DEF Places
<1> USE <1>0, PlacesAfter DEF Place, Owning
<1>1. ASSUME NEW p \in Inst, NEW r \in Rule, Acquire(p, r) PROVE [Mutex!Next]_Places
  <2>1. CASE info[p] = None
    <3>1. pc[p] = "idle" /\ pc' = [pc EXCEPT ![p] = "read"]
      BY <1>1, <2>1 DEF Acquire, Goto, OwnerInv
    <3> QED BY <3>1 DEF Mutex!Next, Mutex!Begin
  <2>2. CASE info[p] # None
    <3>1. pc[p] = "held" /\ pc' = [pc EXCEPT ![p] = "reread"]
      BY <1>1, <2>2 DEF Acquire, Goto, VisibleInv
    <3> QED BY <3>1 DEF Places, TypeInv, TypeOK
  <2> QED BY <2>1, <2>2
<1>2. ASSUME NEW p \in Inst,
             Start(p) \/ Reread(p) \/ Truncate(p) \/ Rewrite(p) \/ Encode(p) \/ Release(p)
      PROVE  UNCHANGED Places
  <2>1. pc[p] = "reread" => Readable /\ HeldByThisInstance(p, file)
    BY DEF VisibleInv
  <2>2. \E l \in Pcs : pc' = [pc EXCEPT ![p] = l] /\ Place(l) = Place(pc[p])
    <3>1. CASE Start(p)
      BY <3>1 DEF Start, Goto, Pcs
    <3>2. CASE Reread(p)
      BY <2>1, <3>2 DEF Reread, Goto, Pcs
    <3>3. CASE Truncate(p)
      BY <3>3 DEF Truncate, Goto, Pcs
    <3>4. CASE Rewrite(p) \/ Encode(p)
      BY <3>4 DEF Rewrite, Encode, Return, Pcs
    <3>5. CASE Release(p)
      BY <3>5 DEF Release, Goto, Pcs, VisibleInv
    <3> QED BY <1>2, <3>1, <3>2, <3>3, <3>4, <3>5
  <2> QED BY <2>2 DEF Places, TypeInv, TypeOK
<1>3. ASSUME NEW p \in Inst, Read(p) PROVE [Mutex!Next]_Places
  <2>1. CASE Readable
    <3>1. pc[p] = "read" /\ pc' = [pc EXCEPT ![p] = "check"]
      BY <1>3, <2>1 DEF Read, Goto
    <3>2. \E q \in Inst : pc[q] \in Owning
      BY <2>1 DEF VisibleInv, Readable
    <3> QED BY <3>1, <3>2 DEF Mutex!Next, Mutex!Refuse
  <2>2. CASE ~Readable
    <3>1. pc[p] = "read" /\ pc' = [pc EXCEPT ![p] = "create"]
      BY <1>3, <2>2 DEF Read, Goto
    <3> QED BY <3>1 DEF Places, TypeInv, TypeOK
  <2> QED BY <2>1, <2>2
<1>4. ASSUME NEW p \in Inst, Check(p) \/ Exists(p) PROVE [Mutex!Next]_Places
  <2>1. pc[p] \in {"check", "exists"} /\ pc' = [pc EXCEPT ![p] = "idle"]
    <3>1. Check(p) => pc'[p] # "remove"
      BY DEF OwnerInv
    <3> QED BY <1>4, <3>1 DEF Check, Exists, Goto, Return, TypeInv, TypeOK
  <2>2. Place("idle") = "out"
    OBVIOUS
  <2>3. Places[p] = "refused" /\ Places' = [Places EXCEPT ![p] = "out"]
    BY <2>1, <2>2
  <2> QED BY <2>3 DEF Mutex!Next, Mutex!Return
<1>5. ASSUME NEW p \in Inst, Create(p) PROVE [Mutex!Next]_Places
  <2>1. CASE file = Absent
    <3>1. pc[p] = "create" /\ pc' = [pc EXCEPT ![p] = "encode"]
      BY <1>5, <2>1 DEF Create, Goto
    <3>2. \A q \in Inst : pc[q] \notin Owning
      BY <2>1 DEF OwnerInv, VisibleInv, Owns
    <3> QED BY <3>1, <3>2 DEF Mutex!Next, Mutex!Grant
  <2>2. CASE file # Absent
    <3>1. pc[p] = "create" /\ pc' = [pc EXCEPT ![p] = "exists"]
      BY <1>5, <2>2 DEF Create, Goto
    <3>2. \E q \in Inst : pc[q] \in Owning
      BY <2>2 DEF VisibleInv
    <3> QED BY <3>1, <3>2 DEF Mutex!Next, Mutex!Refuse
  <2> QED BY <2>1, <2>2
<1>6. ASSUME NEW p \in Inst, Verify(p) PROVE UNCHANGED Places
  <2>1. pc[p] = "verify" /\ pc' = [pc EXCEPT ![p] = "unlink"]
    BY <1>6 DEF Verify, Goto, VisibleInv
  <2> QED BY <2>1 DEF Places, TypeInv, TypeOK
<1>7. ASSUME NEW p \in Inst, Unlink(p) PROVE [Mutex!Next]_Places
  <2>1. pc[p] = "unlink" /\ pc' = [pc EXCEPT ![p] = "idle"]
    BY <1>7 DEF Unlink, Return
  <2>2. Place("idle") = "out"
    OBVIOUS
  <2>3. Places[p] = "in" /\ Places' = [Places EXCEPT ![p] = "out"]
    BY <2>1, <2>2
  <2> QED BY <2>3 DEF Mutex!Next, Mutex!Leave
<1>8. ~\E p \in Inst : Stop(p) \/ RemoveStale(p) \/ Undo(p) \/ ForceRelease(p) \/ IOFault(p)
  BY DEF Reliable, Calm, Stop, RemoveStale, Undo, ForceRelease, IOFault, OwnerInv, VisibleInv
<1>9. CASE Tick \/ UNCHANGED vars
  BY <1>9 DEF Tick, vars, Places
<1> QED
  BY <1>1, <1>2, <1>3, <1>4, <1>5, <1>6, <1>7, <1>8, <1>9 DEF Next, Step

(* FileLock implements SyncMutex: a grant when nobody is in, a refusal     *)
(* only when somebody is, though each takes several system calls.          *)
THEOREM LockIsTryLock == ASSUME Reliable PROVE Spec => ImplementsSyncMutex
<1>1. Init => TypeInv /\ OwnerInv /\ VisibleInv
  BY InitTypeInv, InitOwnerInv, InitVisibleInv
<1>2. TypeInv /\ OwnerInv /\ VisibleInv /\ [Next]_vars => TypeInv' /\ OwnerInv' /\ VisibleInv'
  BY NextTypeInv, NextOwnerInv, NextVisibleInv DEF Reliable
<1>3. Init => Mutex!Init
  BY DEF Init, Mutex!Init, Places, Place, Owning
<1>4. TypeInv /\ OwnerInv /\ VisibleInv /\ [Next]_vars => [Mutex!Next]_Places
  <2> SUFFICES ASSUME TypeInv, OwnerInv, VisibleInv, [Next]_vars PROVE [Mutex!Next]_Places
    OBVIOUS
  <2>1. TypeInv' /\ OwnerInv' /\ VisibleInv'
    BY <1>2
  <2> QED
    BY <2>1, StepImplements
<1> QED
  BY <1>1, <1>2, <1>3, <1>4, PTL DEF Spec, ImplementsSyncMutex, Mutex!Spec
=============================================================================
