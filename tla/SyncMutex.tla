------------------------------ MODULE SyncMutex ------------------------------
(***************************************************************************)
(* What internal/lock promises its callers: a try-lock.  An attempt either *)
(* gets the lock, and then nobody else has it, or is refused, and then     *)
(* somebody else had it at some moment of the attempt.  No attempt waits.  *)
(***************************************************************************)
CONSTANT Inst            \* the lock instances that compete for one lock file

VARIABLE st              \* st[p]: where instance p stands

Init == st = [p \in Inst |-> "out"]

Begin(p) == st[p] = "out" /\ st' = [st EXCEPT ![p] = "trying"]

Grant(p) ==
  /\ st[p] = "trying"
  /\ \A q \in Inst : st[q] # "in"
  /\ st' = [st EXCEPT ![p] = "in"]

Refuse(p) ==
  /\ st[p] = "trying"
  /\ \E q \in Inst : st[q] = "in"
  /\ st' = [st EXCEPT ![p] = "refused"]

Return(p) == st[p] = "refused" /\ st' = [st EXCEPT ![p] = "out"]

Leave(p) == st[p] = "in" /\ st' = [st EXCEPT ![p] = "out"]

Next == \E p \in Inst : Begin(p) \/ Grant(p) \/ Refuse(p) \/ Return(p) \/ Leave(p)

Spec == Init /\ [][Next]_st

(* At most one instance is in: what lock_test.go TestConcurrentAcquire     *)
(* asks of internal/lock.                                                  *)
AtMostOne == \A p, q \in Inst : st[p] = "in" /\ st[q] = "in" => p = q
=============================================================================
