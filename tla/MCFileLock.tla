----------------------------- MODULE MCFileLock -----------------------------
(* Instances of FileLock for TLC. *)
EXTENDS FileLock, TLC

CONSTANTS p1, p2, p3, h1, h2, n1, n2, n3, n4

OneHost == [p \in Inst |-> h1]

(* p1 and p2 share a host; every other instance runs on a second one *)
TwoHosts == [p \in Inst |-> IF p \in {p1, p2} THEN h1 ELSE h2]

(* every step, and the pauses between calls *)
Anywhere == Pcs \ {"down"}

(* every call may fail, but for the read in Release *)
NotReadFaults == FaultyCalls \ {"verify"}

AtRest == {"idle"}

PidSymmetry == Permutations(Pid)
=============================================================================
