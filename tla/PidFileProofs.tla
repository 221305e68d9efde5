--------------------------- MODULE PidFileProofs ---------------------------
(***************************************************************************)
(* As long as no two daemons start at once, the PID file names the daemon  *)
(* that is there: for any number of processes and pids, with crashes in    *)
(* the middle of everything and pids that come round again.                *)
(***************************************************************************)
EXTENDS PidFile, TLAPS

(* Why: somebody who is about to write has made sure that no daemon is     *)
(* there, and none can come up behind its back, for it is the only one in  *)
(* Write; somebody who has read a daemon's pid will find it alive.         *)
NamedInv ==
  ~overlapped =>
    /\ \A p, q \in Proc : at[p] \in Writing /\ at[q] \in Writing => p = q
    /\ \A p \in Proc : at[p] = "daemon" => pidfile = pid[p]
    /\ \A p, q \in Proc : at[q] = "daemon" => at[p] \notin {"clear", "create", "fill"}
    /\ \A p, q \in Proc : at[p] = "probe" /\ at[q] = "daemon" => seen[p] = pid[q]
    /\ \A p \in Proc : at[p] = "fill" => linked[p] /\ pidfile = Unreadable

PidInv == PidTypeOK /\ (\A p \in Proc : ~Alive(p) => at[p] = "apart") /\ NamedInv

USE PidAssumption

LEMMA InitPidInv == PidInit => PidInv
<1> SUFFICES ASSUME PidInit PROVE PidInv
  OBVIOUS
<1>1. PidTypeOK
  <2>1. at \in [Proc -> Writing \cup {"apart", "daemon", "left", "refused"}]
    BY DEF PidInit
  <2>2. starts \in 0..MaxStarts
    BY DEF PidInit
  <2> QED
    BY <2>1, <2>2 DEF PidInit, PidTypeOK
<1>2. \A p \in Proc : ~Alive(p) => at[p] = "apart"
  BY DEF PidInit, Alive
<1>3. NamedInv
  BY DEF PidInit, NamedInv, Writing
<1> QED
  BY <1>1, <1>2, <1>3 DEF PidInv

(* Types, and that a slot without a process is apart, step by step.        *)
LEMMA PidTypeStep ==
  ASSUME PidTypeOK, \A p \in Proc : ~Alive(p) => at[p] = "apart", [PidNext]_pidVars
  PROVE  PidTypeOK' /\ (\A p \in Proc : ~Alive(p) => at[p] = "apart")'
<1> USE DEF PidTypeOK, Alive
<1>1. CASE UNCHANGED pidVars
  BY <1>1 DEF pidVars
<1>2. ASSUME NEW p \in Proc, NEW d \in Pid, StartProcess(p, d)
      PROVE  PidTypeOK' /\ (\A q \in Proc : ~Alive(q) => at[q] = "apart")'
  BY <1>2 DEF StartProcess, IsRunning
<1>3. ASSUME NEW p \in Proc, EndProcess(p)
      PROVE  PidTypeOK' /\ (\A q \in Proc : ~Alive(q) => at[q] = "apart")'
  BY <1>3 DEF EndProcess
<1>4. ASSUME NEW p \in Proc, Write(p)
      PROVE  PidTypeOK' /\ (\A q \in Proc : ~Alive(q) => at[q] = "apart")'
  BY <1>4 DEF Write, Step, Writing
<1>5. ASSUME NEW p \in Proc, Stat(p) \/ Read(p) \/ Probe(p)
      PROVE  PidTypeOK' /\ (\A q \in Proc : ~Alive(q) => at[q] = "apart")'
  BY <1>5 DEF Stat, Read, Probe, Step, Writing
<1>6. ASSUME NEW p \in Proc, Clear(p) \/ Remove(p)
      PROVE  PidTypeOK' /\ (\A q \in Proc : ~Alive(q) => at[q] = "apart")'
  BY <1>6 DEF Clear, Remove, Unlinked, Step, Writing
<1>7. ASSUME NEW p \in Proc, Create(p)
      PROVE  PidTypeOK' /\ (\A q \in Proc : ~Alive(q) => at[q] = "apart")'
  BY <1>7 DEF Create, Step, Writing
<1>8. ASSUME NEW p \in Proc, Fill(p)
      PROVE  PidTypeOK' /\ (\A q \in Proc : ~Alive(q) => at[q] = "apart")'
  BY <1>8 DEF Fill, Step, Writing
<1> QED
  BY <1>1, <1>2, <1>3, <1>4, <1>5, <1>6, <1>7, <1>8 DEF PidNext, WriteStep

(* What the file says about the daemon, step by step.                      *)
LEMMA NamedStep ==
  ASSUME PidInv, [PidNext]_pidVars
  PROVE  NamedInv'
<1> SUFFICES ASSUME ~overlapped'
             PROVE  NamedInv'
  BY DEF NamedInv
<1>0. ~overlapped
  BY DEF PidInv, PidTypeOK, PidNext, WriteStep, StartProcess, EndProcess, Write, Stat, Read,
         Probe, Clear, Create, Fill, Remove, pidVars
<1> USE <1>0 DEF PidInv, PidTypeOK, NamedInv, Alive, Writing
<1>1. CASE UNCHANGED pidVars
  BY <1>1 DEF pidVars
<1>2. ASSUME NEW p \in Proc, NEW d \in Pid, StartProcess(p, d) PROVE NamedInv'
  BY <1>2 DEF StartProcess, IsRunning
<1>3. ASSUME NEW p \in Proc, EndProcess(p) PROVE NamedInv'
  BY <1>3 DEF EndProcess
<1>4. ASSUME NEW p \in Proc, Write(p) PROVE NamedInv'
  <2>1. \A q \in Proc : at[q] \notin Writing
    BY <1>4 DEF Write
  <2>2. at' = [at EXCEPT ![p] = "stat"] /\ UNCHANGED <<pidfile, pid, seen, linked>>
    BY <1>4 DEF Write, Step
  <2>3. \A q \in Proc \ {p} : at'[q] = at[q]
    BY <2>2
  <2>4. at'[p] = "stat"
    BY <2>2
  <2>5. \A q, r \in Proc : at'[q] \in Writing /\ at'[r] \in Writing => q = r
    BY <2>1, <2>3
  <2>6. \A q \in Proc : at'[q] = "daemon" => at[q] = "daemon"
    BY <2>3, <2>4
  <2>7. \A q \in Proc : at'[q] \notin {"probe", "clear", "create", "fill"}
    BY <2>1, <2>3, <2>4
  <2> QED
    BY <2>2, <2>5, <2>6, <2>7
<1>5. ASSUME NEW p \in Proc, Stat(p) PROVE NamedInv'
  BY <1>5 DEF Stat, Step
<1>6. ASSUME NEW p \in Proc, Read(p) PROVE NamedInv'
  BY <1>6 DEF Read, Step
<1>7. ASSUME NEW p \in Proc, Probe(p) PROVE NamedInv'
  BY <1>7 DEF Probe, Step, IsRunning
<1>8. ASSUME NEW p \in Proc, Clear(p) PROVE NamedInv'
  BY <1>8 DEF Clear, Unlinked, Step
<1>9. ASSUME NEW p \in Proc, Create(p) PROVE NamedInv'
  BY <1>9 DEF Create, Step
<1>10. ASSUME NEW p \in Proc, Fill(p) PROVE NamedInv'
  BY <1>10 DEF Fill, Step
<1>11. ASSUME NEW p \in Proc, Remove(p) PROVE NamedInv'
  BY <1>11 DEF Remove, Unlinked, Step
<1> QED
  BY <1>1, <1>2, <1>3, <1>4, <1>5, <1>6, <1>7, <1>8, <1>9, <1>10, <1>11 DEF PidNext, WriteStep

LEMMA PidInvAlways == PidSpec => []PidInv
<1>1. PidInv /\ [PidNext]_pidVars => PidInv'
  BY PidTypeStep, NamedStep DEF PidInv
<1> QED
  BY InitPidInv, <1>1, PTL DEF PidSpec

(* The PID file names the one daemon that is there, whatever has crashed   *)
(* before, as long as no two have written it at once (pidfile.go:37-58).   *)
THEOREM FileNamesDaemon == PidSpec => []DaemonIsNamed
<1>1. PidInv => DaemonIsNamed
  BY DEF PidInv, NamedInv, DaemonIsNamed
<1> QED
  BY PidInvAlways, <1>1, PTL
-----------------------------------------------------------------------------
(* Why nobody is refused without cause: whoever owns a pid that the file   *)
(* names, or that somebody has read there, is a daemon or was one, for it  *)
(* wrote that pid itself, unless the pid went to a new process.            *)
OwnerInv ==
  /\ \A p \in Proc : at[p] = "probe" => seen[p] \in Pid
  /\ ~recycled =>
       \A q \in Proc : Alive(q) /\ (pid[q] = pidfile \/ \E p \in Proc : seen[p] = pid[q])
                         => at[q] \in {"daemon", "left"}

LEMMA OwnerStep ==
  ASSUME PidTypeOK, OwnerInv, [PidNext]_pidVars
  PROVE  OwnerInv'
<1>0. ~recycled' => ~recycled
  BY DEF PidTypeOK, PidNext, WriteStep, StartProcess, EndProcess, Write, Stat, Read, Probe,
         Clear, Create, Fill, Remove, pidVars
<1> USE <1>0 DEF PidTypeOK, OwnerInv, Alive
<1>1. CASE UNCHANGED pidVars
  BY <1>1 DEF pidVars
<1>2. ASSUME NEW p \in Proc, NEW d \in Pid, StartProcess(p, d) PROVE OwnerInv'
  BY <1>2 DEF StartProcess
<1>3. ASSUME NEW p \in Proc, EndProcess(p) PROVE OwnerInv'
  BY <1>3 DEF EndProcess
<1>4. ASSUME NEW p \in Proc, Write(p) \/ Stat(p) PROVE OwnerInv'
  BY <1>4 DEF Write, Stat, Step
<1>5. ASSUME NEW p \in Proc, Read(p) PROVE OwnerInv'
  BY <1>5 DEF Read, Step
<1>6. ASSUME NEW p \in Proc, Probe(p) PROVE OwnerInv'
  BY <1>6 DEF Probe, Step
<1>7. ASSUME NEW p \in Proc, Clear(p) \/ Remove(p) PROVE OwnerInv'
  BY <1>7 DEF Clear, Remove, Unlinked, Step
<1>8. ASSUME NEW p \in Proc, Create(p) PROVE OwnerInv'
  BY <1>8 DEF Create, Step
<1>9. ASSUME NEW p \in Proc, Fill(p) PROVE OwnerInv'
  BY <1>9 DEF Fill, Step
<1> QED
  BY <1>1, <1>2, <1>3, <1>4, <1>5, <1>6, <1>7, <1>8, <1>9 DEF PidNext, WriteStep

(* A daemon is refused only while another is there or about to end, unless *)
(* the file's pid has a new owner (pidfile.go:41).                         *)
THEOREM RefusalsJustified == PidSpec => RefusedOnlyByDaemon
<1>1. PidInit => OwnerInv
  BY DEF PidInit, OwnerInv, Alive
<1>2. PidTypeOK /\ OwnerInv /\ [PidNext]_pidVars => OwnerInv'
  BY OwnerStep
<1>3. ASSUME PidTypeOK, OwnerInv, [PidNext]_pidVars
      PROVE  [\A p \in Proc : at[p] # "refused" /\ at'[p] = "refused" =>
                recycled \/ \E q \in Proc \ {p} : at[q] \in {"daemon", "left"}]_pidVars
  <2> SUFFICES ASSUME PidNext, NEW p \in Proc, at[p] # "refused", at'[p] = "refused", ~recycled
               PROVE  \E q \in Proc \ {p} : at[q] \in {"daemon", "left"}
    BY <1>3
  <2>1. Probe(p) /\ at[p] = "probe" /\ IsRunning(seen[p])
    <3>1. PICK a \in Proc : \/ EndProcess(a) \/ Write(a) \/ WriteStep(a) \/ Remove(a)
                            \/ \E d \in Pid : StartProcess(a, d)
      BY DEF PidNext
    <3>2. a = p
      BY <1>3, <3>1 DEF PidTypeOK, WriteStep, StartProcess, EndProcess, Write, Stat, Read, Probe,
                        Clear, Create, Fill, Remove, Step
    <3> QED
      BY <1>3, <3>1, <3>2 DEF PidTypeOK, WriteStep, StartProcess, EndProcess, Write, Stat, Read,
                              Probe, Clear, Create, Fill, Remove, Step
  <2>2. PICK q \in Proc : pid[q] = seen[p]
    BY <2>1 DEF IsRunning
  <2> QED
    BY <1>3, <2>1, <2>2 DEF OwnerInv, Alive
<1>4. PidInv => PidTypeOK
  BY DEF PidInv
<1> QED
  BY PidInvAlways, <1>1, <1>2, <1>3, <1>4, PTL DEF PidSpec, RefusedOnlyByDaemon
=============================================================================
