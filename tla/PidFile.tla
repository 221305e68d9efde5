------------------------------ MODULE PidFile ------------------------------
(***************************************************************************)
(* internal/daemon/pidfile.go: daemons of one user share a PID file.  Each *)
(* of its system calls is a step.  Slots of Proc run one process after     *)
(* another; the programs that call PIDFile are outside src/: a daemon      *)
(* writes the file before its first round and removes it after its last    *)
(* (docs/daemon-usage.md, pidfile_test.go).  A signal of Kill is one of the *)
(* things that make a daemon leave or a process end, at any moment.        *)
(***************************************************************************)
EXTENDS Naturals, FiniteSets

CONSTANTS
  Proc,        \* slots for processes of this program, daemons or not
  Pid,         \* process ids
  NoPid,
  Absent,      \* the file is not there
  Unreadable,  \* the file is there, and Atoi makes nothing of it
  MaxStarts    \* bound: processes started

ASSUME PidAssumption ==
  /\ NoPid \notin Pid /\ Absent \notin Pid /\ Unreadable \notin Pid
  /\ Absent # Unreadable
  /\ MaxStarts \in Nat

VARIABLES
  pidfile,     \* what is at p.path
  pid,         \* pid[p]: its pid, NoPid when there is no process
  at,          \* at[p]: "apart" from the file, "daemon", "left", or the next call
  seen,        \* seen[p]: the pid that Read has given it
  linked,      \* linked[p]: the file it has open is still the one at the path
  starts,      \* processes started so far
  overlapped,  \* history: two have been in Write at once
  recycled     \* history: a pid that the file named, or that somebody had
               \* read from it, was given to a new process

pidVars == <<pidfile, pid, at, seen, linked, starts, overlapped, recycled>>

Writing == {"stat", "read", "probe", "clear", "create", "fill"}

PidTypeOK ==
  /\ pidfile \in Pid \cup {Absent, Unreadable}
  /\ pid \in [Proc -> Pid \cup {NoPid}]
  /\ at \in [Proc -> Writing \cup {"apart", "daemon", "left", "refused"}]
  /\ seen \in [Proc -> Pid \cup {NoPid}]
  /\ linked \in [Proc -> BOOLEAN]
  /\ \A p \in Proc : linked[p] => at[p] = "fill" /\ pidfile # Absent
  /\ \A p, q \in Proc : pid[p] = pid[q] => p = q \/ pid[p] = NoPid
  /\ starts \in 0..MaxStarts
  /\ overlapped \in BOOLEAN /\ recycled \in BOOLEAN

Alive(p) == pid[p] # NoPid
Step(p, from, to) == at[p] = from /\ Alive(p) /\ at' = [at EXCEPT ![p] = to]

(* isProcessRunning.  All processes are the user's: signal 0 reaches each. *)
IsRunning(d) == \E p \in Proc : pid[p] = d

Unlinked == pidfile' = Absent /\ linked' = [p \in Proc |-> FALSE]

(* The system starts a process; any free pid will do.                      *)
StartProcess(p, d) ==
  /\ ~Alive(p) /\ ~IsRunning(d) /\ starts < MaxStarts
  /\ pid' = [pid EXCEPT ![p] = d]
  /\ starts' = starts + 1
  /\ recycled' = (recycled \/ d = pidfile \/ \E q \in Proc : seen[q] = d)
  /\ UNCHANGED <<pidfile, at, seen, linked, overlapped>>

(* A process ends, in good order or in the middle of anything; so does a   *)
(* Write whose system call fails, and it leaves what a crash would.        *)
EndProcess(p) ==
  /\ Alive(p)
  /\ pid' = [pid EXCEPT ![p] = NoPid]
  /\ at' = [at EXCEPT ![p] = "apart"]
  /\ seen' = [seen EXCEPT ![p] = NoPid]
  /\ linked' = [linked EXCEPT ![p] = FALSE]
  /\ UNCHANGED <<pidfile, starts, overlapped, recycled>>

Write(p) ==
  /\ Step(p, "apart", "stat")
  /\ overlapped' = (overlapped \/ \E q \in Proc : at[q] \in Writing)
  /\ UNCHANGED <<pidfile, pid, seen, linked, starts, recycled>>

(* Slip: whatever is there is taken for stale. *)
StatClears(p) ==
  /\ Step(p, "stat", IF pidfile = Absent THEN "create" ELSE "clear")
  /\ UNCHANGED <<pidfile, pid, seen, linked, starts, overlapped, recycled>>

Stat(p) ==
  /\ Step(p, "stat", IF pidfile = Absent THEN "create" ELSE "read")
  /\ UNCHANGED <<pidfile, pid, seen, linked, starts, overlapped, recycled>>

(* Slip: an error of Read counts as a daemon that is there. *)
ReadWary(p) ==
  /\ Step(p, "read", IF pidfile \in Pid THEN "probe" ELSE "refused")
  /\ seen' = [seen EXCEPT ![p] = IF pidfile \in Pid THEN pidfile ELSE NoPid]
  /\ UNCHANGED <<pidfile, pid, linked, starts, overlapped, recycled>>

(* IsRunning reads the file: an error of Read counts as nobody running.    *)
Read(p) ==
  /\ Step(p, "read", IF pidfile \in Pid THEN "probe" ELSE "clear")
  /\ seen' = [seen EXCEPT ![p] = IF pidfile \in Pid THEN pidfile ELSE NoPid]
  /\ UNCHANGED <<pidfile, pid, linked, starts, overlapped, recycled>>

Probe(p) ==
  /\ Step(p, "probe", IF IsRunning(seen[p]) THEN "refused" ELSE "clear")
  /\ seen' = [seen EXCEPT ![p] = NoPid]
  /\ UNCHANGED <<pidfile, pid, linked, starts, overlapped, recycled>>

Clear(p) ==
  /\ Step(p, "clear", "create")
  /\ Unlinked
  /\ UNCHANGED <<pid, seen, starts, overlapped, recycled>>

(* os.WriteFile: the file is made or cut to nothing, ...                   *)
Create(p) ==
  /\ Step(p, "create", "fill")
  /\ pidfile' = Unreadable
  /\ linked' = [linked EXCEPT ![p] = TRUE]
  /\ UNCHANGED <<pid, seen, starts, overlapped, recycled>>

(* ... then the pid goes in, over a pid that somebody has put there        *)
(* meanwhile, whose last digits may stay.                                  *)
Fill(p) ==
  /\ Step(p, "fill", "daemon")
  /\ IF linked[p] THEN \/ pidfile' = pid[p]
                       \/ pidfile \in Pid /\ pidfile' = Unreadable
     ELSE UNCHANGED pidfile
  /\ linked' = [linked EXCEPT ![p] = FALSE]
  /\ UNCHANGED <<pid, seen, starts, overlapped, recycled>>

(* Remove, by a daemon that has done its work: it asks for no name.        *)
Remove(p) ==
  /\ Step(p, "daemon", "left")
  /\ Unlinked
  /\ UNCHANGED <<pid, seen, starts, overlapped, recycled>>

WriteStep(p) == Stat(p) \/ Read(p) \/ Probe(p) \/ Clear(p) \/ Create(p) \/ Fill(p)

PidInit ==
  /\ pidfile = Absent /\ starts = 0
  /\ pid = [p \in Proc |-> NoPid] /\ seen = [p \in Proc |-> NoPid]
  /\ at = [p \in Proc |-> "apart"]
  /\ linked = [p \in Proc |-> FALSE]
  /\ overlapped = FALSE /\ recycled = FALSE

PidNext == \E p \in Proc :
  \/ EndProcess(p) \/ Write(p) \/ WriteStep(p) \/ Remove(p)
  \/ \E d \in Pid : StartProcess(p, d)

PidSpec == PidInit /\ [][PidNext]_pidVars
-----------------------------------------------------------------------------
(* As long as no two daemons start at once, the file names the daemon that *)
(* is there, so there is one at most, and status and stop find it;         *)
(* whatever crashes left there before (pidfile.go:37-58).                  *)
DaemonIsNamed ==
  ~overlapped => \A p \in Proc : at[p] = "daemon" => pidfile = pid[p]

(* A daemon is refused only while another is there, or about to end: what  *)
(* a crash leaves, an empty file included, keeps nobody out, unless its    *)
(* pid has a new owner (pidfile.go:41, and docs/daemon-usage.md:316:       *)
(* "stale files are auto-cleaned").                                        *)
RefusedOnlyByDaemon ==
  [][\A p \in Proc : at[p] # "refused" /\ at'[p] = "refused" =>
       recycled \/ \E q \in Proc \ {p} : at[q] \in {"daemon", "left"}]_pidVars
=============================================================================
