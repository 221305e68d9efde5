------------------------------ MODULE FileLock ------------------------------
(***************************************************************************)
(* internal/lock/lock.go: the lock file <dir>/.syncrules.lock by which     *)
(* processes keep their synchronisations apart.  A FileLock instance here  *)
(* is one process (the program makes one per SyncService).  Every system   *)
(* call on the file is a step of its own: the processes interleave between *)
(* the read of the lock and the verdict on it, between the verdict and the *)
(* removal, between the creation of the file and the writing of its        *)
(* content.                                                                *)
(***************************************************************************)
EXTENDS Integers

CONSTANTS
  Inst,          \* FileLock instances
  Host,          \* host names
  HostOf,        \* HostOf[p]: the host instance p runs on
  Pid,           \* process ids a host hands out
  Rule,          \* rule names
  StaleTimeout,  \* FileLock.staleTimeout, in ticks
  MaxTime,       \* bound: the last tick of the clock
  MaxLives,      \* bound: how many processes each instance slot runs
  Mortal,        \* the instances whose process may end ...
  StopPoints,    \* ... when pc is one of these ("idle": a normal exit)
  PidRecycling,  \* may a new process get the pid the lock file names?
  AllowForce,    \* does anyone call ForceRelease?
  FaultPoints,   \* the steps whose system call the OS may refuse
  Absent,        \* no file at lockPath
  Empty,         \* a file without a complete LockInfo: it does not parse
  None,          \* a nil *LockInfo
  NoPid          \* no process

VARIABLES
  file,          \* what is at lockPath
  linked,        \* linked[p]: p's open descriptor is the file at lockPath
  info,          \* info[p]: FileLock.info, what p believes it holds
  local,         \* local[p]: the LockInfo the call in progress works with
  rule,          \* rule[p]: the ruleName argument of the last Acquire
  pid,           \* pid[p]: the process of instance p
  lives,         \* lives[p]: processes instance slot p has run
  pc,            \* pc[p]: the next step of the call in progress
  outcome,       \* outcome[p]: what the last call returned
  now            \* the clock

vars == <<file, linked, info, local, rule, pid, lives, pc, outcome, now>>

LockInfo == [pid : Pid, host : Host, start : 0..MaxTime, rule : Rule]

Pcs == {"down", "idle", "held",
        "reread", "truncate", "rewrite",                      \* lock.go:64-77
        "read", "check", "remove", "create", "exists",        \* lock.go:80-121
        "encode", "undo",                                     \* lock.go:125-132
        "verify", "unlink"}                                   \* lock.go:143-158

(* the steps with a system call that may fail, ForceRelease's included *)
FaultyCalls == {"reread", "truncate", "rewrite", "read", "remove", "create", "exists",
                "encode", "undo", "verify", "unlink", "force"}

Outcomes == {"none", "granted", "refused", "raced", "failed", "released", "stolen"}

ASSUME ConstantsAssumption ==
  /\ HostOf \in [Inst -> Host] /\ Rule # {}
  /\ StaleTimeout \in Nat /\ MaxTime \in Nat /\ MaxLives \in Nat
  /\ Mortal \subseteq Inst
  /\ StopPoints \subseteq Pcs \ {"down"}
  /\ PidRecycling \in BOOLEAN /\ AllowForce \in BOOLEAN
  /\ FaultPoints \subseteq FaultyCalls
  /\ {Absent, Empty, None} \cap LockInfo = {}
  /\ Absent # Empty
  /\ NoPid \notin Pid

TypeOK ==
  /\ file \in LockInfo \cup {Absent, Empty}
  /\ linked \in [Inst -> BOOLEAN]
  /\ info \in [Inst -> LockInfo \cup {None}]
  /\ local \in [Inst -> LockInfo \cup {None}]
  /\ rule \in [Inst -> Rule]
  /\ pid \in [Inst -> Pid \cup {NoPid}]
  /\ lives \in [Inst -> 0..MaxLives]
  /\ pc \in [Inst -> Pcs]
  /\ outcome \in [Inst -> Outcomes]
  /\ now \in 0..MaxTime

-----------------------------------------------------------------------------
(* readLockInfo succeeds *)
Readable == file \notin {Absent, Empty}

(* processExists: signal 0 to the pid, EPERM counts as alive *)
ProcessExists(h, n) == \E q \in Inst : HostOf[q] = h /\ pid[q] = n

(* Slip: the pid of another host's process is looked up on this host. *)
IsStaleAnyHost(p, rec) == ~ProcessExists(HostOf[p], rec.pid)

(* Slip: only the age of a lock counts. *)
IsStaleByAge(p, rec) == now - rec.start > StaleTimeout

(* isStale, as p judges it: a dead process on p's own host; elsewhere only *)
(* the age of the lock.                                                    *)
IsStale(p, rec) ==
  IF rec.host = HostOf[p] THEN ~ProcessExists(rec.host, rec.pid)
                          ELSE now - rec.start > StaleTimeout

HeldByThisInstance(p, rec) ==
  /\ info[p] # None
  /\ rec.pid = pid[p] /\ rec.host = HostOf[p]
  /\ rec.start = info[p].start /\ rec.rule = info[p].rule

(* IsLocked, as asked by p *)
IsLocked(p) == Readable /\ ~IsStale(p, file)

(* os.Remove: the path goes, a descriptor opened on it goes on alone *)
Unlinked == file' = Absent /\ linked' = [p \in Inst |-> FALSE]

Goto(p, label) == pc' = [pc EXCEPT ![p] = label]

Return(p, result) ==
  /\ pc' = [pc EXCEPT ![p] = IF result = "granted" THEN "held" ELSE "idle"]
  /\ outcome' = [outcome EXCEPT ![p] = result]
  /\ local' = [local EXCEPT ![p] = None]

-----------------------------------------------------------------------------
(* a pid the lock file, or a call that has read it, still names            *)
Named(n) ==
  \/ Readable /\ file.pid = n
  \/ \E q \in Inst : local[q] # None /\ local[q].pid = n

(* A process starts and makes its FileLock (NewFileLock).                  *)
Start(p) ==
  /\ pc[p] = "down" /\ lives[p] < MaxLives
  /\ \E n \in Pid :
       /\ ~ProcessExists(HostOf[p], n)
       /\ PidRecycling \/ ~Named(n)
       /\ pid' = [pid EXCEPT ![p] = n]
  /\ lives' = [lives EXCEPT ![p] = @ + 1]
  /\ Goto(p, "idle")
  /\ UNCHANGED <<file, linked, info, local, rule, outcome, now>>

(* The process ends, normally or in the middle of a call.                  *)
Stop(p) ==
  /\ p \in Mortal /\ pc[p] \in StopPoints
  /\ Goto(p, "down")
  /\ pid' = [pid EXCEPT ![p] = NoPid]
  /\ info' = [info EXCEPT ![p] = None]
  /\ local' = [local EXCEPT ![p] = None]
  /\ linked' = [linked EXCEPT ![p] = FALSE]
  /\ outcome' = [outcome EXCEPT ![p] = "none"]
  /\ UNCHANGED <<file, rule, lives, now>>

Tick ==
  /\ now < MaxTime
  /\ now' = now + 1
  /\ UNCHANGED <<file, linked, info, local, rule, pid, lives, pc, outcome>>

-----------------------------------------------------------------------------
(* Acquire *)

Acquire(p, r) ==
  /\ pc[p] \in {"idle", "held"}
  /\ rule' = [rule EXCEPT ![p] = r]
  /\ outcome' = [outcome EXCEPT ![p] = "none"]
  /\ Goto(p, IF info[p] # None THEN "reread" ELSE "read")
  /\ UNCHANGED <<file, linked, info, local, pid, lives, now>>

(* An instance that holds the lock only renames it ...                     *)
Reread(p) ==
  /\ pc[p] = "reread"
  /\ IF Readable /\ HeldByThisInstance(p, file)
       THEN /\ local' = [local EXCEPT ![p] = [file EXCEPT !.rule = rule[p]]]
            /\ Goto(p, "truncate")
       ELSE /\ Goto(p, "read")
            /\ UNCHANGED local
  /\ UNCHANGED <<file, linked, info, rule, pid, lives, outcome, now>>

(* ... os.WriteFile opens the path with O_CREATE|O_TRUNC ...               *)
Truncate(p) ==
  /\ pc[p] = "truncate"
  /\ file' = Empty
  /\ linked' = [linked EXCEPT ![p] = TRUE]
  /\ Goto(p, "rewrite")
  /\ UNCHANGED <<info, local, rule, pid, lives, outcome, now>>

(* Slip: l.info keeps the old rule name. *)
RewriteFileOnly(p) ==
  /\ pc[p] = "rewrite"
  /\ file' = IF linked[p] THEN local[p] ELSE file
  /\ linked' = [linked EXCEPT ![p] = FALSE]
  /\ Return(p, "granted")
  /\ UNCHANGED <<info, rule, pid, lives, now>>

(* ... writes the bytes, and l.info.RuleName follows (lock.go:74).         *)
Rewrite(p) ==
  /\ pc[p] = "rewrite"
  /\ file' = IF linked[p] THEN local[p] ELSE file
  /\ linked' = [linked EXCEPT ![p] = FALSE]
  /\ info' = [info EXCEPT ![p].rule = rule[p]]
  /\ Return(p, "granted")
  /\ UNCHANGED <<rule, pid, lives, now>>

Read(p) ==
  /\ pc[p] = "read"
  /\ IF Readable
       THEN local' = [local EXCEPT ![p] = file] /\ Goto(p, "check")
       ELSE UNCHANGED local /\ Goto(p, "create")
  /\ UNCHANGED <<file, linked, info, rule, pid, lives, outcome, now>>

(* The verdict is on the record read before, whatever the file is by now.  *)
Check(p) ==
  /\ pc[p] = "check"
  /\ IF IsStale(p, local[p])
       THEN Goto(p, "remove") /\ UNCHANGED <<local, outcome>>
       ELSE Return(p, "refused")
  /\ UNCHANGED <<file, linked, info, rule, pid, lives, now>>

(* os.Remove takes whatever file is there; none there is an error too.     *)
RemoveStale(p) ==
  /\ pc[p] = "remove"
  /\ IF file = Absent
       THEN Return(p, "failed") /\ UNCHANGED <<file, linked>>
       ELSE /\ Unlinked
            /\ local' = [local EXCEPT ![p] = None]
            /\ Goto(p, "create")
            /\ UNCHANGED outcome
  /\ UNCHANGED <<info, rule, pid, lives, now>>

(* Slip: O_CREATE without O_EXCL, and a start time one tick ahead. *)
OpenForWriting(p, t) ==
  /\ pc[p] = "create"
  /\ file' = Empty
  /\ linked' = [linked EXCEPT ![p] = TRUE]
  /\ local' = [local EXCEPT ![p] =
       [pid |-> pid[p], host |-> HostOf[p], start |-> t, rule |-> rule[p]]]
  /\ Goto(p, "encode")
  /\ UNCHANGED <<info, rule, pid, lives, outcome, now>>
CreateNotExclusive(p) == OpenForWriting(p, now)
CreateWithFutureStart(p) == OpenForWriting(p, now + 1)

(* O_CREATE|O_EXCL: one creator wins.                                      *)
Create(p) ==
  /\ pc[p] = "create"
  /\ IF file = Absent
       THEN /\ file' = Empty
            /\ linked' = [linked EXCEPT ![p] = TRUE]
            /\ local' = [local EXCEPT ![p] =
                 [pid |-> pid[p], host |-> HostOf[p], start |-> now, rule |-> rule[p]]]
            /\ Goto(p, "encode")
       ELSE Goto(p, "exists") /\ UNCHANGED <<file, linked, local>>
  /\ UNCHANGED <<info, rule, pid, lives, outcome, now>>

(* EEXIST: the answer is a LockError only if the winner's record is there. *)
Exists(p) ==
  /\ pc[p] = "exists"
  /\ Return(p, IF Readable THEN "refused" ELSE "raced")
  /\ UNCHANGED <<file, linked, info, rule, pid, lives, now>>

Encode(p) ==
  /\ pc[p] = "encode"
  /\ file' = IF linked[p] THEN local[p] ELSE file
  /\ linked' = [linked EXCEPT ![p] = FALSE]
  /\ info' = [info EXCEPT ![p] = local[p]]
  /\ Return(p, "granted")
  /\ UNCHANGED <<rule, pid, lives, now>>

(* The clean-up of a failed Encode removes the path, whose-ever it is.     *)
Undo(p) ==
  /\ pc[p] = "undo"
  /\ Unlinked
  /\ Return(p, "failed")
  /\ UNCHANGED <<info, rule, pid, lives, now>>

-----------------------------------------------------------------------------
(* Release: on a nil info it returns at once and changes nothing.          *)

Release(p) ==
  /\ pc[p] \in {"idle", "held"} /\ info[p] # None
  /\ outcome' = [outcome EXCEPT ![p] = "none"]
  /\ Goto(p, "verify")
  /\ UNCHANGED <<file, linked, info, local, rule, pid, lives, now>>

(* A file that cannot be read or parsed counts as released.                *)
Verify(p) ==
  /\ pc[p] = "verify"
  /\ IF Readable /\ HeldByThisInstance(p, file)
       THEN Goto(p, "unlink") /\ UNCHANGED <<info, local, outcome>>
       ELSE /\ info' = [info EXCEPT ![p] = None]
            /\ Return(p, IF Readable THEN "stolen" ELSE "released")
  /\ UNCHANGED <<file, linked, rule, pid, lives, now>>

(* Not finding the file is no error here.                                  *)
Unlink(p) ==
  /\ pc[p] = "unlink"
  /\ Unlinked
  /\ info' = [info EXCEPT ![p] = None]
  /\ Return(p, "released")
  /\ UNCHANGED <<rule, pid, lives, now>>

(* If os.Remove fails the file and l.info stay, and who has the lock has it. *)
ForceRelease(p) ==
  /\ AllowForce
  /\ pc[p] \in {"idle", "held"}
  /\ \/ /\ Unlinked
        /\ info' = [info EXCEPT ![p] = None]
        /\ Return(p, "released")
     \/ /\ "force" \in FaultPoints
        /\ outcome' = [outcome EXCEPT ![p] = "failed"]
        /\ UNCHANGED <<file, linked, info, local, pc>>
  /\ UNCHANGED <<rule, pid, lives, now>>

-----------------------------------------------------------------------------
(* The operating system refuses a call.  A record that cannot be read in   *)
(* Acquire is taken for none: not this instance's, no lock there, or gone  *)
(* again; a Release that cannot read it gives the lock up.  The error of   *)
(* the removal that follows a failed Encode is lost, and the empty file    *)
(* stays.  l.info stays as it was otherwise.                               *)
IOFault(p) ==
  /\ pc[p] \in FaultPoints
  /\ \/ /\ pc[p] \in {"truncate", "rewrite", "remove", "create", "undo", "unlink"}
        /\ linked' = [linked EXCEPT ![p] = FALSE]
        /\ Return(p, "failed")
        /\ UNCHANGED info
     \/ /\ \/ pc[p] = "reread" /\ Goto(p, "read")
           \/ pc[p] = "read" /\ Goto(p, "create")
           \/ pc[p] = "encode" /\ Goto(p, "undo")
        /\ UNCHANGED <<info, linked, local, outcome>>
     \/ /\ pc[p] = "exists"
        /\ Return(p, "raced")
        /\ UNCHANGED <<info, linked>>
     \/ /\ pc[p] = "verify"
        /\ info' = [info EXCEPT ![p] = None]
        /\ Return(p, "released")
        /\ UNCHANGED linked
  /\ UNCHANGED <<file, rule, pid, lives, now>>

Step(p) ==
  \/ Reread(p) \/ Truncate(p) \/ Rewrite(p)
  \/ Read(p) \/ Check(p) \/ RemoveStale(p) \/ Create(p) \/ Exists(p)
  \/ Encode(p) \/ Undo(p)
  \/ Verify(p) \/ Unlink(p)

Init ==
  /\ file = Absent
  /\ linked = [p \in Inst |-> FALSE]
  /\ info = [p \in Inst |-> None]
  /\ local = [p \in Inst |-> None]
  /\ rule = [p \in Inst |-> CHOOSE r \in Rule : TRUE]
  /\ pid = [p \in Inst |-> NoPid]
  /\ lives = [p \in Inst |-> 0]
  /\ pc = [p \in Inst |-> "down"]
  /\ outcome = [p \in Inst |-> "none"]
  /\ now = 0

Next ==
  \/ \E p \in Inst : Start(p) \/ Stop(p) \/ Step(p) \/ Release(p)
                     \/ ForceRelease(p) \/ IOFault(p)
  \/ \E p \in Inst, r \in Rule : Acquire(p, r)
  \/ Tick

Spec == Init /\ [][Next]_vars

(* A call in progress goes on, a caller that got the lock releases it in   *)
(* the end (the deferred Release of ExecuteSync), and the instances that   *)
(* do not end come back for the lock (the daemon's schedule).              *)
FairSpec ==
  /\ Spec
  /\ \A p \in Inst : WF_vars(Step(p)) /\ WF_vars(Release(p) /\ pc[p] = "held")
  /\ \A p \in Inst \ Mortal : WF_vars(Start(p)) /\ WF_vars(\E r \in Rule : Acquire(p, r))

-----------------------------------------------------------------------------
(* Two callers never both believe they hold the lock.  README.md:15 says   *)
(* the file lock prevents concurrent operations, lock_test.go              *)
(* TestConcurrentAcquire expects a single winner.                          *)
MutualExclusion ==
  \A p, q \in Inst : pc[p] = "held" /\ pc[q] = "held" => p = q

(* A lock file that names a live process is known to that process: its     *)
(* FileLock carries the very record (lock.go:72-74 calls this critical).   *)
(* Otherwise Release reports a stolen lock and leaves the file, and nobody *)
(* gets the lock before that process ends.                                 *)
NoForgottenLock ==
  \A p \in Inst : Readable /\ file.host = HostOf[p] /\ file.pid = pid[p] =>
    HeldByThisInstance(p, file)

(* Whoever holds the lock is visible in the file, so that a second         *)
(* contender is refused and IsLocked tells the truth.                      *)
HolderIsVisible ==
  \A p \in Inst : pc[p] = "held" => Readable /\ HeldByThisInstance(p, file)

(* The lock becomes free and is taken again, wherever processes end        *)
(* (docs/deployment.md:358: the lock of a dead process is cleared) and     *)
(* whatever calls fail now and then.  Two things may keep the survivors    *)
(* out for good: a lock file without its record, which its creator died    *)
(* before writing, and a live process that still has the lock and does not *)
(* come back for it.                                                       *)
WedgedOnlyIfKept ==
  \/ []<>(\E p \in Inst : pc[p] = "held")
  \/ []<><<\E p \in Inst : IOFault(p)>>_vars
  \/ <>[](\/ file = Empty
          \/ \E p \in Inst : pc[p] = "idle" /\ Readable /\ HeldByThisInstance(p, file))

-----------------------------------------------------------------------------
(* Where the lock is safe: no process ends while others compete, nobody    *)
(* forces the lock, and no lock grows old enough for another host to doubt *)
(* it.  Failing system calls are allowed.                                  *)
Calm ==
  /\ Mortal = {} /\ ~AllowForce
  /\ \A p, q \in Inst : HostOf[p] = HostOf[q] \/ MaxTime <= StaleTimeout

(* p has created the lock file, or believes it holds the lock *)
Owns(p) == info[p] # None \/ pc[p] \in {"encode", "undo"}

(* some running process is the one rec names *)
NamesLive(rec) == ProcessExists(rec.host, rec.pid)

(* Why the lock excludes in a calm world.  The owner is unique because its *)
(* file keeps every other O_EXCL from succeeding, and the file stays       *)
(* because nobody ever judges it stale: every record in the file, and      *)
(* every one read from it, names a running process.                        *)
OwnerInv ==
  /\ \A p, q \in Inst : Owns(p) /\ Owns(q) => p = q
  /\ \A p \in Inst : Owns(p) => file # Absent
  /\ \A p \in Inst : pc[p] = "held" => info[p] # None
  /\ \A p \in Inst : pc[p] \in {"encode", "undo"} => info[p] = None
  /\ \A p \in Inst : pc[p] # "remove"
  /\ \A p \in Inst : pc[p] = "down" => pid[p] = NoPid
  /\ Readable => NamesLive(file)
  /\ \A p \in Inst : local[p] # None => NamesLive(local[p])

-----------------------------------------------------------------------------
(* The lock as its callers see it: an attempt begins at the first read,    *)
(* is granted when O_EXCL creates the file, and leaves when the file goes. *)
Owning == {"encode", "held", "reread", "truncate", "rewrite", "verify", "unlink"}

(* where the try-lock sees an instance whose next step is label            *)
Place(label) ==
  IF label \in Owning THEN "in"
  ELSE IF label \in {"check", "exists"} THEN "refused"
  ELSE IF label \in {"read", "create"} THEN "trying" ELSE "out"

Places == [p \in Inst |-> Place(pc[p])]

Mutex == INSTANCE SyncMutex WITH st <- Places

(* FileLock implements SyncMutex: a grant when nobody is in, a refusal     *)
(* only when somebody is.                                                  *)
ImplementsSyncMutex == Mutex!Spec
=============================================================================
