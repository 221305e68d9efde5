# Syncrules in TLA+

Syncrules (Go) keeps pairs of file trees in step: local directories and Google
Drive folders, by rules that mirror one side or merge both.  This directory holds
TLA+ models of the parts whose correctness depends on the order of events, the TLC
configurations that check them, and TLAPS proofs.  File names below are relative
to the repository (`src/` here); `lock.go:85` is line 85 of
`internal/lock/lock.go`.

Check a run with `tlc -workers 2 -config lock_calm.cfg MCFileLock`, a proof with
`tlapm FileLockProofs.tla`.  `PROJECT.json` lists the runs, the lines each
definition models, the hazards and the mutants (see the end).

## 1. The system

| Part | State | Operations | Talks to |
|---|---|---|---|
| `internal/lock` FileLock | the lock file; `info` in each process | Acquire, Release, ForceRelease, IsLocked, GetHolder | processes on one or several hosts, through the file only |
| `internal/core` diff, conflict, planner, rule | none: functions of two listings | Compare, Resolve, PlanOneWay, PlanTwoWay, sortActions, Plan | adapters (List) |
| `internal/adapter/local` | a directory tree | List, Read, Write (temporary file and rename), Delete, Mkdir | the file system |
| `internal/adapter/gdrive/gdrive.go` | a cache path -> id; Drive's own tree of ids | the same, and New, Stat, Exists | Drive's API, other adapters through Drive |
| `internal/adapter/gdrive/auth.go` | the token file and its temporary file | GetClient, Authenticate, RefreshToken | Google, the user, other processes through the file |
| `internal/config` | the configuration, read once | Load, Validate, look-ups | the services |
| `internal/service/sync.go` SyncService | a FileLock, the adapters | PlanSync, ExecuteSync, lock operations | all of the above |
| `internal/service/daemon.go` DaemonService | `scheduler` (nil or not) under `mu` | Start, Stop, Status, Close, RunSync | scheduler, SyncService, history |
| `internal/scheduler` IntervalScheduler | running, stopped, two channels, statistics | Start, Stop, run, executeSync | its goroutine, RunSync |
| `internal/daemon` PIDFile | the PID file | Write, Read, Remove, IsRunning, Kill | other daemons |
| `internal/progress` | counters | SetTotal, StartFile, Update, CompleteFile, Error | SyncService |
| `internal/state` | rows of the execution history (SQLite) | SaveExecution, three queries | DaemonService, later processes |
| `internal/logger`, `internal/checksum` | none that matters here | output; hashing nobody calls | all |

What is hard about them:

* the lock file is read, judged, removed, created and filled by separate system
  calls, and processes may die between any two;
* plans are made without the lock and executed under it;
* a plan is executed action by action: a crash, a cancellation or the first error
  leaves the rest undone, and the next run must cope with what is there;
* the daemon's goroutines meet over channels, a mutex and a context;
* Drive knows ids, not paths: an adapter remembers ids that others may delete, asks for
  a name before it creates it, and Drive allows two entries of one name;
* processes that start, crash and follow each other share the PID file, the token file
  and the history, each written in several steps.

What makes each part correct:

* lock: two callers never both hold it; a holder is visible to the others; a
  contender is refused only because somebody holds it; whoever dies, the lock
  becomes available again;
* planner: the order of actions never makes a parent missing or a directory full;
  a one-way plan mirrors, a two-way plan loses no file but to the strategy;
* adapters: files are whole or absent, whatever crashes;
* service: runs that nobody disturbs succeed; repeated runs converge; ignored
  entries stay;
* daemon and scheduler: two rounds of synchronisations never overlap; Stop and Close
  return, and leave nothing running behind; a cancelled scheduler ends; every round
  is counted and recorded, whatever its rules come to;
* progress: what is shown agrees with the plan, stays within it and does not go back;
* Drive adapter: it answers as the adapter interface says when it has Drive to itself; a
  stale id may make a call fail, it never misdirects a write;
* PID file: it names the daemon there is; a daemon is refused only for another's sake;
* token file: whole or absent; signing in never fails because of what a crash left;
* configuration: what Load accepts never sends a service after a name that is not there;
* history: a failed run never passes for a success; rows follow each other in time.

## 2. The modules

| Module | Models | Proved about |
|---|---|---|
| `SyncMutex` | what the lock promises: a try-lock (abstract) | |
| `FileLock` | `internal/lock`, one system call per step | `FileLockProofs` |
| `Tree` | a file tree and what the two adapters do to it (operators) | |
| `Planner` | `internal/core`: comparison, resolution, the two plans, their order | |
| `SyncService` | `internal/service/sync.go` over `Tree` and `Planner`, with users and mishaps | `SyncServiceProofs` |
| `Daemon` | `internal/service/daemon.go` and `internal/scheduler/interval.go` | `DaemonProofs` |
| `Progress` | `internal/progress` as ExecuteSync drives it, over `Planner` | `ProgressProofs` |
| `DriveAdapter` | `internal/adapter/gdrive/gdrive.go`, one request to Drive per step | `DriveAdapterProofs` |
| `PidFile` | `internal/daemon/pidfile.go`, one system call per step | `PidFileProofs` |
| `TokenFile` | `internal/adapter/gdrive/auth.go`, one system call per step | `TokenFileProofs` |
| `Configuration` | `internal/config`: loading, validation, look-ups (operators) | |
| `History` | `internal/state`: the table and its queries (operators) | |
| `Program` | processes over `PidFile`, `TokenFile`, `Configuration`, `History` | `ProgramProofs` |
| `MCFileLock`, `MCSyncService`, `MCDaemon`, `MCProgress`, `MCDriveAdapter`, `MCProgram` | the instances TLC checks | |

`FileLock` shows with a refinement mapping that it implements `SyncMutex`
(`ImplementsSyncMutex`); `SyncService` uses the lock as `SyncMutex` describes it
(variable `lock`), so that the two halves meet in that module.  `Program` composes the
four modules about what processes share; `ProgramProofs` proves that it implements
`PidFile` and `TokenFile`, so that what is proved of those holds in it.

### FileLock

A FileLock instance stands for a process: the program makes one per SyncService.
`file` is what is at the lock path: `Absent`, `Empty` (created or truncated, not
yet parsable) or a `LockInfo`.  `linked[p]` says whether the descriptor p has open
is still the file at the path: after another process removes it, p's write goes to
a file nobody can see.  `info[p]` is `l.info`, `local[p]` the record the call in
progress works with, `pc[p]` the system call that comes next:

    Acquire:  reread -> truncate -> rewrite            (lock.go:64-77, re-entrant)
              read -> check -> remove -> create        (80-107)
              create -> encode (-> undo) | exists      (107-133)
    Release:  verify -> unlink                         (143-158)

`Stop` ends a process, in the middle of a call or (`idle`) normally; `Start` gives
an instance slot a new process with a new pid.  `IOFault` lets any system call fail
and takes the code's error path: a record that cannot be read in Acquire counts as none
(lock.go:66, 80) or ends the call (111), an error of the removal after a failed Encode is
lost (128); ForceRelease may fail as well (185).  Time is a small counter; `IsStale` compares ages
as the code does.  Constants say what an instance allows: who may end and where
(`Mortal`, `StopPoints`), whether a pid that a lock file still names is handed out
again (`PidRecycling`), which calls fail (`FaultPoints`), `AllowForce`.

### Tree and Planner

A tree is a function from relative paths to entries (none, directory, file with
content and time stamp).  Paths are model values; what the code takes from the
string (parents, depth, alphabetical rank, the `.syncrules.tmp` sibling, whether an
ignore pattern matches) are constants, so every shape of tree is an instance.
`Matched` is what the ignore patterns match, by whole path or by last name (cases 1
to 3 of `ShouldIgnore`); `Ignored` adds all that lies below (its prefixes).  A plan
is the set of its actions; `Before` is the order of `sortActions`, and `First(plan)`
the action ExecuteSync takes next.  A listing carries what `domain.FileInfo`
carries; the checksum is the content itself, tagged with the algorithm, or empty
for contents in `Big` (files over 100 MB are not hashed).

### SyncService

Each process of `Proc` runs the rule again and again:

    PlanSync (list the source) -> ListTarget (list the target, make the plan)
      -> AcquireLock (or refused) -> BeginCopy, FinishCopy | Mkdir | Remove | Pass
      ... -> Finish

`End` is every way out of ExecuteSync and gives the lock back, as the deferred
Release does.  A copy is two steps, so that crashes, users and other processes come
between the temporary file and the rename; Drive uploads show only when whole.
`Cancel`, `IOError`, `Crash` and `BreakOff` are the mishaps; `BreakOff` is an error or a
crash between the directories that a copy or a Mkdir makes on the way (local.go:159,
gdrive.go:421-480).  `UserEdit` writes, removes or makes an entry at any moment.  A process
that has the lock gets it again (lock.go:64-77).  Two things are assumed of the lock: that
the lock of a crashed process is free at once (a crash that leaves an empty lock file is
among the known limits below), and that one process at a time has it even then.  The lock
file does not give the second when processes end: `lock_exit` shows that.  What is shown of
the service holds between such accidents.  `quiet` and `origin` are history variables for
the properties.  One clock stamps every write; time stamps of writes never collide.

### Daemon

Callers (`Caller`) use one DaemonService.  `mu` is `d.mu` held for writing,
`scheduler` is `d.scheduler` (0 for nil), `op[c]` and `pc[c]` say which method c is in
and how far it has come:

    Start:  Lock -> StartScheduler -> Publish            (daemon.go:62-97)
    Stop:   Lock -> Look -> Signal -> Wait               (100-114, interval.go:146-168)
    Close:  the same, then CloseResources                (141-167)
    Status: one step under the read lock                 (117-138)

Every successful Start makes a scheduler `k` with a goroutine `gor[k]`: "select",
"round", "exit", "closing", "done".  Between `MarkStopped` and `CloseChan` the flag
says stopped and the channel does not yet; between `Look` and `Signal` the loop may
end by itself.  A round is `Tick`, one `RunSync` for each rule, `EndRound`;
`SyncService` says what one RunSync does.  Every RunSync ends with `SaveExecution`, which
saves the record (`saved`) or fails (`lost`); the code drops its error (daemon.go:215, 225,
234), and once Close has closed the history it always fails.  `Cancel(k)` is the owner of the context and
may come at any moment; a select with several channels ready takes any of them.  The
scheduler's own mutex guards blocks that are single steps here.

### Progress

`SetTotal` begins a run: some rule, some pair of trees, the plan `Planner` makes, the
totals of `calculateStats`, and a new reporter or the one of the run before.  Then, for
each copy, `StartCopy`, `Update` for each read, `Complete`, `OverallProgress`; `Error`
ends a run early.  The length of a file is chosen when it is opened: it may have
changed since it was listed.  The size of a copy is worked out in three places
(planner.go:342, sync.go:279, sync.go:234), all of them `FileSize` here.  `shown` is what
the callback was last given, `base` and `exact` are history variables.

`FileSize` shows a flaw of the code: a two-way run that copies the target's newer file
over the source's has both FileInfos, takes `SourceInfo` (the file that is
overwritten), and so announces and counts the wrong size (sync.go:279,
planner.go:342).  `WithinTotals` and `NeverBack` are claimed while `exact` holds: this
case, and files that change after the listing, are outside it.

### DriveAdapter

`remote` is what Drive holds under each id (never used twice): a node with a name, a
parent, a kind and a content, or `Gone`.  `cache[a]` is the idCache of the adapter a,
which belongs to a process of its own.  Calls go through two loops, one request per
turn:

    every call but Mkdir, New:  FindPart ...            (getFileID, 374-418)
    New, Mkdir, Write of a new file:
                                FindFolder | MakeFolder ...  (getOrCreateFolderID, 421-488)
    then:  Opened, MkdirDone, CreateFile, UpdateFile, Delete, Exists, Stat, List, Read

Requests of two adapters interleave freely; `RequestFails` lets any of them fail (a
limit, a server error, no network), `Restart` loses the cache.  A query by name may
return any of several entries.  `changers`, `overlapped`, `orderly` and `quiet` are
history variables that say when an adapter has Drive to itself, when calls have
overlapped, when a folder was deleted with things in it, and when nobody interferes.

`orderly` and `changers` are the carve-outs of `CacheTrue` and `AnswersTrue`: the ids of
what lay below a deleted folder stay in the cache (gdrive.go:269), and ids that another
process deleted stay as well.  `drive_stale` shows what that does.  An endpoint with root
`/` is outside the properties (`Named`): joinPath then gives "a" where the cache has
"/a", so that nothing is found in the cache, and a new file at the top goes to a folder
named "." (path.Dir "a").  The model has that behaviour, the claims do not cover it.

### PidFile and TokenFile

`pidfile` is what is at the path, `pid[p]` the process id in slot p of `Proc`, `at[p]` how
far the process is with the file, `seen[p]` the pid it has read, `linked[p]` whether the
file it has open is still the one at the path:

    Write:   Stat -> Read -> Probe -> Clear -> Create -> Fill    (pidfile.go:37-56)
    Remove:  Remove                                              (78-83)

Processes start (`StartProcess`, with any pid that is free) and end anywhere
(`EndProcess`; a failing system call leaves what a crash leaves).  Kill does nothing to
the file: its signal is one of the reasons for Remove or EndProcess.

`token` and `temp` are what is at `tokenPath` and at `tokenPath + ".tmp"`, `where[p]` what
name the file p has open goes by now (a rename by another process moves it):

    GetClient:     LoadToken -> (Refresh -> Open -> WriteTemp -> Rename)   (92-114, 163-176)
    Authenticate:  Open -> WriteTemp -> Rename                             (126-160, 194-221)

Tokens are numbered as Google issues them, `fresh` ones work, `renewable` ones came with
a refresh token.  Disks refuse at any step: `Open` (the
directory or the temporary file cannot be made), `WriteTemp` (which may leave a part),
`Rename`.

`overlapped`, `recycled` and `tangled` mark the behaviours the code does not handle: two
daemons in Write at once may both find no file; a pid handed out again makes Write refuse
for a stranger's sake (in a container a daemon may even find its own pid); two processes
in saveToken share the temporary file.  The properties are claimed outside of these.

### Program

A process of `Proc` is started as a daemon, a sync or an auth process (the main functions
are not under `src/`).  A daemon takes the PID file, then runs the scheduled rules in
rounds and removes the file when it leaves, after its last round.  Each rule goes through
RunSync:

    BeginRound -> BeginRule -> GetAdapter | (BeginSignIn, SignIn ..., SignedIn)
      for the source, then the target -> ExecuteRule -> RecordRule

Planning and executing is one step here, which goes well or fails: `SyncService` has the
rest.  `conf` is what Load made of one of the files in `Files`; `rows` is the table;
RunSync hands
on no more than the rule's `Name`, and PlanSync looks it up again (`Rule`, GetRule).
`now` counts rules begun, so that no two rows have the same start.  That a daemon closes its
service, and so ends its last round, before it removes the PID file (`Leave`) is an
assumption about main.  `ran` records what
daemons ran and saved, apart from the row itself.

## 3. The runs

| Run | Result | Question |
|---|---|---|
| `lock_calm` | pass | Is the lock exclusive, visible and a correct try-lock while nobody dies? |
| `lock_faults` | pass | Can a lock file name a live process that does not know of it?  What can wedge the lock? |
| `lock_exit` | violation | Does a normal exit of one process break the exclusion of others? |
| `sync_oneway` | pass | Do one-way rules mirror, in the right order, through crashes and user changes? |
| `sync_twoway` | pass | Do two processes under two-way rules converge and lose nothing? |
| `sync_drive` | violation | Does a two-way rule between a directory and Drive converge? |
| `daemon` | pass | Do rounds exclude each other, end with Stop, add up, and does every call return? |
| `daemon_cancel` | violation | Is the daemon stopped when Stop comes back? |
| `progress` | pass | Do the reporter, ExecuteSync and the plan agree on what has been done? |
| `drive` | pass | Does an adapter's cache mislead it?  When do twins appear, and may a stale id misdirect a write? |
| `drive_stale` | violation | Does a Write that nobody interferes with succeed? |
| `program` | pass | Do processes that share the PID file, the token file, the configuration and the history keep them right? |

The bounds, and why they are enough:

* `lock_calm`: three instances, two on one host and one on another, two rule names,
  one tick with a timeout of one.  Three are needed for a contender that is refused
  while the lock changes hands; the second host exercises the age rule; two rule
  names make a rename visible.  Symmetric in the pids.
* `lock_faults`: two instances, one of which may die anywhere and be restarted
  once, ForceRelease at any moment.  Every call may fail (the reads in Acquire, the
  removals, ForceRelease's included) but the read in Release.
  (If Release cannot *read* the file it gives the lock up and leaves the file: that
  is lock.go:144-147, and with it `NoForgottenLock` is false.)
  `WedgedOnlyIfKept` leaves three ways in which the survivor may stay out for ever:
  calls that never stop failing, a file without its record, and a live process that
  has the lock and does not come back for it (a release whose unlink failed, say).
* `sync_*`: a directory `d` with a file `df` and an ignored entry `di`, a file `f`
  beside it and the temporary siblings of both files: every kind of action, depth
  order in both directions, type conflicts (d may be a file), a directory pinned by
  an ignored entry, leftovers.  The processes start from *every* pair of trees over
  these paths.  Two contents of one length: sizes never tell files apart, so that
  times and checksums decide.  One user change and one mishap per behaviour for
  one-way rules; two processes and one mishap for two-way rules.  The clock starts at
  `Now`, when the newest file was written.

* `daemon`: two callers (a Stop that waits while another call queues), two schedulers
  (one that goes and one that comes), three rules a round, so that a rule in the middle
  may fail.  Counters count modulo two, which the odd number of rules makes enough to
  tell a lost rule or round.  A third Start gets an error, as if by a bad interval.
* `progress`: two files and a directory, contents of one and two bytes, every pair of
  trees, one-way pull and two-way by newest (the modes in which the two FileInfos play
  different parts), files that hold one or two bytes when opened, two runs.
* `drive`: two adapters of one endpoint `/r`, a folder `d`, a file `d/e/f`: a folder that
  is made by name (Mkdir d), one that is only made on the way (e), and a file two folders
  down, which a delete of d leaves in the cache.  The first adapter makes three calls,
  restarts or failures (write, delete, write again), of any kind; the second one, in
  between, a Write, Mkdir or Delete (`MCKinds`, `MCMaxCalls`): only changes matter to the
  first.  No more than eleven nodes can come of these calls.
* `program`: two processes at a time and three in all (a predecessor that crashed, and two
  that meet), two pids, so that a pid comes back; two tokens and two rules begun; jobs
  given to the processes in turn (`MCJobs`) so that each pair occurs: two daemons, a daemon
  and a sync, an auth and a daemon.  Two files that Load accepts (a rule between disk and
  Drive, a rule that has no schedule, credentials missing, rules disabled) and seven it
  must refuse (a transport missing or doubled, two rules of one name, a bad schedule, ...).  Symmetric in slots and pids.

Deadlock is checked in every run but `progress`, `drive`, `drive_stale` and `program`:
these stop when the runs, calls or processes they are given are used up.

### Fairness

`FileLock!FairSpec`: a call in progress goes on (weak fairness of `Step`), a caller
that got the lock releases it (ExecuteSync defers Release), and instances that do
not end keep trying (the daemon's ticker).  Nothing is assumed about ends of
processes, clock ticks, faults or forced releases.  `SyncService!FairSpec`: weak
fairness of each process's `Step`: the scheduler or the user runs the rule again and
a run in progress goes on.  Users and mishaps are bounded and not fair.
`Daemon!FairSpec`: code that can go on does (weak fairness of `CallerStep` and
`GoroutineStep`; each synchronisation ends); d.mu starves nobody (strong fairness of
`Lock` and `Status`: Go's mutexes hand over to a waiter that has waited too long, and
a waiting writer keeps new readers out); and select chooses at random among the ready
channels (strong fairness of `Quit`: a stop that stays asked for is taken in the end,
though ticks go on).  Calls, ticks and cancellations are not fair.  `DriveAdapter`,
`PidFile`, `TokenFile` and `Program` claim safety only and state no fairness: their code
has no loops that wait for others.

### What the violations say

* `lock_exit`: p1 reads p2's record; p2 releases and exits; p3 creates its lock; p1
  now finds p2 dead, judges *p2's record* stale and removes *p3's file*
  (lock.go:83-85); p1 creates its own.  p1 and p3 both hold the lock.
* `sync_drive`: SHA-256 never equals MD5, so a copied file looks modified, and
  two-way rules copy it again with every run.
* `daemon_cancel`: the context is cancelled, the loop ends and clears `running`; Stop
  gets "scheduler is not running" from it and returns with `d.scheduler` in place: the
  daemon reports itself running and refuses to start (daemon.go:66, 108) until Close.
* `drive_stale`: the adapter writes d/e/f, deletes d, and writes d/e/f again.  Delete cleared
  "d" from the cache only (gdrive.go:269).  The look-up finds no d, so Write goes on to make
  a new file, asks getOrCreateFolderID for d/e and gets the id of the old folder from the
  cache (427): Files.Create with a parent that is gone gets 404 (245), and nothing removes
  the id.  So it goes with every new file in that folder until the process ends.

### Known limits met while modelling

Four more ways in which the models go wrong are kept out of the claims instead of having
a run of their own:

* A death between lock.go:107 and 127 leaves an empty lock file.  It does not parse, so
  nobody asks whether it is stale, and O_EXCL fails until somebody removes it by hand;
  `WedgedOnlyIfKept` names it as "a file without its record".
* `f.syncrules.tmp` is left by a crash; the next one-way plan copies f again (whose rename
  removes the temporary file) and then deletes f.syncrules.tmp, which is gone: the run
  fails, although it did its work.  `OrderedRunSucceeds` is claimed before any mishap.
* os.Remove refuses a directory that holds an ignored entry, the run ends at that error,
  and so does every later one, at the same action: files whose deletion comes after it
  stay for ever.  `EventuallyMirrored` excepts these.
* A temporary file that a crash left is, under a two-way rule, a file like any other and
  is copied to the other side; after that `Converged` may fail once (section 4, "Only
  model-checked").

Smaller things that no property is about: a rule's own `schedule.interval` is read and
validated, `settings.default_conflict` is read, and nobody uses either; docs/usage.md:369-371
still says that files of one size and different times count as modified, where Compare asks
the checksums (diff.go:67-86); the planner
makes the adapters (and so, on Drive, the root folder) before the lock is taken, so that
two first runs may make two root folders of one name.

## 4. The proofs

Every theorem holds for all values of the constants that satisfy the assumptions its
modules name; what it assumes beyond these stands in its `ASSUME`, and the instance of
the run that checks the same property satisfies it.  Each safety theorem comes from an
inductive invariant: `Init` implies it, each step keeps it (one step of the proof per
action), and it implies the property.

### The lock: FileLockProofs

* `TypeCorrect`: `[]TypeOK`, with crashes, faults and forced releases.  `TypeInv` adds
  that a running process has a pid and that a step has the records it works with.
* `OneOwner`: `[]OwnerInv` if `Calm`, and from it `LockExcludes`: `[]MutualExclusion`.
  `Calm` says that no process ends, nobody calls ForceRelease, and no lock outlives the
  timeout as seen from another host; failing system calls are allowed.  `lock_exit` shows
  that the first part cannot be dropped.
* `LockRemembered`: `[]NoForgottenLock`, wherever processes end, if no pid comes back while
  a lock file names it and Release can read the file.  `KnownInv` says whose record the
  file can hold: a record with the pid of a live process is the very one in its `info`, and
  the process is at a step where it knows so.
* `HolderVisible`: `[]HolderIsVisible`, and `LockIsTryLock`: `ImplementsSyncMutex`, if
  `Reliable`: calm, and no system call fails (after a failed write the file is there and
  nobody is in, until the error path has removed it, and after a failed unlink for longer,
  which a try-lock does not know).

Mutual exclusion is not inductive.  `OwnerInv` strengthens it: at most one instance *owns*
the lock (it has created the file, or believes it holds it); while there is an owner the
file exists, so nobody else's O_EXCL succeeds; and nobody gets as far as removing the
file, because every record in the file, and every record somebody has read from it, names
a running process (`LiveIsNotStale`).  `VisibleInv` adds that whoever is in has its record
in the file or has the file open and the record in hand, and that there is no file without
somebody who is in.  For the refinement each step of `FileLock` is a step of `SyncMutex`
or a stutter under the mapping `Places` (`StepImplements`); that a refusal finds somebody
in is the last part of `VisibleInv`.

### The daemon: DaemonProofs

* `StopLeavesNothing`: `[]NoStrayRounds`; `RoundsExclude`: `[]OneRoundAtATime`.
* `TypesHold`: `[]TypeOK`; `RoundsCount`: `[]RoundsAddUp`: rounds are counted once when
  they begin and once when they end, and each rule of a round is brought to the history
  exactly once, where its record is saved or refused.  (What was refused leaves no trace:
  that the history is complete cannot be claimed.)

`NoStrayRounds` says that only the scheduler the daemon knows, or the one Start is about
to make known, may run a round.  That Stop may forget a scheduler rests on three more
facts, which make the invariant `DaemonInv`: a closed stoppedChan means that the goroutine
is done, and a cleared running flag that it is past its last round (`Flags`); callers
inside a method hold `d.mu`, so that d.scheduler does not change between the look at the
flag and the end of the wait (`Mutex`); Start only publishes over nil (`Known`).
`CountInv` adds that nothing is left to do outside a round (`NothingLeft`); it holds for
counters of any width.

### The service: SyncServiceProofs

From `TreeAssumption` and `ServiceAssumption`, for any trees, patterns and rules, and any
numbers of processes, users' changes and mishaps:

* `FilesWhole`: `[]NoTornFile` if `OwnNames`: nobody works on a name that a temporary file
  may have, and no file is torn at first.
* `IgnoredLeftAlone`: `IgnoredUntouched` if `LocalAndHidden`: both sides are local (Drive
  deletes a folder with all that is in it, the ignored included) and no pattern matches
  the temporary file of what is not ignored.
* `TypeCorrect`: `[]TypeOK`.
* `TwoWayKeeps`: `[]StrategyHonoured` if `UsersAway`: users change nothing meanwhile, and
  no path of theirs is a temporary name.
* `OneWayRunMirrors`: `[]OneWayMirrors` if `TmpFree` (the temporary names are free at first
  and none of the users' paths) and `ToldApart` (files too big to be hashed differ in size,
  and files that differ have different times: Compare cannot see other differences).
* `RunsSucceedInOrder`: `[]OrderedRunSucceeds` if `TmpFree`, for rules of any mode.
* `RunsConverge`: `[](mishaps = 0 => Converged)` if `TmpFree` and both sides are of one
  kind (`sync_drive` shows why).
* `OneWayRunsConverge`: `Converged` of one-way rules, whatever crashed before the run, if
  also `ToldApart`.

All rest on `ServiceInv`: plans only hold actions on paths that are not ignored
(`PlanIsSound`, of all modes and strategies), and who copies has its action still to do.
`TreeStep` says once what a step of a process may do to a tree: make a directory the path
needs, write or remove its temporary file, remove the path itself, or give it what was
read.

* `TornInv` adds that what was read for a user's path is whole (`CopyStep`).
* `RestInv` has the types of the lock, the outcomes and the bookkeeping.  `ShapeInv` says
  that what is there lies in directories and that no time stamp is from the future; it is
  not inductive for a rename whose directory is gone, which the rename's guard excludes.
* `TwoWayInv`: every path that some side had a file at first is, on each side, as it was
  found, or *settled*: both sides have the same file, and each has its own or one that the
  strategy may put in its place (`KeptInv`).  This outlives crashes and other processes only because
  pending plans agree with it (`PlanInv`: no deletions, and a copy goes over what may be
  replaced), which in turn rests on what a copy has read (`CopyInv`) and on the listing
  made before (`ListInv`): between the two listings of a plan another process may have
  settled the path.  `OneLoser` says that the strategy never lets both sides lose.
* `OneSideInv`: a one-way rule writes on one side only, and equal times tell equal files.
  For a process that nobody disturbs (`quiet`) `MirrorInv` says that each path that is not
  ignored is alike on both sides, or is a file on one and a directory on the other, or has
  an action still to do, or is the temporary file of the copy in progress; that an action
  leaves alone what the others have done is one lemma per kind of action.
* `OrderInv` is about runs of all modes while nothing has crashed, been cancelled or
  failed for the disk's sake.  Its part `CalmInv` says that a temporary file then exists
  only while the holder of the lock copies to it (`TmpsMade`).  For an undisturbed run
  (`RunInv`), what is `Left`, the plan that a new run would make now, is in the run's own
  plan, or is a conflict or a skip (`Slack`), or is the temporary file in the making; and
  each action of the plan still fits the trees (`Apt`): together `Due`.  `Ready` says that
  the directories above a copy are there, `OwnFiles` that no temporary file is planned for.
  So a plan that is used up leaves nothing to do, and an action fails only for an obstacle.

The argument about a plan's order has two sides.  What a plan holds for a path depends on
that path alone (`ActAt`, `LeftLocal`), so an action can only spoil others of its own path
or of paths above and below it.  Those `sortActions` puts right (`FirstIsBefore`: no
action left comes before `First`): a missing directory above a copy would be left to make,
and that comes before any copy; something left in a directory to delete would be left to
delete, and deeper (`DeeperBelow`), so what keeps os.Remove from working is ignored.

### The progress reporter: ProgressProofs

`TypeCorrect` (`[]TypeOK`), `BooksBalance` (`[]BooksAgree`), `TotalsHold` (`[]WithinTotals`)
and `ProgressIsMonotone` (`NeverBack`), for any files, sizes and rules.  The totals are sums
over the plan while the counters grow action by action; `BooksInv` balances them: what
ExecuteSync has counted and what is left of the plan make up the totals, and the reporter
is ahead of ExecuteSync by the copy between `Complete` and `OverallProgress` only.
`ShownInv` does the same for what the callback was given last, while files hold what was
announced.  The sum is a fold that takes the elements in an order of its own; that any
element may be taken first (`SumTakesOut`) is shown with a smallest set for which it
is false.

### The Drive adapter: DriveAdapterProofs

From `DriveAssumption`, for any number of adapters, endpoints, paths and calls:

* `TypeCorrect`: `[]TypeOK`; `SuccessfulWriteLands`: `[]WriteLands`;
  `CacheIsTrue`: `[]CacheTrue`; `AnswersAreTrue`: `[]AnswersTrue`.
* `RequestsKeepToTheirPaths`: `KeepsToItsPath` if every adapter's root has a name: a step of
  an adapter changes Drive only as the call it is in may (`MayChange`): new folders on the
  way to its path, the file at the path, what a Delete takes at and below it.  (Under
  the root "" it fails: path.Dir makes "." of "a", see `DirOf`, and a Write makes that folder.)
* `TwinsOverlap`: `[]TwinsNeedOverlap` if `FilesApart`: no endpoint's path leads through a
  file of another.  (A folder is looked for among folders only, so an adapter whose root is
  another's file would make a folder of the same name.)  `OneEndpoint`: adapters of one
  endpoint are apart, as in the run.

Drive has ids and the properties speak of paths (`IdsAt`, recursive along the path).  The
proofs carry a function `P` from ids to the paths they were made at.  `Placed(P)`: every
live id is at the path of its parent and its own name, and a cache or a loop that connects
an id with a path does so in accordance with `P`.  This survives deletions, other
adapters and stale caches, since ids are never used twice and nothing is moved.  To it add

* `Landed`: a write that reports success has its content at its path (`ChangesOnPath` and
  `ConcernsIsMayChange`, on which `RequestsKeepToTheirPaths` rests, need `Placed` only);
* `Fresh`: the ids an adapter that is alone remembers are live;
* `NoTwins` (P is injective on live ids), `Careful` (a loop that has asked for a name and
  is about to make it is still right that nothing is there), `FilesOf`, `Alternate`;
* `Own`, all of these for one adapter with Drive to itself, and `Told`: the answer given.

That `IdsAt(k)` is `{i : P[i] = k}` (`IdsAtIs`) and what `Subtree` holds are shown of the
recursive functions by a shortest path, or a smallest set, for which it is false.

### The files that processes share: PidFileProofs, TokenFileProofs

From `PidAssumption` and for any number of processes and pids:

* `FileNamesDaemon`: `PidSpec => []DaemonIsNamed`.  The invariant `PidInv` adds to the types
  what a process in each step of Write may count on while no two are in it (`NamedInv`):
  from Clear on nobody is a daemon, since Stat and Probe have seen so and nobody else
  can have come past; and what Create has made is still at the path (`linked`).
* `RefusalsJustified`: `PidSpec => RefusedOnlyByDaemon`.  `OwnerInv` says whose pid a pid in
  the file can be: that of a daemon or of one that has just left, of the one in Fill, or
  of nobody, unless a pid was handed out again.

From `TokenAssumption`: `TokenFileWhole` (`[]TokenWhole`) and `SignInFailsForCause`
(`[]FailsForCause`).  `CalmInv` says that of two processes at most one is saving while
nothing is tangled, that the file it has open still goes by the temporary name, and that
before the rename it holds the whole token.

### The whole: ProgramProofs

From the assumptions of all its modules:

* `PartsImplemented`: `Spec => PidSpec /\ TokenSpec`.  Every action of the program is, on
  either part's variables, an action of the part or a stutter (`PidRefined`,
  `TokenRefined`).  `SharedFilesKept` carries the theorems about the parts over.
* `LookupsAlwaysSucceed`: `[]LookupsSucceed` for *every* set of configuration files.
  `LoadIsConfiguration` and `AdapterFound` say that in what Validate accepts every endpoint
  of a rule and every transport of an endpoint is found, `RuleFound` that a rule's name, of
  which there is one, finds that rule; `WorkInv` that the rules of a round are rules of that
  configuration.
* `RunsRecordedInTurn`: `[]RecordsInTurn` for any number of processes.  `OneDaemonWorks`
  follows from `DaemonIsNamed` and the distinct pids; `TurnInv` says that the row a daemon
  is filling in begins after every saved row has ended.
* `TypesKept`: `[]TypeOK`; `HistoryTellsTheTruth`: `[]HistoryTrue`.  `BooksInv` says that the
  rows and the runs that were saved correspond (`Listed`) and that the row in the making
  is about its rule and says how it goes (`Entered`).  A query is defined by the rank of
  its rows; `Leads` says that some row has none before it, `QueryForOne` that a query for
  one row returns it.

### What the proofs changed in the models

Trying to prove them showed where models said less than the code or more than they could
stand for: a clock that started at zero while files had later times (`Now`), a rename that
succeeded without its temporary file, a mishap of one process that did not count as a
disturbance to another whose temporary file it removed, `TmpOf` in another directory than
its path.  `Make` has its bound on ids as a guard, so that the model stops where the
instance ends instead of leaving the types, and `History` ranks rows where it sorted them.

### Only model-checked

`Converged` of two-way rules after a mishap, as `sync_twoway` has it: one mishap, and no
users.  Without these bounds it is false, and TLC finds so with one mishap and two
changes by a user: f is on one side, a crash leaves f.syncrules.tmp on the other, the user
takes f away, the next run copies the temporary file as if it were a file of its own, and
the user makes f again.  Now the copy of f renames f.syncrules.tmp away on one side, and
the run ends well with that file left to copy, which the next run does.

All liveness (`WedgedOnlyIfKept`, `EventuallyMirrored`, `CallsReturn`, `CancelEndsLoop`),
which is out of the prover's reach.  Induction over data is out of reach as a rule of
inference, but recursive functions and orders are not where a smallest counterexample
does: `Least`, `LeastOf`, `Smallest` and the facts about finite sets serve for that.

## 5. What is not modelled

* Windows' `processExists`; clocks that disagree between hosts.
* Symbolic links; files changed while their bytes are read (the copied content is
  the one at the opening); file systems that fold case.
* Directory times, permissions, the root directories themselves going away.
* Within one side, a listing is one step.  The code lists directory by directory and hashes
  as it goes (executor.go:77-110, local.go:94-122); what changes between the two sides'
  listings is modelled, what changes inside one is not.  Neither are the entries that
  local.List skips because Info fails (local.go:103), nor files that are listed without a
  checksum because hashing failed (113-118).
* Drive: a request that is carried out and whose answer is lost (a Delete of this kind
  leaves the id in the cache, and later calls on that path get 404); entries that people
  move, rename or put in the trash on the web (queries ask for `trashed = false`,
  gdrive.go:157, 396, 449, requests by a cached id do not, 197, 221, 263, so that a Write
  may go to a file in the trash); paging and token renewal inside the client library.  `SyncService` takes the simpler view
  of Drive in `Tree`: one entry per name and no cache.  `NewWithToken` differs from `New` in
  where the token comes from.
* The history's file and SQLite's locking; the text of `start_time`, whose order follows
  the local clock: `History` keeps the text's place apart from the moment, `Program` lets
  the two agree.
* How YAML is parsed; the logging settings; `LoadFromString`, which only tests call.
* The logger and the checksum helper (which nobody calls): no state the properties depend
  on.  Formatting, and the speeds and times of the progress display, likewise.
* The main programs, which are not under `src/`: `Program` starts processes as the
  documents say.

## 6. Plan

Done so far: the lock, the service, the daemon, the progress reporter, the Drive adapter,
the PID and token files, the configuration, the history and their composition; the
proofs of section 4.  Left:

1. An abstract start/stop service that `Daemon` implements while its contexts live.
2. `DriveAdapter`: answers that are lost.
3. Local clocks that are put back, in `Program`.

## 7. Mutants

Each property of each passing run has a mutant in `PROJECT.json`: a definition that
models code, replaced by a *slip* a programmer could make (O_CREATE without O_EXCL,
a pid looked up on the wrong host, l.info not updated after a rename, os.RemoveAll
for os.Remove, deletes sorted shallow first, a temporary file opened with O_EXCL, a Stop that does
not wait, a stale id kept after a delete, a token file written in place, ...), under which
TLC finds the property violated.  The slips stand next to what they mutate and are
marked `Slip:`.
