------------------------------- MODULE Daemon -------------------------------
(***************************************************************************)
(* internal/service/daemon.go over internal/scheduler/interval.go: callers *)
(* start, stop, close and ask one DaemonService, which guards d.scheduler  *)
(* with a read-write mutex.  Every successful Start makes a scheduler with *)
(* a goroutine of its own, which runs a round of synchronisations at each  *)
(* tick until its stop channel is closed or its context cancelled.         *)
(***************************************************************************)
EXTENDS Integers

CONSTANTS
  Caller,      \* goroutines that use the DaemonService
  None,        \* nobody
  MaxStarts,   \* bound: schedulers made; a later Start returns an error
  NumRules,    \* how many rules are scheduled
  Width        \* bound: the counters count modulo Width

Sched == 1..MaxStarts
Counter == 0..(Width - 1)

VARIABLES
  mu,          \* the caller that holds d.mu for writing, or None
  scheduler,   \* d.scheduler: a scheduler, or 0 for nil
  closed,      \* stateMgr.Close has been called: no record is saved any more
  op, pc,      \* op[c]: the method c is in; pc[c]: how far it has come
  made,        \* schedulers made so far
  running,     \* running[k], stopped[k]: the flags of scheduler k
  stopped,
  stopChan,    \* stopChan[k], stoppedChan[k]: the channel is closed
  stoppedChan,
  cancelled,   \* cancelled[k]: the context given to Start is
  gor,         \* gor[k]: where the goroutine of scheduler k is
  todo,        \* todo[k]: rules its round still has to run
  total,       \* total[k]: totalRuns of scheduler k
  finished,    \* finished[k]: its successfulRuns and failedRuns together
  saved,       \* saved[k]: execution records its rounds have saved
  lost         \* lost[k]: those the history has refused, which nobody is told

callers == <<mu, scheduler, closed, op, pc>>
flags == <<made, running, stopped, stopChan, stoppedChan>>
rounds == <<todo, total, finished, saved, lost>>
vars == <<callers, flags, cancelled, gor, rounds>>

ASSUME ConstantsAssumption ==
  /\ None \notin Caller
  /\ MaxStarts \in Nat /\ NumRules \in Nat /\ Width \in Nat \ {0}

Ops == {"start", "stop", "close", "status"}
Pcs == {"idle", "lock", "enter", "publish", "signal", "wait", "leave"}
Gors == {"none", "select", "round", "exit", "closing", "done"}

TypeOK ==
  /\ mu \in Caller \cup {None}
  /\ scheduler \in 0..made /\ made \in 0..MaxStarts
  /\ closed \in BOOLEAN
  /\ op \in [Caller -> Ops \cup {"none"}] /\ pc \in [Caller -> Pcs]
  /\ running \in [Sched -> BOOLEAN] /\ stopped \in [Sched -> BOOLEAN]
  /\ stopChan \in [Sched -> BOOLEAN] /\ stoppedChan \in [Sched -> BOOLEAN]
  /\ cancelled \in [Sched -> BOOLEAN]
  /\ gor \in [Sched -> Gors]
  /\ todo \in [Sched -> 0..NumRules] /\ total \in [Sched -> Counter]
  /\ finished \in [Sched -> Counter]
  /\ saved \in [Sched -> Counter] /\ lost \in [Sched -> Counter]

Bump(n) == (n + 1) % Width

-----------------------------------------------------------------------------
(* The callers.                                                            *)

Goto(c, label) == pc' = [pc EXCEPT ![c] = label]

(* c returns, and its deferred Unlock runs                                 *)
Return(c) ==
  /\ Goto(c, "idle")
  /\ op' = [op EXCEPT ![c] = "none"]
  /\ mu' = IF mu = c THEN None ELSE mu

Call(c, o) ==
  /\ pc[c] = "idle"
  /\ op' = [op EXCEPT ![c] = o]
  /\ Goto(c, "lock")
  /\ UNCHANGED <<mu, scheduler, closed, flags, cancelled, gor, rounds>>

Lock(c) ==
  /\ pc[c] = "lock" /\ op[c] # "status"
  /\ mu = None /\ mu' = c
  /\ Goto(c, "enter")
  /\ UNCHANGED <<scheduler, closed, op, flags, cancelled, gor, rounds>>

(* Status only reads, under d.mu.RLock: it waits for a writer to be done.  *)
Status(c) ==
  /\ pc[c] = "lock" /\ op[c] = "status"
  /\ mu = None
  /\ Return(c)
  /\ UNCHANGED <<scheduler, closed, flags, cancelled, gor, rounds>>

(* Start: a new scheduler, whose goroutine runs from here on ...           *)
StartScheduler(c) ==
  /\ pc[c] = "enter" /\ op[c] = "start"
  /\ \/ /\ scheduler = 0 /\ made < MaxStarts
        /\ made' = made + 1
        /\ running' = [running EXCEPT ![made'] = TRUE]
        /\ gor' = [gor EXCEPT ![made'] = "select"]
        /\ Goto(c, "publish")
        /\ UNCHANGED <<mu, op>>
     \/ Return(c) /\ UNCHANGED <<made, running, gor>>     \* running, or a bad interval
  /\ UNCHANGED <<scheduler, closed, stopped, stopChan, stoppedChan, cancelled, rounds>>

(* ... and d.scheduler shows it.                                           *)
Publish(c) ==
  /\ pc[c] = "publish"
  /\ scheduler' = made
  /\ Return(c)
  /\ UNCHANGED <<closed, flags, cancelled, gor, rounds>>

(* Stop and Close look at d.scheduler and at its running flag.  Without a  *)
(* running scheduler Stop is an error that changes nothing; Close goes on. *)
Look(c) ==
  /\ pc[c] = "enter" /\ op[c] \in {"stop", "close"}
  /\ IF scheduler # 0 /\ running[scheduler]
       THEN Goto(c, "signal") /\ UNCHANGED <<mu, op, scheduler>>
     ELSE IF op[c] = "close"
       THEN Goto(c, "leave") /\ scheduler' = 0 /\ UNCHANGED <<mu, op>>
       ELSE Return(c) /\ UNCHANGED scheduler
  /\ UNCHANGED <<closed, flags, cancelled, gor, rounds>>

Signal(c) ==
  /\ pc[c] = "signal"
  /\ stopChan' = [stopChan EXCEPT ![scheduler] = TRUE]
  /\ Goto(c, "wait")
  /\ UNCHANGED <<mu, scheduler, closed, op, made, running, stopped, stoppedChan,
                 cancelled, gor, rounds>>

(* Slip: Stop does not wait for the goroutine. *)
WaitNot(c) ==
  /\ pc[c] = "wait"
  /\ stopped' = [stopped EXCEPT ![scheduler] = TRUE]
  /\ scheduler' = 0
  /\ IF op[c] = "stop" THEN Return(c)
     ELSE Goto(c, "leave") /\ UNCHANGED <<mu, op>>
  /\ UNCHANGED <<closed, made, running, stopChan, stoppedChan, cancelled, gor, rounds>>

(* Stop waits for the goroutine, with d.mu held.                           *)
Wait(c) ==
  /\ pc[c] = "wait" /\ stoppedChan[scheduler]
  /\ stopped' = [stopped EXCEPT ![scheduler] = TRUE]
  /\ scheduler' = 0
  /\ IF op[c] = "stop" THEN Return(c)
     ELSE Goto(c, "leave") /\ UNCHANGED <<mu, op>>
  /\ UNCHANGED <<closed, made, running, stopChan, stoppedChan, cancelled, gor, rounds>>

(* Close ends with the adapters and the history.                           *)
CloseResources(c) ==
  /\ pc[c] = "leave"
  /\ closed' = TRUE
  /\ Return(c)
  /\ UNCHANGED <<scheduler, flags, cancelled, gor, rounds>>

CallerStep(c) ==
  \/ StartScheduler(c) \/ Publish(c) \/ Look(c) \/ Signal(c) \/ Wait(c)
  \/ CloseResources(c)

-----------------------------------------------------------------------------
(* The goroutine of scheduler k (IntervalScheduler.run).                   *)

At(k, from, to) == gor[k] = from /\ gor' = [gor EXCEPT ![k] = to]

(* The ticker fires; a select that finds several channels ready takes any. *)
Tick(k) ==
  /\ At(k, "select", "round")
  /\ total' = [total EXCEPT ![k] = Bump(@)]
  /\ todo' = [todo EXCEPT ![k] = NumRules]
  /\ UNCHANGED <<callers, flags, cancelled, finished, saved, lost>>

(* SaveExecution keeps the record or fails, as it does once the history is *)
(* closed; its error is dropped in each of the three places that call it.  *)
SaveExecution(k) ==
  \/ /\ ~closed
     /\ saved' = [saved EXCEPT ![k] = Bump(@)] /\ UNCHANGED lost
  \/ lost' = [lost EXCEPT ![k] = Bump(@)] /\ UNCHANGED saved

(* Slip: the first failing rule ends the round. *)
RunSyncFailFast(k) ==
  /\ At(k, "round", "round") /\ todo[k] > 0
  /\ \E ok \in BOOLEAN : todo' = [todo EXCEPT ![k] = IF ok THEN @ - 1 ELSE 0]
  /\ SaveExecution(k)
  /\ UNCHANGED <<callers, flags, cancelled, total, finished>>

(* RunSync of one rule: planned and executed, with or without an error,    *)
(* and recorded if the history lets it.  Nobody asks the context whether   *)
(* to go on with the next rule.                                            *)
RunSync(k) ==
  /\ At(k, "round", "round") /\ todo[k] > 0
  /\ todo' = [todo EXCEPT ![k] = @ - 1]
  /\ SaveExecution(k)
  /\ UNCHANGED <<callers, flags, cancelled, total, finished>>

(* Slip: a round counts once per rule. *)
EndRoundByRule(k) ==
  /\ At(k, "round", "select") /\ todo[k] = 0
  /\ finished' = [finished EXCEPT ![k] = @ + NumRules]
  /\ UNCHANGED <<callers, flags, cancelled, todo, total, saved, lost>>

EndRound(k) ==
  /\ At(k, "round", "select") /\ todo[k] = 0
  /\ finished' = [finished EXCEPT ![k] = Bump(@)]
  /\ UNCHANGED <<callers, flags, cancelled, todo, total, saved, lost>>

(* Slip: the loop does not look at its context. *)
QuitOnStopOnly(k) ==
  /\ At(k, "select", "exit") /\ stopChan[k]
  /\ UNCHANGED <<callers, flags, cancelled, rounds>>

(* Slip: the loop does not listen on its stop channel. *)
QuitOnCancelOnly(k) ==
  /\ At(k, "select", "exit") /\ cancelled[k]
  /\ UNCHANGED <<callers, flags, cancelled, rounds>>

Quit(k) ==
  /\ At(k, "select", "exit") /\ (stopChan[k] \/ cancelled[k])
  /\ UNCHANGED <<callers, flags, cancelled, rounds>>

(* The deferred function sets the flags, then closes stoppedChan.          *)
MarkStopped(k) ==
  /\ At(k, "exit", "closing")
  /\ stopped' = [stopped EXCEPT ![k] = TRUE]
  /\ running' = [running EXCEPT ![k] = FALSE]
  /\ UNCHANGED <<callers, made, stopChan, stoppedChan, cancelled, rounds>>

CloseChan(k) ==
  /\ At(k, "closing", "done")
  /\ stoppedChan' = [stoppedChan EXCEPT ![k] = TRUE]
  /\ UNCHANGED <<callers, made, running, stopped, stopChan, cancelled, rounds>>

(* The owner of the context cancels it, whenever it likes.                 *)
Cancel(k) ==
  /\ gor[k] # "none" /\ ~cancelled[k]
  /\ cancelled' = [cancelled EXCEPT ![k] = TRUE]
  /\ UNCHANGED <<callers, flags, gor, rounds>>

GoroutineStep(k) == RunSync(k) \/ EndRound(k) \/ MarkStopped(k) \/ CloseChan(k)

-----------------------------------------------------------------------------
Init ==
  /\ mu = None /\ scheduler = 0 /\ closed = FALSE
  /\ op = [c \in Caller |-> "none"] /\ pc = [c \in Caller |-> "idle"]
  /\ made = 0
  /\ running = [k \in Sched |-> FALSE] /\ stopped = [k \in Sched |-> FALSE]
  /\ stopChan = [k \in Sched |-> FALSE] /\ stoppedChan = [k \in Sched |-> FALSE]
  /\ cancelled = [k \in Sched |-> FALSE]
  /\ gor = [k \in Sched |-> "none"]
  /\ todo = [k \in Sched |-> 0] /\ total = [k \in Sched |-> 0]
  /\ finished = [k \in Sched |-> 0]
  /\ saved = [k \in Sched |-> 0] /\ lost = [k \in Sched |-> 0]

Next ==
  \/ \E c \in Caller : Lock(c) \/ Status(c) \/ CallerStep(c)
  \/ \E c \in Caller, o \in Ops : Call(c, o)
  \/ \E k \in Sched : Tick(k) \/ Quit(k) \/ GoroutineStep(k) \/ Cancel(k)

Spec == Init /\ [][Next]_vars

(* Go's mutexes starve nobody, and its select takes a ready channel at     *)
(* random, so a channel that stays ready is taken in the end; each         *)
(* synchronisation ends.                                                   *)
FairSpec ==
  /\ Spec
  /\ \A c \in Caller : SF_vars(Lock(c) \/ Status(c)) /\ WF_vars(CallerStep(c))
  /\ \A k \in Sched : SF_vars(Quit(k)) /\ WF_vars(GoroutineStep(k))

-----------------------------------------------------------------------------
(* At no time do two goroutines run rounds on the one SyncService, whose   *)
(* table of adapters and FileLock nothing else protects (sync.go:20-26).   *)
OneRoundAtATime ==
  \A j, k \in Sched : gor[j] = "round" /\ gor[k] = "round" => j = k

(* Whoever comes back from Stop or Close leaves no synchronisation behind: *)
(* a scheduler the daemon no longer knows has run its last round.          *)
(* docs/daemon-usage.md promises that in-progress syncs are completed.     *)
NoStrayRounds ==
  \A k \in Sched : gor[k] \in {"select", "round"} =>
    scheduler = k \/ \E c \in Caller : pc[c] = "publish" /\ made = k

(* Every round counts once when it begins and once when it ends, and each  *)
(* of its rules is run and brought to the history exactly once, whatever   *)
(* became of the rules and of the records before it (daemon.go:185-186):   *)
(* what the rounds owe the history is saved, or was refused by it.         *)
RoundsAddUp ==
  \A k \in Sched :
    /\ total[k] = (finished[k] + (IF gor[k] = "round" THEN 1 ELSE 0)) % Width
    /\ (saved[k] + lost[k] + todo[k]) % Width = (total[k] * NumRules) % Width

(* Every call of the DaemonService returns, though Stop and Close wait for *)
(* a round with the mutex held.                                            *)
CallsReturn == \A c \in Caller : []<>(pc[c] = "idle")

(* A scheduler whose context is cancelled comes to its end: interval_test  *)
(* TestIntervalScheduler_ContextCancellation.                              *)
CancelEndsLoop ==
  \A k \in Sched : []<>(cancelled[k] => gor[k] = "done")

(* After Stop has returned the daemon is not running: daemon_test.go       *)
(* TestDaemonService_StartStop, "Daemon should not be running after stop". *)
StopStops ==
  [][\A c \in Caller : op[c] = "stop" /\ pc[c] # "idle" /\ pc'[c] = "idle" =>
       scheduler' = 0]_vars
=============================================================================
