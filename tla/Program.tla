------------------------------ MODULE Program ------------------------------
(***************************************************************************)
(* The processes of the program and what they share: the configuration,    *)
(* the PID file, the token file and the history.  A daemon process writes  *)
(* the PID file and then runs its scheduled rules again and again          *)
(* (internal/service/daemon.go, RunSync); a sync process runs the enabled  *)
(* rules once; an auth process signs in.  Their main functions are outside *)
(* src/.  Planning and executing a rule is SyncService's subject: here it  *)
(* goes well or fails.                                                     *)
(***************************************************************************)
EXTENDS PidFile, TokenFile, Configuration, History

CONSTANTS
  Files,     \* the configuration files there may be
  Jobs,      \* Jobs[k]: what the k-th process may be started for
  MaxTime    \* bound: rules begun; the time is their number

ASSUME ProgramAssumption ==
  /\ Client = Proc /\ MaxTime \in Nat
  /\ Jobs \in [1..MaxStarts -> SUBSET {"daemon", "sync", "auth"}]
  /\ \A f \in Files :
       /\ DOMAIN f = {"transports", "endpoints", "rules", "interval"}
       /\ \A s \in {f.transports, f.endpoints, f.rules} : Len(s) \in Nat /\ DOMAIN s = 1..Len(s)

VARIABLES
  conf,      \* the configuration the file gives, or NoConfig
  job,       \* job[p]: what the process p was started for
  phase,     \* phase[p]: how far RunSync has come with its rule, or "idle"
  todo,      \* todo[p]: rules of this round that have not ended
  adapters,  \* adapters[p]: endpoints that p has an adapter for
  record,    \* record[p]: the row RunSync is filling in
  failure,   \* failure[p]: why the rule failed, "none" while it has not
  rows,      \* the table of executions
  now,       \* the time
  ran        \* history: what daemons ran and saved, and how it went

work == <<job, phase, todo, adapters, record, failure, rows, now, ran>>
vars == <<pidVars, tokenVars, conf, work>>

Phases == {"idle", "plan", "source", "target", "execute", "record"}
NoRow == [rule |-> Blank, start |-> 0, text |-> 0, end |-> 0, status |-> "success"]

TypeOK ==
  /\ PidTypeOK /\ TokenTypeOK
  /\ job \in [Proc -> {"daemon", "sync", "auth", "none"}]
  /\ phase \in [Proc -> Phases]
  /\ now \in 0..MaxTime
  /\ \A p \in Proc :
       /\ Alive(p) <=> job[p] # "none"
       /\ at[p] # "apart" => job[p] = "daemon"
       /\ auth[p] # "out" => phase[p] \in {"source", "target"} \/ job[p] = "auth"
       /\ phase[p] = "idle" \/ (todo[p] # {} /\ (at[p] = "daemon" \/ job[p] = "sync"))
       /\ adapters[p] # {} => adapters[p] \subseteq Names(conf.endpoints)
       /\ record[p].start <= now /\ record[p].status \in Statuses
  /\ \A i \in DOMAIN rows : rows[i].end \in 1..now /\ rows[i].status \in Statuses

-----------------------------------------------------------------------------
Enter(p, to) == phase' = [phase EXCEPT ![p] = to]

Launch(p) ==
  /\ conf # NoConfig       \* without one the process says so and ends
  /\ \E d \in Pid : StartProcess(p, d)
  /\ \E j \in Jobs[starts'] : job' = [job EXCEPT ![p] = j]
  /\ UNCHANGED <<tokenVars, conf, phase, todo, adapters, record, failure, rows, now, ran>>

(* Normal ends and crashes: what the process had in memory is gone.        *)
End(p) ==
  /\ EndProcess(p) /\ Forget(p)
  /\ job' = [job EXCEPT ![p] = "none"]
  /\ Enter(p, "idle")
  /\ todo' = [todo EXCEPT ![p] = {}]
  /\ adapters' = [adapters EXCEPT ![p] = {}]
  /\ record' = [record EXCEPT ![p] = NoRow]
  /\ failure' = [failure EXCEPT ![p] = "none"]
  /\ UNCHANGED <<conf, rows, now, ran>>

BeginDaemon(p) == job[p] = "daemon" /\ Write(p) /\ UNCHANGED <<tokenVars, conf, work>>
WritePid(p) == WriteStep(p) /\ UNCHANGED <<tokenVars, conf, work>>

(* Slip: the daemon removes its PID file, then waits for its round. *)
LeaveAtOnce(p) == Remove(p) /\ UNCHANGED <<tokenVars, conf, work>>

(* Close waits for the round that is running; then the PID file goes.      *)
Leave(p) ==
  /\ phase[p] = "idle"
  /\ Remove(p)
  /\ adapters' = [adapters EXCEPT ![p] = {}]
  /\ UNCHANGED <<tokenVars, conf, job, phase, todo, record, failure, rows, now, ran>>

-----------------------------------------------------------------------------
(* RunSync.                                                                *)

BeginRound(p) ==
  LET rules == IF job[p] = "daemon" THEN ScheduledRules(conf) ELSE EnabledRules(conf) IN
  /\ phase[p] = "idle" /\ (at[p] = "daemon" \/ job[p] = "sync")
  /\ rules # {}
  /\ todo' = [todo EXCEPT ![p] = rules]
  /\ Enter(p, "plan")
  /\ UNCHANGED <<pidVars, tokenVars, conf, job, adapters, record, failure, rows, now, ran>>

(* the first rule of the round that is still to do *)
Current(p) == CHOOSE i \in todo[p] : \A j \in todo[p] : i <= j
Name(p) == conf.rules[Current(p)].name

(* PlanSync and ExecuteSync are given no more than its name: GetRule finds *)
(* the first rule that has it, and there is one, the configuration being   *)
(* the same one.                                                           *)
Rule(p) == Get(conf.rules, Name(p))

BeginRule(p) ==
  /\ phase[p] = "plan" /\ now < MaxTime
  /\ now' = now + 1
  /\ record' = [record EXCEPT ![p] =
       [rule |-> Name(p), start |-> now', text |-> now', end |-> 0,
        status |-> "success"]]
  /\ failure' = [failure EXCEPT ![p] = "none"]
  /\ Enter(p, "source")
  /\ UNCHANGED <<pidVars, tokenVars, conf, job, todo, adapters, rows, ran>>

(* Slip: the row is not marked as failed. *)
FailUnmarked(p, reason) ==
  /\ failure' = [failure EXCEPT ![p] = reason]
  /\ UNCHANGED record
  /\ Enter(p, "record")
  /\ UNCHANGED adapters

FailRule(p, reason) ==
  /\ failure' = [failure EXCEPT ![p] = reason]
  /\ record' = [record EXCEPT ![p].status = "failed"]
  /\ Enter(p, "record")
  /\ UNCHANGED adapters

(* the endpoint that PlanSync needs an adapter for *)
Endpoint(p) == IF phase[p] = "source" THEN Rule(p).source ELSE Rule(p).target
Wanting(p) == phase[p] \in {"source", "target"}

(* getAdapter has one: it stays in the map for every later run.            *)
Got(p) ==
  /\ adapters' = [adapters EXCEPT ![p] = @ \cup {Endpoint(p)}]
  /\ Enter(p, IF phase[p] = "source" THEN "target" ELSE "execute")
  /\ UNCHANGED <<record, failure>>

(* getAdapter without a network: the map has it, or it is local, and its   *)
(* root is a directory or not, or the configuration does not do.           *)
GetAdapter(p) ==
  LET type == AdapterOf(conf, Endpoint(p)) IN
  /\ Wanting(p) /\ auth[p] = "out"
  /\ \/ (Endpoint(p) \in adapters[p] \/ type = "local") /\ Got(p)
     \/ Endpoint(p) \notin adapters[p] /\ type = "local" /\ FailRule(p, "root")
     \/ Endpoint(p) \notin adapters[p] /\ type \in {"lookup", "no credentials"} /\ FailRule(p, type)
  /\ UNCHANGED <<pidVars, tokenVars, conf, job, todo, rows, now, ran>>

(* gdrive.New signs in first, ...                                          *)
BeginSignIn(p) ==
  /\ Wanting(p) /\ Endpoint(p) \notin adapters[p] /\ AdapterOf(conf, Endpoint(p)) = "gdrive"
  /\ GetClient(p)
  /\ UNCHANGED <<pidVars, conf, work>>

(* an auth process asks for a code instead                                 *)
BeginAuth(p) == job[p] = "auth" /\ Authenticate(p) /\ UNCHANGED <<pidVars, conf, work>>

SignIn(p) == SignInStep(p) /\ UNCHANGED <<pidVars, conf, work>>

(* ... and then looks for its root, which may fail.  A failed getAdapter   *)
(* leaves the map as it was: the next run tries again.                     *)
SignedIn(p) ==
  /\ Wanting(p) /\ auth[p] \in {"in", "failed"}
  /\ Forget(p)
  /\ \/ auth[p] = "in" /\ Got(p)
     \/ FailRule(p, "sign-in")
  /\ UNCHANGED <<pidVars, conf, job, todo, rows, now, ran>>

(* The plan is made and executed; the lock, the adapters or the context    *)
(* may make it fail.                                                       *)
ExecuteRule(p) ==
  /\ phase[p] = "execute"
  /\ \/ Enter(p, "record") /\ UNCHANGED <<record, failure, adapters>>
     \/ FailRule(p, "execution")
  /\ UNCHANGED <<pidVars, tokenVars, conf, job, todo, rows, now, ran>>

(* A daemon saves the row, and does not look whether that went well.       *)
RecordRule(p) ==
  LET row == [record[p] EXCEPT !.end = now] IN
  /\ phase[p] = "record"
  /\ IF job[p] # "daemon" THEN UNCHANGED <<rows, ran>>
     ELSE \/ /\ rows' = SaveExecution(rows, row)
             /\ ran' = ran \cup {[rule |-> Name(p), start |-> row.start,
                                  well |-> failure[p] = "none"]}
          \/ UNCHANGED <<rows, ran>>        \* SQLite refuses
  /\ record' = [record EXCEPT ![p] = NoRow]
  /\ failure' = [failure EXCEPT ![p] = "none"]
  /\ todo' = [todo EXCEPT ![p] = @ \ {Current(p)}]
  /\ Enter(p, IF todo[p] = {Current(p)} THEN "idle" ELSE "plan")
  /\ UNCHANGED <<pidVars, tokenVars, conf, job, adapters, now>>

RunSync(p) ==
  \/ BeginRound(p) \/ BeginRule(p) \/ GetAdapter(p) \/ BeginSignIn(p) \/ SignedIn(p)
  \/ ExecuteRule(p) \/ RecordRule(p)

-----------------------------------------------------------------------------
ExpireTokens == Expire /\ UNCHANGED <<pidVars, conf, work>>

Init ==
  /\ PidInit /\ TokenInit
  /\ conf \in {Load(f) : f \in Files}
  /\ job = [p \in Proc |-> "none"] /\ phase = [p \in Proc |-> "idle"]
  /\ todo = [p \in Proc |-> {}] /\ adapters = [p \in Proc |-> {}]
  /\ record = [p \in Proc |-> NoRow] /\ failure = [p \in Proc |-> "none"]
  /\ rows = <<>> /\ now = 0 /\ ran = {}

Next ==
  \/ \E p \in Proc :
       \/ Launch(p) \/ End(p) \/ BeginDaemon(p) \/ WritePid(p) \/ Leave(p)
       \/ RunSync(p) \/ BeginAuth(p) \/ SignIn(p)
  \/ ExpireTokens

Spec == Init /\ [][Next]_vars
-----------------------------------------------------------------------------
(* A configuration that Load accepts never sends the services after an     *)
(* endpoint or a transport that is not there, and a rule that is looked up *)
(* by its name is the one that was scheduled under it (config.go:108-191   *)
(* against service/sync.go:87-145).                                        *)
LookupsSucceed ==
  \A p \in Proc : /\ failure[p] # "lookup"
                  /\ phase[p] # "idle" => Rule(p) = conf.rules[Current(p)]

(* Daemons that do not start at once record their runs one after the       *)
(* other, across crashes and restarts: the PID file keeps the daemon to    *)
(* come out until the round of the last one is over or dead.               *)
RecordsInTurn ==
  ~overlapped => \A i, j \in DOMAIN rows : i < j => rows[i].end < rows[j].start

(* Of the runs that were saved, by whatever daemons, the history shows the *)
(* last of all, the last of a rule and the last that went well: a run that *)
(* failed never passes for a success (daemon.go:206-236, manager.go:118).  *)
HistoryTrue ==
  LET Shows(answer, runs) ==
        IF runs = {} THEN answer = <<>>
        ELSE /\ answer # <<>>
             /\ \E last \in runs : /\ last.start = answer[1].start
                                  /\ \A r \in runs : r.start <= last.start IN
  conf # NoConfig =>
    /\ Shows(GetAllHistory(rows, 1), ran)
    /\ \A name \in Names(conf.rules) :
         /\ Shows(GetHistory(rows, name, 1), {x \in ran : x.rule = name})
         /\ Shows(GetLastSuccess(rows, name), {x \in ran : x.rule = name /\ x.well})
=============================================================================
