--------------------------- MODULE ProgramProofs ---------------------------
(***************************************************************************)
(* What the parts promise, the whole keeps: the program's processes use    *)
(* the PID file and the token file as PidFile and TokenFile say.  On that  *)
(* rests that look-ups succeed and that daemons record their runs in turn, *)
(* for any number of processes and whatever configurations, and that the   *)
(* history answers with the runs that were last.                           *)
(***************************************************************************)
EXTENDS Program, PidFileProofs, TokenFileProofs, WellFoundedInduction, SequenceTheorems,
        FiniteSetTheorems

USE ProgramAssumption

LEMMA PidRefined == [Next]_vars => [PidNext]_pidVars
<1> SUFFICES ASSUME [Next]_vars PROVE [PidNext]_pidVars
  OBVIOUS
<1>1. CASE UNCHANGED vars
  BY <1>1 DEF vars
<1>2. ASSUME NEW p \in Proc,
             Launch(p) \/ End(p) \/ BeginDaemon(p) \/ WritePid(p) \/ Leave(p)
      PROVE  PidNext
  BY <1>2 DEF Launch, End, BeginDaemon, WritePid, Leave, PidNext
<1>3. ASSUME NEW p \in Proc, RunSync(p) \/ BeginAuth(p) \/ SignIn(p)
      PROVE  UNCHANGED pidVars
  BY <1>3 DEF RunSync, BeginRound, BeginRule, GetAdapter, BeginSignIn, SignedIn, ExecuteRule,
              RecordRule, BeginAuth, SignIn
<1>4. CASE ExpireTokens
  BY <1>4 DEF ExpireTokens
<1> QED
  BY <1>1, <1>2, <1>3, <1>4 DEF Next

LEMMA TokenRefined == [Next]_vars => [TokenNext]_tokenVars
<1> SUFFICES ASSUME [Next]_vars PROVE [TokenNext]_tokenVars
  OBVIOUS
<1>1. CASE UNCHANGED vars
  BY <1>1 DEF vars
<1>2. ASSUME NEW p \in Proc,
             End(p) \/ BeginSignIn(p) \/ SignedIn(p) \/ BeginAuth(p) \/ SignIn(p)
      PROVE  TokenNext
  BY <1>2 DEF End, BeginSignIn, SignedIn, BeginAuth, SignIn, TokenNext
<1>3. ASSUME NEW p \in Proc,
             \/ Launch(p) \/ BeginDaemon(p) \/ WritePid(p) \/ Leave(p)
             \/ BeginRound(p) \/ BeginRule(p) \/ GetAdapter(p) \/ ExecuteRule(p) \/ RecordRule(p)
      PROVE  UNCHANGED tokenVars
  BY <1>3 DEF Launch, BeginDaemon, WritePid, Leave, BeginRound, BeginRule, GetAdapter,
              ExecuteRule, RecordRule
<1>4. CASE ExpireTokens
  BY <1>4 DEF ExpireTokens, TokenNext
<1> QED
  BY <1>1, <1>2, <1>3, <1>4 DEF Next, RunSync

(* The processes of the program use the PID file as PidFile says and the   *)
(* token file as TokenFile says, so that whatever is proved of these holds *)
(* of the program (pidfile.go:37-84, auth.go:91-221).                      *)
THEOREM PartsImplemented == Spec => PidSpec /\ TokenSpec
<1>1. Init => PidInit /\ TokenInit
  BY DEF Init
<1> QED
  BY <1>1, PidRefined, TokenRefined, PTL DEF Spec, PidSpec, TokenSpec
(* So the daemon is named, the token file whole and signing in fails for a *)
(* cause in the whole program too, and nobody is refused without one.      *)
THEOREM SharedFilesKept ==
  Spec => [](DaemonIsNamed /\ TokenWhole /\ FailsForCause) /\ RefusedOnlyByDaemon
BY PartsImplemented, FileNamesDaemon, RefusalsJustified, TokenFileWhole, SignInFailsForCause, PTL

-----------------------------------------------------------------------------
(* Configurations and rules.                                               *)

IsConfiguration(c) ==
  /\ Validate(c)
  /\ \A s \in {c.transports, c.endpoints, c.rules} : Len(s) \in Nat /\ DOMAIN s = 1..Len(s)

LEMMA LoadIsConfiguration ==
  ASSUME NEW f \in Files, Load(f) # NoConfig
  PROVE  IsConfiguration(Load(f))
<1> DEFINE rules == [i \in DOMAIN f.rules |->
               [f.rules[i] EXCEPT !.enabled = @ # "false",
                                  !.conflict = IF @ = Blank THEN "manual" ELSE @]]
<1>1. Load(f) = Defaults(f) /\ Validate(Load(f))
  BY DEF Load
<1>2. Defaults(f) = [f EXCEPT !.rules = rules]
  BY DEF Defaults
<1>3. /\ Load(f).transports = f.transports /\ Load(f).endpoints = f.endpoints
      /\ Load(f).rules = rules
  <2> HIDE DEF rules
  <2> QED
    BY <1>1, <1>2
<1>4. Len(rules) = Len(f.rules) /\ DOMAIN rules = 1..Len(f.rules)
  OBVIOUS
<1> HIDE DEF rules
<1> QED
  BY <1>1, <1>3, <1>4 DEF IsConfiguration

(* The look-up of a name that is there, and only once, finds it.           *)
LEMMA GetFinds ==
  ASSUME NEW s, Unique(s), Len(s) \in Nat, DOMAIN s = 1..Len(s), NEW name \in Names(s)
  PROVE  \E i \in DOMAIN s : Get(s, name) = s[i] /\ s[i].name = name
<1>1. PICK i \in DOMAIN s : s[i].name = name
  BY DEF Names
<1>2. \A j \in 1..i - 1 : s[j].name # name
  BY <1>1 DEF Unique
<1>3. \E k \in DOMAIN s : s[k].name = name /\ \A j \in 1..k - 1 : s[j].name # name
  BY <1>1, <1>2
<1> QED
  BY <1>3 DEF Get

(* So a valid configuration has an adapter for every endpoint of a rule.   *)
LEMMA AdapterFound ==
  ASSUME NEW c, IsConfiguration(c), NEW i \in DOMAIN c.rules,
         NEW e \in {c.rules[i].source, c.rules[i].target}
  PROVE  AdapterOf(c, e) # "lookup"
<1>1. e \in Names(c.endpoints)
  BY DEF IsConfiguration, Validate
<1>2. PICK k \in DOMAIN c.endpoints : Get(c.endpoints, e) = c.endpoints[k]
  BY <1>1, GetFinds DEF IsConfiguration, Validate, ValidateEndpoints
<1>3. c.endpoints[k].transport \in Names(c.transports)
  BY DEF IsConfiguration, Validate, ValidateEndpoints
<1>4. PICK t \in DOMAIN c.transports :
        Get(c.transports, c.endpoints[k].transport) = c.transports[t]
  BY <1>3, GetFinds DEF IsConfiguration, Validate
<1>5. c.transports[t].type \in {"local", "gdrive"}
  BY DEF IsConfiguration, Validate, TransportTypes
<1>6. AdapterOf(c, e) \in {"no credentials", c.transports[t].type}
  BY <1>1, <1>2, <1>3, <1>4 DEF AdapterOf, Has
<1> QED
  BY <1>5, <1>6

(* A set of numbers has a least one, so the round has a first rule.        *)
LEMMA Least ==
  ASSUME NEW T, T \subseteq Nat, T # {}
  PROVE  \E i \in T : \A j \in T : i <= j
<1> DEFINE R == {ss \in Nat \X Nat : ss[1] < ss[2]}
<1>1. OpToRel(<, Nat) = R
  BY Zenon DEF OpToRel
<1>2. IsWellFoundedOn(R, Nat)
  BY <1>1, NatLessThanWellFounded, Zenon
<1> HIDE DEF R
<1>3. PICK i \in T : \A j \in T : ~ (<<j, i>> \in R)
  BY <1>2, WFMin, Zenon
<1>4. \A j \in T : ~(j < i)
  BY <1>3 DEF R
<1> QED
  BY <1>4

LEMMA CurrentToDo ==
  ASSUME NEW p \in Proc, todo[p] \subseteq Nat, todo[p] # {}
  PROVE  Current(p) \in todo[p]
BY Least DEF Current
-----------------------------------------------------------------------------
(* The work of the processes.                                              *)

(* what rules fail for, "lookup" never                                     *)
Failures == {"none", "root", "no credentials", "sign-in", "execution"}

WorkTypeOK ==
  /\ job \in [Proc -> {"daemon", "sync", "auth", "none"}]
  /\ phase \in [Proc -> Phases]
  /\ todo \in [Proc -> SUBSET Nat]
  /\ failure \in [Proc -> Failures]

(* Why look-ups succeed: whoever is at work has a configuration that Load  *)
(* accepted, and works at a rule of it.                                    *)
WorkInv ==
  /\ WorkTypeOK
  /\ conf # NoConfig => IsConfiguration(conf)
  /\ \A p \in Proc :
       /\ Alive(p) => conf # NoConfig
       /\ job[p] # "none" => Alive(p)
       /\ at[p] # "apart" => job[p] = "daemon"
       /\ phase[p] # "idle" =>
            /\ at[p] = "daemon" \/ job[p] = "sync"
            /\ todo[p] # {} /\ todo[p] \subseteq DOMAIN conf.rules

LEMMA InitWorkInv == Init => WorkInv
<1> SUFFICES ASSUME Init PROVE WorkInv
  OBVIOUS
<1>1. conf # NoConfig => IsConfiguration(conf)
  BY LoadIsConfiguration DEF Init
<1>2. WorkTypeOK
  <2>1. /\ job \in [Proc -> {"daemon", "sync", "auth", "none"}]
        /\ phase \in [Proc -> Phases]
    BY DEF Init, Phases
  <2>2. todo \in [Proc -> SUBSET Nat] /\ failure \in [Proc -> Failures]
    BY DEF Init, Failures
  <2> QED
    BY <2>1, <2>2 DEF WorkTypeOK
<1>3. \A p \in Proc : ~Alive(p) /\ job[p] = "none" /\ at[p] = "apart" /\ phase[p] = "idle"
  BY DEF Init, PidInit, Alive
<1> QED
  BY <1>1, <1>2, <1>3 DEF WorkInv

(* Whoever is at work has a rule.                                          *)
LEMMA AtARule ==
  ASSUME WorkInv, PidInv, NEW p \in Proc, phase[p] # "idle"
  PROVE  Current(p) \in DOMAIN conf.rules /\ conf # NoConfig
<1>1. Alive(p)
  BY DEF WorkInv, PidInv
<1>2. conf # NoConfig
  BY <1>1 DEF WorkInv
<1>3. DOMAIN conf.rules \subseteq Nat
  BY <1>2 DEF WorkInv, IsConfiguration
<1>4. todo[p] # {} /\ todo[p] \subseteq DOMAIN conf.rules
  BY DEF WorkInv
<1> QED
  BY <1>2, <1>3, <1>4, CurrentToDo

(* The steps of the PID file alone.                                        *)
(* Names being unique, it is the one that its name finds.                  *)
LEMMA RuleFound ==
  ASSUME WorkInv, PidInv, NEW p \in Proc, phase[p] # "idle"
  PROVE  Rule(p) = conf.rules[Current(p)]
<1>1. /\ Current(p) \in DOMAIN conf.rules /\ Unique(conf.rules)
      /\ Len(conf.rules) \in Nat /\ DOMAIN conf.rules = 1..Len(conf.rules)
  BY AtARule DEF WorkInv, IsConfiguration, Validate
<1>2. Name(p) \in Names(conf.rules)
  BY <1>1 DEF Name, Names
<1>3. PICK i \in DOMAIN conf.rules : Rule(p) = conf.rules[i] /\ conf.rules[i].name = Name(p)
  BY <1>1, <1>2, GetFinds DEF Rule
<1>4. i = Current(p)
  BY <1>1, <1>3 DEF Unique, Name
<1> QED
  BY <1>3, <1>4

LEMMA PidStepsKeepWork ==
  ASSUME WorkInv, PidInv, UNCHANGED <<conf, work>>, NEW p \in Proc,
         BeginDaemon(p) \/ WritePid(p)
  PROVE  WorkInv'
<1>1. UNCHANGED pid
  BY DEF BeginDaemon, WritePid, Write, WriteStep, Stat, Read, Probe, Clear, Create, Fill
<1>2. \A q \in Proc \ {p} : at'[q] = at[q]
  BY DEF BeginDaemon, WritePid, Write, WriteStep, Stat, Read, Probe, Clear, Create, Fill, Step,
         PidInv, PidTypeOK
<1>3. job[p] = "daemon" /\ at[p] # "daemon"
  BY DEF BeginDaemon, WritePid, Write, WriteStep, Stat, Read, Probe, Clear, Create, Fill, Step,
         WorkInv
<1> QED
  BY <1>1, <1>2, <1>3 DEF WorkInv, WorkTypeOK, work, Alive

(* A step of RunSync at a rule.                                            *)
LEMMA RuleStepKeepsWork ==
  ASSUME WorkInv, NEW p \in Proc, UNCHANGED <<pidVars, conf, job>>,
         phase[p] # "idle",
         NEW to \in Phases, phase' = [phase EXCEPT ![p] = to],
         NEW reason \in Failures, failure' = [failure EXCEPT ![p] = reason],
         NEW left \in SUBSET todo[p], todo' = [todo EXCEPT ![p] = left],
         to # "idle" => left # {}
  PROVE  WorkInv'
<1>1. WorkTypeOK'
  BY DEF WorkInv, WorkTypeOK
<1>2. \A q \in Proc : q # p => phase'[q] = phase[q] /\ todo'[q] = todo[q]
  BY DEF WorkInv, WorkTypeOK
<1>3. phase'[p] = to /\ todo'[p] = left
  BY DEF WorkInv, WorkTypeOK
<1>4. UNCHANGED <<at, pid, conf, job>>
  BY DEF pidVars
<1> QED
  BY <1>1, <1>2, <1>3, <1>4 DEF WorkInv, Alive

LEMMA WorkStep ==
  ASSUME WorkInv, PidInv, [Next]_vars
  PROVE  WorkInv'
<1>1. CASE UNCHANGED vars
  BY <1>1 DEF vars, pidVars, work, WorkInv, WorkTypeOK, Alive
<1>2. ASSUME NEW p \in Proc, Launch(p) PROVE WorkInv'
  <2>1. PICK d \in Pid : StartProcess(p, d)
    BY <1>2 DEF Launch
  <2>2. PICK j \in Jobs[starts'] : job' = [job EXCEPT ![p] = j]
    BY <1>2 DEF Launch
  <2>3. j \in {"daemon", "sync", "auth"}
    <3>1. starts' \in 1..MaxStarts
      <4>1. starts \in Nat /\ starts < MaxStarts /\ starts' = starts + 1 /\ MaxStarts \in Nat
        BY <2>1, PidAssumption DEF StartProcess, PidInv, PidTypeOK
      <4> QED
        BY <4>1
    <3> QED
      BY <2>2, <3>1
  <2>4. ~Alive(p) /\ at[p] = "apart" /\ phase[p] = "idle"
    BY <2>1 DEF StartProcess, PidInv, WorkInv
  <2>5. pid' = [pid EXCEPT ![p] = d] /\ d # NoPid /\ UNCHANGED at
    BY <2>1, PidAssumption DEF StartProcess
  <2>6. conf # NoConfig /\ UNCHANGED <<conf, phase, todo, failure>>
    BY <1>2 DEF Launch
  <2>7. \A q \in Proc : q # p => job'[q] = job[q] /\ pid'[q] = pid[q]
    BY <2>2, <2>5 DEF WorkInv, WorkTypeOK, PidInv, PidTypeOK
  <2>8. job'[p] = j /\ pid'[p] = d
    BY <2>2, <2>5 DEF WorkInv, WorkTypeOK, PidInv, PidTypeOK
  <2>9. WorkTypeOK'
    BY <2>2, <2>3, <2>6 DEF WorkInv, WorkTypeOK
  <2> QED
    BY <2>4, <2>5, <2>6, <2>7, <2>8, <2>9 DEF WorkInv, Alive
<1>3. ASSUME NEW p \in Proc, End(p) PROVE WorkInv'
  <2>1. /\ pid' = [pid EXCEPT ![p] = NoPid] /\ at' = [at EXCEPT ![p] = "apart"]
        /\ job' = [job EXCEPT ![p] = "none"] /\ phase' = [phase EXCEPT ![p] = "idle"]
        /\ todo' = [todo EXCEPT ![p] = {}] /\ failure' = [failure EXCEPT ![p] = "none"]
        /\ UNCHANGED conf
    BY <1>3 DEF End, EndProcess, Enter
  <2>2. WorkTypeOK'
    BY <2>1 DEF WorkInv, WorkTypeOK, Phases, Failures
  <2>3. /\ ~Alive(p)' /\ at'[p] = "apart" /\ job'[p] = "none" /\ phase'[p] = "idle"
        /\ \A q \in Proc \ {p} : /\ pid'[q] = pid[q] /\ at'[q] = at[q] /\ job'[q] = job[q]
                                /\ phase'[q] = phase[q] /\ todo'[q] = todo[q]
    BY <2>1 DEF WorkInv, WorkTypeOK, PidInv, PidTypeOK, Alive
  <2> QED
    BY <2>1, <2>2, <2>3 DEF WorkInv, Alive
<1>4. ASSUME NEW p \in Proc, BeginDaemon(p) \/ WritePid(p) PROVE WorkInv'
  BY <1>4, PidStepsKeepWork DEF BeginDaemon, WritePid
<1>5. ASSUME NEW p \in Proc, Leave(p) PROVE WorkInv'
  BY <1>5 DEF Leave, Remove, Step, WorkInv, WorkTypeOK, PidInv, PidTypeOK, Alive
<1>6. ASSUME NEW p \in Proc, BeginRound(p) PROVE WorkInv'
  BY <1>6 DEF BeginRound, Enter, ScheduledRules, EnabledRules, pidVars,
              WorkInv, WorkTypeOK, PidInv, Phases, Alive, IsConfiguration
<1>7. ASSUME NEW p \in Proc, BeginRule(p) PROVE WorkInv'
  <2>1. /\ phase[p] = "plan" /\ phase' = [phase EXCEPT ![p] = "source"]
        /\ failure' = [failure EXCEPT ![p] = "none"] /\ UNCHANGED <<pidVars, conf, job, todo>>
    BY <1>7 DEF BeginRule, Enter
  <2>2. todo' = [todo EXCEPT ![p] = todo[p]] /\ todo[p] # {}
    BY <2>1 DEF WorkInv, WorkTypeOK
  <2> QED
    BY <2>1, <2>2, RuleStepKeepsWork DEF Phases, Failures
<1>8. ASSUME NEW p \in Proc, GetAdapter(p) PROVE WorkInv'
  <2>1. phase[p] \in {"source", "target"} /\ UNCHANGED <<pidVars, conf, job, todo>>
    BY <1>8 DEF GetAdapter, Wanting
  <2>2. todo' = [todo EXCEPT ![p] = todo[p]] /\ todo[p] # {}
    BY <2>1 DEF WorkInv, WorkTypeOK
  <2>3. AdapterOf(conf, Endpoint(p)) # "lookup"
    <3>1. Current(p) \in DOMAIN conf.rules /\ conf # NoConfig
      BY <2>1, AtARule
    <3>2. Endpoint(p) \in {conf.rules[Current(p)].source, conf.rules[Current(p)].target}
      BY <2>1, RuleFound DEF Endpoint
    <3> QED
      BY <3>1, <3>2, AdapterFound DEF WorkInv
  <2>4. CASE Got(p)
    <3>1. \E to \in {"target", "execute"} : phase' = [phase EXCEPT ![p] = to]
      BY <2>4 DEF Got, Enter
    <3>2. failure' = [failure EXCEPT ![p] = failure[p]] /\ failure[p] \in Failures
      BY <2>4 DEF Got, WorkInv, WorkTypeOK
    <3> QED
      BY <2>1, <2>2, <3>1, <3>2, RuleStepKeepsWork DEF Phases
  <2>5. ASSUME NEW reason \in {"root", "no credentials"}, FailRule(p, reason)
        PROVE  WorkInv'
    BY <2>1, <2>2, <2>5, RuleStepKeepsWork DEF FailRule, Enter, Phases, Failures
  <2> QED
    BY <1>8, <2>3, <2>4, <2>5 DEF GetAdapter
<1>9. ASSUME NEW p \in Proc, BeginSignIn(p) \/ BeginAuth(p) \/ SignIn(p) PROVE WorkInv'
  BY <1>9 DEF BeginSignIn, BeginAuth, SignIn, pidVars, work, WorkInv, WorkTypeOK, Alive
<1>10. ASSUME NEW p \in Proc, SignedIn(p) PROVE WorkInv'
  <2>1. phase[p] \in {"source", "target"} /\ UNCHANGED <<pidVars, conf, job, todo>>
    BY <1>10 DEF SignedIn, Wanting
  <2>2. todo' = [todo EXCEPT ![p] = todo[p]] /\ todo[p] # {}
    BY <2>1 DEF WorkInv, WorkTypeOK
  <2>3. CASE Got(p)
    <3>1. \E to \in {"target", "execute"} : phase' = [phase EXCEPT ![p] = to]
      BY <2>3 DEF Got, Enter
    <3>2. failure' = [failure EXCEPT ![p] = failure[p]] /\ failure[p] \in Failures
      BY <2>3 DEF Got, WorkInv, WorkTypeOK
    <3> QED
      BY <2>1, <2>2, <3>1, <3>2, RuleStepKeepsWork DEF Phases
  <2>4. CASE FailRule(p, "sign-in")
    BY <2>1, <2>2, <2>4, RuleStepKeepsWork DEF FailRule, Enter, Phases, Failures
  <2> QED
    BY <1>10, <2>3, <2>4 DEF SignedIn
<1>11. ASSUME NEW p \in Proc, ExecuteRule(p) PROVE WorkInv'
  <2>1. phase[p] = "execute" /\ UNCHANGED <<pidVars, conf, job, todo>>
    BY <1>11 DEF ExecuteRule
  <2>2. todo' = [todo EXCEPT ![p] = todo[p]] /\ todo[p] # {}
    BY <2>1 DEF WorkInv, WorkTypeOK
  <2>3. phase' = [phase EXCEPT ![p] = "record"]
    BY <1>11 DEF ExecuteRule, FailRule, Enter
  <2>4. \E reason \in Failures : failure' = [failure EXCEPT ![p] = reason]
    <3>1. failure' = failure \/ failure' = [failure EXCEPT ![p] = "execution"]
      BY <1>11 DEF ExecuteRule, FailRule
    <3>2. failure = [failure EXCEPT ![p] = failure[p]] /\ failure[p] \in Failures
      BY DEF WorkInv, WorkTypeOK
    <3> QED
      BY <3>1, <3>2 DEF Failures
  <2> QED
    BY <2>1, <2>2, <2>3, <2>4, RuleStepKeepsWork DEF Phases
<1>12. ASSUME NEW p \in Proc, RecordRule(p) PROVE WorkInv'
  <2> DEFINE left == todo[p] \ {Current(p)}
             to == IF todo[p] = {Current(p)} THEN "idle" ELSE "plan"
  <2>1. /\ phase[p] = "record" /\ UNCHANGED <<pidVars, conf, job>>
        /\ phase' = [phase EXCEPT ![p] = to] /\ failure' = [failure EXCEPT ![p] = "none"]
        /\ todo' = [todo EXCEPT ![p] = left]
    BY <1>12 DEF RecordRule, Enter
  <2>2. to # "idle" => left # {}
    BY <2>1 DEF WorkInv
  <2>3. to \in Phases /\ left \in SUBSET todo[p]
    BY DEF Phases
  <2> HIDE DEF left, to
  <2> QED
    BY <2>1, <2>2, <2>3, RuleStepKeepsWork DEF Failures
<1>13. CASE ExpireTokens
  BY <1>13 DEF ExpireTokens, pidVars, work, WorkInv, WorkTypeOK, Alive
<1> QED
  BY <1>1, <1>2, <1>3, <1>4, <1>5, <1>6, <1>7, <1>8, <1>9, <1>10, <1>11, <1>12, <1>13
  DEF Next, RunSync

LEMMA WorkInvAlways == Spec => [](PidInv /\ WorkInv)
<1>1. Spec => []PidInv
  BY PartsImplemented, PidInvAlways, PTL
<1>2. Spec => []WorkInv
  BY <1>1, InitWorkInv, WorkStep, PTL DEF Spec
<1> QED
  BY <1>1, <1>2, PTL

(* A configuration that Load accepts never sends the services after an     *)
(* endpoint or a transport that is not there, and the rule that a name     *)
(* finds is the one scheduled under it (config.go:108-191,                 *)
(* service/sync.go:87-145).                                                *)
THEOREM LookupsAlwaysSucceed == Spec => []LookupsSucceed
<1>1. WorkInv /\ PidInv => LookupsSucceed
  <2> SUFFICES ASSUME WorkInv, PidInv, NEW p \in Proc
               PROVE  /\ failure[p] # "lookup"
                      /\ phase[p] # "idle" => Rule(p) = conf.rules[Current(p)]
    BY DEF LookupsSucceed
  <2>1. failure[p] # "lookup"
    BY DEF WorkInv, WorkTypeOK, Failures
  <2> QED
    BY <2>1, RuleFound
<1> QED
  BY WorkInvAlways, <1>1, PTL
-----------------------------------------------------------------------------
(* The history.                                                            *)

Row == [rule : Names(conf.rules) \cup {Blank}, start : Nat, text : Nat, end : Nat,
        status : Statuses]
Running == {"source", "target", "execute", "record"}

RowsOK == now \in Nat /\ record \in [Proc -> Row] /\ rows \in Seq(Row)

(* Why rows come in turn: a daemon at a rule began it after the last row   *)
(* was written, and no other daemon can write one before it ends.          *)
TurnInv ==
  /\ \A i \in DOMAIN rows : rows[i].end <= now
  /\ ~overlapped =>
       \A p \in Proc : job[p] = "daemon" /\ phase[p] \in Running =>
         \A i \in DOMAIN rows : rows[i].end < record[p].start
  /\ RecordsInTurn

HistoryInv == RowsOK /\ TurnInv

LEMMA InitHistoryInv == Init => HistoryInv
<1> SUFFICES ASSUME Init PROVE HistoryInv
  OBVIOUS
<1>1. NoRow \in Row
  BY DEF NoRow, Row, Statuses
<1>2. RowsOK
  BY <1>1 DEF Init, RowsOK
<1>3. TurnInv
  BY DEF Init, TurnInv, RecordsInTurn
<1> QED
  BY <1>2, <1>3 DEF HistoryInv

(* A step that neither begins nor records a rule.                          *)
LEMMA OtherStepKeepsHistory ==
  ASSUME HistoryInv, UNCHANGED <<conf, rows, now>>,
         overlapped => overlapped',
         record' \in [Proc -> Row],
         \A p \in Proc : job'[p] = "daemon" /\ phase'[p] \in Running =>
           job[p] = "daemon" /\ phase[p] \in Running /\ record'[p].start = record[p].start
  PROVE  HistoryInv'
<1>1. RowsOK'
  BY DEF HistoryInv, RowsOK, Row
<1>2. TurnInv'
  BY DEF HistoryInv, TurnInv, RecordsInTurn
<1> QED
  BY <1>1, <1>2 DEF HistoryInv

LEMMA OverlapStays ==
  ASSUME PidInv, [Next]_vars
  PROVE  overlapped => overlapped'
BY PidRefined DEF PidInv, PidTypeOK, PidNext, WriteStep, StartProcess, EndProcess, Write, Stat,
   Read, Probe, Clear, Create, Fill, Remove, pidVars

(* Without an overlap only one daemon is at work.                          *)
LEMMA OneDaemonWorks ==
  ASSUME PidInv, WorkInv, ~overlapped, NEW p \in Proc, NEW q \in Proc,
         job[p] = "daemon", phase[p] # "idle", job[q] = "daemon", phase[q] # "idle"
  PROVE  p = q
<1>1. at[p] = "daemon" /\ at[q] = "daemon"
  BY DEF WorkInv
<1>2. pidfile = pid[p] /\ pidfile = pid[q] /\ Alive(p)
  BY <1>1 DEF PidInv, NamedInv
<1> QED
  BY <1>2 DEF PidInv, PidTypeOK, Alive

LEMMA HistoryStep ==
  ASSUME PidInv, WorkInv, HistoryInv, [Next]_vars
  PROVE  HistoryInv'
<1>0. overlapped => overlapped'
  BY OverlapStays
<1>1. CASE UNCHANGED vars
  BY <1>0, <1>1, OtherStepKeepsHistory DEF vars, pidVars, work, HistoryInv, RowsOK
<1>2. ASSUME NEW p \in Proc, Launch(p) PROVE HistoryInv'
  <2>1. phase[p] = "idle" /\ \A q \in Proc : q # p => job'[q] = job[q]
    BY <1>2 DEF Launch, StartProcess, PidInv, WorkInv, WorkTypeOK
  <2>2. UNCHANGED <<conf, rows, now, record, phase>>
    BY <1>2 DEF Launch
  <2> QED
    BY <1>0, <2>1, <2>2, OtherStepKeepsHistory DEF HistoryInv, RowsOK, Running
<1>3. ASSUME NEW p \in Proc, End(p) PROVE HistoryInv'
  <2>1. /\ UNCHANGED <<conf, rows, now>> /\ job' = [job EXCEPT ![p] = "none"]
        /\ phase' = [phase EXCEPT ![p] = "idle"] /\ record' = [record EXCEPT ![p] = NoRow]
    BY <1>3 DEF End, Enter
  <2>2. NoRow \in Row
    BY DEF NoRow, Row, Statuses
  <2>3. record' \in [Proc -> Row]
    BY <2>1, <2>2 DEF HistoryInv, RowsOK
  <2>4. /\ job'[p] = "none"
        /\ \A q \in Proc : q # p => job'[q] = job[q] /\ phase'[q] = phase[q] /\ record'[q] = record[q]
    BY <2>1 DEF WorkInv, WorkTypeOK, HistoryInv, RowsOK
  <2> QED
    BY <1>0, <2>1, <2>3, <2>4, OtherStepKeepsHistory
<1>4. ASSUME NEW p \in Proc, \/ BeginDaemon(p) \/ WritePid(p) \/ Leave(p) \/ BeginSignIn(p)
                             \/ BeginAuth(p) \/ SignIn(p)
      PROVE  HistoryInv'
  <2>1. UNCHANGED <<conf, rows, now, record, phase, job>>
    BY <1>4 DEF BeginDaemon, WritePid, Leave, BeginSignIn, BeginAuth, SignIn, work
  <2> QED
    BY <1>0, <2>1, OtherStepKeepsHistory DEF HistoryInv, RowsOK
<1>5. ASSUME NEW p \in Proc, BeginRound(p) PROVE HistoryInv'
  <2>1. UNCHANGED <<conf, rows, now, record, job>> /\ phase' = [phase EXCEPT ![p] = "plan"]
    BY <1>5 DEF BeginRound, Enter
  <2>2. \A q \in Proc : phase'[q] \in Running => phase[q] \in Running
    BY <2>1 DEF WorkInv, WorkTypeOK, Running
  <2> QED
    BY <1>0, <2>1, <2>2, OtherStepKeepsHistory DEF HistoryInv, RowsOK
<1>6. ASSUME NEW p \in Proc, BeginRule(p) PROVE HistoryInv'
  <2>1. /\ phase[p] = "plan" /\ now' = now + 1 /\ UNCHANGED <<conf, rows, job>>
        /\ phase' = [phase EXCEPT ![p] = "source"]
        /\ record' = [record EXCEPT ![p] =
             [rule |-> Name(p), start |-> now', text |-> now', end |-> 0,
              status |-> "success"]]
    BY <1>6 DEF BeginRule, Enter
  <2>2. Name(p) \in Names(conf.rules)
    BY <2>1, AtARule DEF Name, Names
  <2>3. RowsOK'
    BY <2>1, <2>2 DEF HistoryInv, RowsOK, Row, Statuses
  <2>4. /\ record'[p].start = now + 1
        /\ \A q \in Proc : q # p => phase'[q] = phase[q] /\ record'[q] = record[q]
    BY <2>1 DEF HistoryInv, RowsOK, WorkInv, WorkTypeOK
  <2>5. now \in Nat /\ \A i \in DOMAIN rows : rows[i].end \in Nat /\ rows[i].end <= now
    <3>1. rows \in Seq(Row) /\ now \in Nat
      BY DEF HistoryInv, RowsOK
    <3>2. \A i \in DOMAIN rows : rows[i] \in Row
      BY <3>1
    <3>3. \A r \in Row : r.end \in Nat
      BY DEF Row
    <3> QED
      BY <3>1, <3>2, <3>3 DEF HistoryInv, TurnInv
  <2>6. \A i \in DOMAIN rows : rows[i].end < now + 1 /\ rows[i].end <= now + 1
    BY <2>5
  <2>7. TurnInv'
    BY <1>0, <2>1, <2>4, <2>6 DEF HistoryInv, TurnInv, RecordsInTurn
  <2> QED
    BY <2>3, <2>7 DEF HistoryInv
<1>7. ASSUME NEW p \in Proc, GetAdapter(p) \/ SignedIn(p) \/ ExecuteRule(p) PROVE HistoryInv'
  <2>1. UNCHANGED <<conf, rows, now, job>> /\ phase[p] \in Running
    BY <1>7 DEF GetAdapter, SignedIn, ExecuteRule, Wanting, Running
  <2>2. record' = record \/ record' = [record EXCEPT ![p].status = "failed"]
    BY <1>7 DEF GetAdapter, SignedIn, ExecuteRule, Got, FailRule
  <2>3. record' \in [Proc -> Row] /\ \A q \in Proc : record'[q].start = record[q].start
    <3> DEFINE failed == [record[p] EXCEPT !.status = "failed"]
    <3>1. record[p] \in Row
      BY DEF HistoryInv, RowsOK
    <3>2. failed \in Row /\ failed.start = record[p].start
      BY <3>1 DEF Row, Statuses
    <3>3. record' = record \/ record' = [record EXCEPT ![p] = failed]
      BY <2>2
    <3> HIDE DEF failed
    <3> QED
      BY <3>2, <3>3 DEF HistoryInv, RowsOK
  <2>4. \A q \in Proc : q # p => phase'[q] = phase[q]
    BY <1>7 DEF GetAdapter, SignedIn, ExecuteRule, Got, FailRule, Enter, WorkInv, WorkTypeOK
  <2> QED
    BY <1>0, <2>1, <2>3, <2>4, OtherStepKeepsHistory
<1>8. ASSUME NEW p \in Proc, RecordRule(p) PROVE HistoryInv'
  <2> DEFINE row == [record[p] EXCEPT !.end = now]
  <2>1. /\ phase[p] = "record" /\ UNCHANGED <<conf, now, job>>
        /\ record' = [record EXCEPT ![p] = NoRow]
        /\ \E to \in {"idle", "plan"} : phase' = [phase EXCEPT ![p] = to]
    BY <1>8 DEF RecordRule, Enter
  <2>2. row \in Row /\ row.start = record[p].start /\ row.end = now /\ row.status \in Statuses
    BY DEF HistoryInv, RowsOK, Row
  <2>3. NoRow \in Row
    BY DEF NoRow, Row, Statuses
  <2>4. record' \in [Proc -> Row]
    BY <2>1, <2>3 DEF HistoryInv, RowsOK
  <2>5. /\ phase'[p] \notin Running
        /\ \A q \in Proc : q # p => phase'[q] = phase[q] /\ record'[q] = record[q]
    BY <2>1 DEF HistoryInv, RowsOK, WorkInv, WorkTypeOK, Running
  <2>6. CASE UNCHANGED rows
    BY <1>0, <2>1, <2>4, <2>5, <2>6, OtherStepKeepsHistory
  <2>7. CASE job[p] = "daemon" /\ rows' = Append(rows, row)
    <3> HIDE DEF row
    <3>1. rows \in Seq(Row) /\ now \in Nat
      BY DEF HistoryInv, RowsOK
    <3>2. /\ rows' \in Seq(Row) /\ Len(rows') = Len(rows) + 1
          /\ \A i \in 1..Len(rows) : rows'[i] = rows[i]
          /\ rows'[Len(rows) + 1] = row
      BY <2>2, <2>7, <3>1, AppendProperties
    <3>3. /\ DOMAIN rows = 1..Len(rows) /\ Len(rows) \in Nat
          /\ DOMAIN rows' = 1..Len(rows) + 1
      BY <3>1, <3>2
    <3>4. RowsOK'
      BY <2>1, <2>4, <3>1, <3>2 DEF RowsOK, Row
    <3>5. \A i \in DOMAIN rows' : rows'[i].end <= now'
      BY <2>1, <2>2, <3>1, <3>2, <3>3 DEF HistoryInv, TurnInv
    <3>6. ASSUME ~overlapped'
          PROVE  \A i \in 1..Len(rows) : rows[i].end < row.start
      BY <1>0, <2>1, <2>2, <2>7, <3>3, <3>6 DEF HistoryInv, TurnInv, Running
    <3>7. RecordsInTurn'
      BY <1>0, <3>2, <3>3, <3>6 DEF HistoryInv, TurnInv, RecordsInTurn
    <3>8. ASSUME ~overlapped', NEW q \in Proc, job'[q] = "daemon", phase'[q] \in Running
          PROVE  FALSE
      <4>1. q # p /\ job[q] = "daemon" /\ phase[q] # "idle"
        BY <2>1, <2>5, <3>8 DEF Running
      <4> QED
        BY <1>0, <2>1, <2>7, <3>8, <4>1, OneDaemonWorks
    <3> QED
      BY <3>4, <3>5, <3>7, <3>8 DEF HistoryInv, TurnInv
  <2>8. \/ UNCHANGED rows
        \/ job[p] = "daemon" /\ rows' = Append(rows, row)
    BY <1>8, <2>2 DEF RecordRule, SaveExecution
  <2> QED
    BY <2>6, <2>7, <2>8
<1>9. CASE ExpireTokens
  BY <1>0, <1>9, OtherStepKeepsHistory DEF ExpireTokens, work, HistoryInv, RowsOK
<1> QED
  BY <1>1, <1>2, <1>3, <1>4, <1>5, <1>6, <1>7, <1>8, <1>9 DEF Next, RunSync

(* Daemons that do not start at once record their runs one after the       *)
(* other, across crashes and restarts (daemon.go:206-236,                  *)
(* pidfile.go:37-58).                                                      *)
THEOREM RunsRecordedInTurn == Spec => []RecordsInTurn
<1>1. HistoryInv => RecordsInTurn
  BY DEF HistoryInv, TurnInv
<1>2. (PidInv /\ WorkInv) /\ HistoryInv /\ [Next]_vars => HistoryInv'
  BY HistoryStep
<1> QED
  BY WorkInvAlways, InitHistoryInv, <1>1, <1>2, PTL DEF Spec

-----------------------------------------------------------------------------
(* What the history shows, and the types of all variables.                 *)

(* The table and the runs that were saved tell the same.                   *)
Tells(row, x) ==
  row.rule = x.rule /\ row.start = x.start /\ (row.status = "success" <=> x.well)

Listed ==
  /\ \A i \in DOMAIN rows :
       rows[i].end \in 1..now /\ rows[i].start \in 0..now /\ rows[i].text = rows[i].start
  /\ \A i \in DOMAIN rows : \E x \in ran : Tells(rows[i], x)
  /\ \A x \in ran : \E i \in DOMAIN rows : Tells(rows[i], x)

(* The row that RunSync fills in is about its rule and says how it goes.   *)
Entered(p) ==
  /\ record[p].text = record[p].start /\ record[p].start \in 0..now
  /\ phase[p] \in Running =>
       /\ record[p].start # 0 /\ record[p].rule = Name(p)
       /\ record[p].status = IF failure[p] = "none" THEN "success" ELSE "failed"

(* A process has a job, signs in when it needs Drive, and has adapters for *)
(* endpoints of the configuration.                                         *)
Employed(p) ==
  /\ Alive(p) => job[p] # "none"
  /\ auth[p] # "out" => phase[p] \in {"source", "target"} \/ job[p] = "auth"
  /\ adapters[p] \subseteq Names(conf.endpoints)

BooksInv ==
  /\ now \in 0..MaxTime /\ DOMAIN adapters = Proc
  /\ Listed /\ \A p \in Proc : Entered(p) /\ Employed(p)

LEMMA InitBooksInv == Init => BooksInv
<1> SUFFICES ASSUME Init PROVE BooksInv
  OBVIOUS
<1>1. Listed
  BY DEF Init, Listed
<1>2. now \in 0..MaxTime /\ DOMAIN adapters = Proc
  BY DEF Init
<1>3. ASSUME NEW p \in Proc PROVE Entered(p) /\ Employed(p)
  <2>1. Entered(p)
    BY <1>3 DEF Init, NoRow, Running, Entered
  <2>2. Employed(p)
    BY <1>3 DEF Init, PidInit, TokenInit, Employed, Alive
  <2> QED
    BY <2>1, <2>2
<1> QED
  BY <1>1, <1>2, <1>3 DEF BooksInv

Kept(q) ==
  /\ pid'[q] = pid[q] /\ job'[q] = job[q] /\ phase'[q] = phase[q] /\ todo'[q] = todo[q]
  /\ record'[q] = record[q] /\ failure'[q] = failure[q] /\ adapters'[q] = adapters[q]
  /\ auth'[q] = auth[q]

(* What a step of p that saves no row leaves to be shown.                  *)
LEMMA BooksKept ==
  ASSUME BooksInv, NEW p \in Proc, UNCHANGED <<conf, rows, ran>>,
         now' \in 0..MaxTime, now <= now', DOMAIN adapters' = Proc,
         \A q \in Proc \ {p} : Kept(q), Entered(p)', Employed(p)'
  PROVE  BooksInv'
<1>1. now \in 0..MaxTime /\ now \in Nat /\ now' \in Nat
  BY DEF BooksInv
<1>2. Listed'
  BY <1>1 DEF BooksInv, Listed, Tells
<1>3. ASSUME NEW q \in Proc \ {p} PROVE Entered(q)' /\ Employed(q)'
  <2>1. Kept(q) /\ Entered(q) /\ Employed(q)
    BY DEF BooksInv
  <2>2. Entered(q)'
    BY <1>1, <2>1 DEF Kept, Entered, Name, Current
  <2>3. Employed(q)'
    BY <2>1 DEF Kept, Employed, Alive
  <2> QED
    BY <2>2, <2>3
<1> QED
  BY <1>2, <1>3 DEF BooksInv

(* What is known of the variables that a step of p may change.             *)
LEMMA Domains ==
  ASSUME PidInv, TokenInv, WorkInv, HistoryInv, BooksInv
  PROVE  /\ DOMAIN pid = Proc /\ DOMAIN at = Proc /\ DOMAIN job = Proc /\ DOMAIN phase = Proc
         /\ DOMAIN todo = Proc /\ DOMAIN record = Proc /\ DOMAIN failure = Proc
         /\ DOMAIN adapters = Proc /\ DOMAIN auth = Proc
<1>1. pid \in [Proc -> Pid \cup {NoPid}] /\ DOMAIN at = Proc
  BY DEF PidInv, PidTypeOK
<1>2. DOMAIN auth = Proc
  BY DEF TokenInv, TokenTypeOK
<1>3. DOMAIN job = Proc /\ DOMAIN phase = Proc /\ DOMAIN todo = Proc /\ DOMAIN failure = Proc
  BY DEF WorkInv, WorkTypeOK
<1>4. DOMAIN record = Proc
  BY DEF HistoryInv, RowsOK
<1> QED
  BY <1>1, <1>2, <1>3, <1>4 DEF BooksInv

(* The actions of the token file that p takes: they concern p's own auth.  *)
LEMMA OwnAuth ==
  ASSUME TokenInv, NEW p \in Proc,
         GetClient(p) \/ Authenticate(p) \/ SignInStep(p) \/ Forget(p)
  PROVE  /\ \A q \in Proc \ {p} : auth'[q] = auth[q]
         /\ SignInStep(p) => auth[p] # "out"
         /\ Forget(p) => auth'[p] = "out"
<1>1. DOMAIN auth = Proc
  BY DEF TokenInv, TokenTypeOK
<1>2. \E to : auth' = [auth EXCEPT ![p] = to]
  BY DEF GetClient, Authenticate, SignInStep, Forget, LoadToken, Refresh, Open, WriteTemp, Rename,
         Grant, Turn, Fail
<1>3. SignInStep(p) => auth[p] # "out"
  BY DEF SignInStep, LoadToken, Refresh, Open, WriteTemp, Rename, Turn
<1>4. Forget(p) => auth'[p] = "out"
  BY <1>1 DEF Forget
<1> QED
  BY <1>1, <1>2, <1>3, <1>4

(* A rule fails, or an adapter is had.                                     *)
LEMMA RuleGoesOn ==
  ASSUME WorkInv, PidInv, TokenInv, HistoryInv, BooksInv, NEW p \in Proc,
         UNCHANGED <<pidVars, conf, job, todo, rows, now, ran>>,
         \A q \in Proc \ {p} : auth'[q] = auth[q], auth'[p] = "out",
         \/ Wanting(p) /\ Got(p)
         \/ phase[p] \in Running /\ \E reason : reason # "none" /\ FailRule(p, reason)
  PROVE  BooksInv'
<1>1. /\ DOMAIN phase = Proc /\ DOMAIN record = Proc /\ DOMAIN failure = Proc
      /\ DOMAIN adapters = Proc
  BY Domains
<1>2. phase[p] \in Running /\ phase[p] # "idle"
  BY DEF Wanting, Running
<1>3. Entered(p) /\ Employed(p)
  BY DEF BooksInv
<1>4. CASE Got(p) /\ Wanting(p)
  <2>1. /\ UNCHANGED <<record, failure>> /\ phase'[p] \in {"target", "execute"}
        /\ adapters' = [adapters EXCEPT ![p] = adapters[p] \cup {Endpoint(p)}]
        /\ \A q \in Proc \ {p} : phase'[q] = phase[q]
    BY <1>1, <1>4 DEF Got, Enter
  <2>2. Endpoint(p) \in Names(conf.endpoints)
    <3>1. Current(p) \in DOMAIN conf.rules /\ IsConfiguration(conf)
      BY <1>2, AtARule DEF WorkInv
    <3> QED
      BY <1>2, <3>1, RuleFound DEF Endpoint, IsConfiguration, Validate
  <2>3. Entered(p)'
    BY <1>2, <1>3, <2>1 DEF Entered, Name, Current
  <2>4. Employed(p)'
    BY <1>1, <1>3, <2>1, <2>2 DEF Employed, Alive, pidVars
  <2>5. \A q \in Proc \ {p} : Kept(q)
    BY <1>1, <2>1 DEF Kept, pidVars
  <2>6. DOMAIN adapters' = Proc /\ now' \in 0..MaxTime /\ now <= now'
    BY <1>1, <2>1 DEF BooksInv
  <2> QED
    BY <2>3, <2>4, <2>5, <2>6, BooksKept
<1>5. CASE phase[p] \in Running /\ \E reason : reason # "none" /\ FailRule(p, reason)
  <2>1. PICK reason : reason # "none" /\ FailRule(p, reason)
    BY <1>5
  <2>2. /\ failure' = [failure EXCEPT ![p] = reason] /\ UNCHANGED adapters
        /\ record' = [record EXCEPT ![p] = [record[p] EXCEPT !.status = "failed"]]
        /\ phase' = [phase EXCEPT ![p] = "record"]
    BY <2>1 DEF FailRule, Enter
  <2>3. record[p] \in Row
    BY DEF HistoryInv, RowsOK
  <2>4. /\ record'[p].rule = record[p].rule /\ record'[p].text = record[p].text
        /\ record'[p].start = record[p].start /\ record'[p].status = "failed"
        /\ failure'[p] # "none" /\ phase'[p] = "record"
    BY <1>1, <2>1, <2>2, <2>3 DEF Row
  <2>5. \A q \in Proc \ {p} : Kept(q)
    BY <1>1, <2>2 DEF Kept, pidVars
  <2>6. Entered(p)'
    BY <1>2, <1>3, <2>4 DEF Entered, Name, Current
  <2>7. Employed(p)'
    BY <1>3, <2>2 DEF Employed, Alive, pidVars
  <2>8. DOMAIN adapters' = Proc /\ now' \in 0..MaxTime /\ now <= now'
    BY <1>1, <2>2 DEF BooksInv
  <2> QED
    BY <2>5, <2>6, <2>7, <2>8, BooksKept
<1> QED
  BY <1>4, <1>5

(* The end of a rule, saved or not.                                        *)
LEMMA RuleEnds ==
  ASSUME WorkInv, PidInv, TokenInv, HistoryInv, BooksInv, NEW p \in Proc, RecordRule(p)
  PROVE  BooksInv'
<1> DEFINE row == [record[p] EXCEPT !.end = now]
           x == [rule |-> Name(p), start |-> row.start, well |-> failure[p] = "none"]
<1>1. /\ DOMAIN phase = Proc /\ DOMAIN record = Proc /\ DOMAIN failure = Proc
      /\ DOMAIN todo = Proc
  BY Domains
<1>2. /\ phase[p] = "record" /\ UNCHANGED <<pidVars, tokenVars, conf, job, adapters, now>>
      /\ record' = [record EXCEPT ![p] = NoRow] /\ failure' = [failure EXCEPT ![p] = "none"]
      /\ todo' = [todo EXCEPT ![p] = todo[p] \ {Current(p)}]
      /\ \E to \in {"idle", "plan"} : phase' = [phase EXCEPT ![p] = to]
  BY DEF RecordRule, Enter
<1>3. Entered(p) /\ Employed(p) /\ phase[p] \in Running
  BY <1>2 DEF BooksInv, Running
<1>4. \A q \in Proc \ {p} : Kept(q)
  BY <1>1, <1>2 DEF Kept, pidVars, tokenVars
<1>5. Entered(p)'
  <2>1. record'[p] = NoRow /\ phase'[p] \notin Running
    BY <1>1, <1>2 DEF Running
  <2> QED
    BY <2>1, <1>2 DEF Entered, NoRow, BooksInv
<1>6. Employed(p)'
  BY <1>1, <1>2, <1>3 DEF Employed, Alive, pidVars, tokenVars, Running
<1>7. now' \in 0..MaxTime /\ now <= now' /\ DOMAIN adapters' = Proc
  BY <1>2 DEF BooksInv
<1>8. CASE UNCHANGED <<rows, ran>>
  BY <1>2, <1>4, <1>5, <1>6, <1>7, <1>8, BooksKept
<1>9. CASE rows' = SaveExecution(rows, row) /\ ran' = ran \cup {x}
  <2>1. record[p] \in Row /\ rows \in Seq(Row) /\ now \in Nat
    BY DEF HistoryInv, RowsOK
  <2>2. /\ row \in Row /\ row.rule = record[p].rule /\ row.start = record[p].start
        /\ row.text = record[p].text /\ row.status = record[p].status /\ row.end = now
    BY <2>1 DEF Row
  <2>3. /\ row.start \in 1..now /\ row.text = row.start /\ row.end \in 1..now
        /\ row.rule = Name(p)
        /\ row.status = IF failure[p] = "none" THEN "success" ELSE "failed"
    BY <1>3, <2>1, <2>2 DEF Entered
  <2>4. Tells(row, x)
    <3>1. x.rule = row.rule /\ x.start = row.start
      BY <2>3
    <3>2. x.well <=> failure[p] = "none"
      BY Zenon
    <3>3. row.status = "success" <=> failure[p] = "none"
      BY <2>3
    <3> HIDE DEF row, x
    <3> QED
      BY <3>1, <3>2, <3>3 DEF Tells
  <2> HIDE DEF row, x
  <2>5. rows' = Append(rows, row)
    BY <1>9, <2>3 DEF SaveExecution, Statuses
  <2>6. /\ \A i \in DOMAIN rows : rows'[i] = rows[i]
        /\ DOMAIN rows' = DOMAIN rows \cup {Len(rows) + 1} /\ rows'[Len(rows) + 1] = row
    <3>1. /\ Len(rows') = Len(rows) + 1 /\ rows' \in Seq(Row) /\ Len(rows) \in Nat
          /\ \A i \in 1..Len(rows) : rows'[i] = rows[i]
          /\ rows'[Len(rows) + 1] = row
      BY <2>1, <2>2, <2>5, AppendProperties
    <3> QED
      BY <2>1, <3>1
  <2>7. Listed'
    <3>1. \A i \in DOMAIN rows' :
            rows'[i].end \in 1..now /\ rows'[i].start \in 0..now /\ rows'[i].text = rows'[i].start
      BY <2>1, <2>3, <2>6 DEF BooksInv, Listed
    <3>2. \A i \in DOMAIN rows' : \E y \in ran' : Tells(rows'[i], y)
      BY <1>9, <2>4, <2>6 DEF BooksInv, Listed
    <3>3. \A y \in ran' : \E i \in DOMAIN rows' : Tells(rows'[i], y)
      BY <1>9, <2>4, <2>6 DEF BooksInv, Listed
    <3> QED
      BY <1>2, <3>1, <3>2, <3>3 DEF Listed, Tells
  <2>8. ASSUME NEW q \in Proc \ {p} PROVE Entered(q)' /\ Employed(q)'
    <3>1. Kept(q) /\ Entered(q) /\ Employed(q)
      BY <1>4 DEF BooksInv
    <3>2. Entered(q)'
      BY <1>2, <3>1 DEF Kept, Entered, Name, Current
    <3>3. Employed(q)'
      BY <1>2, <3>1 DEF Kept, Employed, Alive
    <3> QED
      BY <3>2, <3>3
  <2> QED
    BY <1>5, <1>6, <1>7, <2>7, <2>8 DEF BooksInv
<1> QED
  BY <1>8, <1>9 DEF RecordRule

LEMMA BooksStep ==
  ASSUME PidInv, TokenInv, WorkInv, WorkInv', HistoryInv, BooksInv, [Next]_vars
  PROVE  BooksInv'
<1>0. /\ DOMAIN pid = Proc /\ DOMAIN job = Proc /\ DOMAIN phase = Proc /\ DOMAIN todo = Proc
      /\ DOMAIN record = Proc /\ DOMAIN failure = Proc /\ DOMAIN adapters = Proc
      /\ DOMAIN auth = Proc
  BY Domains
<1>a. \A p \in Proc : Entered(p) /\ Employed(p)
  BY DEF BooksInv
<1>b. now \in 0..MaxTime /\ now <= now
  BY DEF BooksInv
<1>1. CASE UNCHANGED vars
  <2>1. \A p \in Proc : Entered(p)' /\ Employed(p)'
    BY <1>1, <1>a DEF vars, pidVars, tokenVars, work, Entered, Employed, Name, Current, Alive
  <2>2. Listed'
    BY <1>1 DEF vars, work, BooksInv, Listed, Tells
  <2> QED
    BY <1>0, <1>1, <1>b, <2>1, <2>2 DEF BooksInv, vars, work
<1>2. ASSUME NEW p \in Proc, Launch(p) PROVE BooksInv'
  <2>1. /\ ~Alive(p) /\ \E d \in Pid : pid' = [pid EXCEPT ![p] = d]
        /\ \E j : job' = [job EXCEPT ![p] = j]
        /\ UNCHANGED <<tokenVars, conf, phase, todo, adapters, record, failure, rows, now, ran>>
    BY <1>2 DEF Launch, StartProcess
  <2>2. job'[p] # "none" /\ job[p] = "none"
    <3>1. PICK j \in Jobs[starts'] : job' = [job EXCEPT ![p] = j]
      BY <1>2 DEF Launch
    <3>2. starts' \in 1..MaxStarts
      <4>1. starts \in Nat /\ starts < MaxStarts /\ starts' = starts + 1 /\ MaxStarts \in Nat
        BY <1>2, PidAssumption DEF Launch, StartProcess, PidInv, PidTypeOK
      <4> QED
        BY <4>1
    <3>3. j # "none"
      BY <3>1, <3>2
    <3> QED
      BY <1>0, <2>1, <3>1, <3>3 DEF WorkInv
  <2>3. phase[p] = "idle"
    BY <2>1, <2>2 DEF WorkInv, PidInv
  <2>4. auth[p] = "out"
    BY <1>a, <2>2, <2>3 DEF Employed
  <2>5. \A q \in Proc \ {p} : Kept(q)
    BY <1>0, <2>1 DEF Kept, tokenVars
  <2>6. Entered(p)'
    BY <1>a, <2>1 DEF Entered, Name, Current
  <2>7. Employed(p)'
    BY <1>a, <2>1, <2>2, <2>4 DEF Employed, tokenVars
  <2> QED
    BY <1>0, <1>b, <2>1, <2>5, <2>6, <2>7, BooksKept
<1>3. ASSUME NEW p \in Proc, End(p) PROVE BooksInv'
  <2>1. /\ pid' = [pid EXCEPT ![p] = NoPid] /\ Forget(p)
        /\ job' = [job EXCEPT ![p] = "none"] /\ phase' = [phase EXCEPT ![p] = "idle"]
        /\ todo' = [todo EXCEPT ![p] = {}] /\ adapters' = [adapters EXCEPT ![p] = {}]
        /\ record' = [record EXCEPT ![p] = NoRow] /\ failure' = [failure EXCEPT ![p] = "none"]
        /\ UNCHANGED <<conf, rows, now, ran>>
    BY <1>3 DEF End, EndProcess, Enter
  <2>2. auth'[p] = "out" /\ \A q \in Proc \ {p} : auth'[q] = auth[q]
    BY <2>1, OwnAuth
  <2>3. \A q \in Proc \ {p} : Kept(q)
    BY <1>0, <2>1, <2>2 DEF Kept
  <2>4. Entered(p)'
    BY <1>0, <1>b, <2>1 DEF Entered, NoRow, Running
  <2>5. Employed(p)'
    BY <1>0, <2>1, <2>2 DEF Employed, Alive
  <2> QED
    BY <1>0, <1>b, <2>1, <2>3, <2>4, <2>5, BooksKept
<1>4. ASSUME NEW p \in Proc, BeginDaemon(p) \/ WritePid(p) PROVE BooksInv'
  <2>1. UNCHANGED <<pid, tokenVars, conf, work>>
    BY <1>4 DEF BeginDaemon, WritePid, Write, WriteStep, Stat, Read, Probe, Clear, Create, Fill
  <2>2. \A q \in Proc : Kept(q)
    BY <2>1 DEF Kept, tokenVars, work
  <2>3. Entered(p)' /\ Employed(p)'
    BY <1>a, <2>1 DEF Entered, Employed, Name, Current, Alive, tokenVars, work
  <2> QED
    BY <1>0, <1>b, <2>1, <2>2, <2>3, BooksKept DEF work
<1>5. ASSUME NEW p \in Proc, Leave(p) PROVE BooksInv'
  <2>1. /\ UNCHANGED <<pid, tokenVars, conf, job, phase, todo, record, failure, rows, now, ran>>
        /\ adapters' = [adapters EXCEPT ![p] = {}]
    BY <1>5 DEF Leave, Remove
  <2>2. \A q \in Proc \ {p} : Kept(q)
    BY <1>0, <2>1 DEF Kept, tokenVars
  <2>3. Entered(p)' /\ Employed(p)'
    BY <1>0, <1>a, <2>1 DEF Entered, Employed, Name, Current, Alive, tokenVars
  <2> QED
    BY <1>0, <1>b, <2>1, <2>2, <2>3, BooksKept
<1>6. ASSUME NEW p \in Proc, BeginRound(p) PROVE BooksInv'
  <2>1. /\ phase[p] = "idle" /\ phase' = [phase EXCEPT ![p] = "plan"]
        /\ \E r : todo' = [todo EXCEPT ![p] = r]
        /\ UNCHANGED <<pidVars, tokenVars, conf, job, adapters, record, failure, rows, now, ran>>
    BY <1>6 DEF BeginRound, Enter
  <2>2. \A q \in Proc \ {p} : Kept(q)
    BY <1>0, <2>1 DEF Kept, pidVars, tokenVars
  <2>3. Entered(p)'
    BY <1>0, <1>a, <2>1 DEF Entered, Running
  <2>4. Employed(p)'
    BY <1>0, <1>a, <2>1 DEF Employed, Alive, pidVars, tokenVars
  <2> QED
    BY <1>0, <1>b, <2>1, <2>2, <2>3, <2>4, BooksKept
<1>7. ASSUME NEW p \in Proc, BeginRule(p) PROVE BooksInv'
  <2>1. /\ phase[p] = "plan" /\ now < MaxTime /\ now' = now + 1
        /\ record' = [record EXCEPT ![p] =
             [rule |-> Name(p), start |-> now', text |-> now', end |-> 0,
              status |-> "success"]]
        /\ failure' = [failure EXCEPT ![p] = "none"] /\ phase' = [phase EXCEPT ![p] = "source"]
        /\ UNCHANGED <<pidVars, tokenVars, conf, job, todo, adapters, rows, ran>>
    BY <1>7 DEF BeginRule, Enter
  <2>2. \A q \in Proc \ {p} : Kept(q)
    BY <1>0, <2>1 DEF Kept, pidVars, tokenVars
  <2>3. now' \in 0..MaxTime /\ now <= now' /\ now' # 0
    BY <1>b, <2>1
  <2>4. Entered(p)'
    BY <1>0, <2>1, <2>3 DEF Entered, Name, Current
  <2>5. Employed(p)'
    BY <1>0, <1>a, <2>1 DEF Employed, Alive, pidVars, tokenVars
  <2> QED
    BY <1>0, <2>1, <2>2, <2>3, <2>4, <2>5, BooksKept
<1>8. ASSUME NEW p \in Proc, GetAdapter(p) \/ SignedIn(p) PROVE BooksInv'
  <2>1. /\ UNCHANGED <<pidVars, conf, job, todo, rows, now, ran>> /\ phase[p] \in Running
        /\ (UNCHANGED tokenVars /\ auth[p] = "out") \/ Forget(p)
    BY <1>8 DEF GetAdapter, SignedIn, Wanting, Running
  <2>2. auth'[p] = "out" /\ \A q \in Proc \ {p} : auth'[q] = auth[q]
    BY <2>1, OwnAuth DEF tokenVars
  <2>3. \/ Wanting(p) /\ Got(p)
        \/ \E reason : reason # "none" /\ FailRule(p, reason)
    <3>1. CASE GetAdapter(p)
      BY <3>1 DEF GetAdapter
    <3>2. CASE SignedIn(p)
      BY <3>2 DEF SignedIn
    <3> QED
      BY <1>8, <3>1, <3>2
  <2> QED
    BY <2>1, <2>2, <2>3, RuleGoesOn
<1>9. ASSUME NEW p \in Proc, BeginSignIn(p) \/ BeginAuth(p) \/ SignIn(p) PROVE BooksInv'
  <2>1. /\ UNCHANGED <<pidVars, conf, work>>
        /\ GetClient(p) \/ Authenticate(p) \/ SignInStep(p)
    BY <1>9 DEF BeginSignIn, BeginAuth, SignIn
  <2>2. \A q \in Proc \ {p} : Kept(q)
    BY <2>1, OwnAuth DEF Kept, pidVars, work
  <2>3. phase[p] \in {"source", "target"} \/ job[p] = "auth"
    <3>1. CASE SignIn(p)
      BY <1>a, <3>1, OwnAuth DEF SignIn, Employed
    <3>2. CASE BeginSignIn(p) \/ BeginAuth(p)
      BY <3>2 DEF BeginSignIn, BeginAuth, Wanting
    <3> QED
      BY <1>9, <3>1, <3>2
  <2>4. Entered(p)'
    BY <1>a, <2>1 DEF Entered, Name, Current, work
  <2>5. Employed(p)'
    BY <1>a, <2>1, <2>3 DEF Employed, Alive, work, pidVars
  <2> QED
    BY <1>0, <1>b, <2>1, <2>2, <2>4, <2>5, BooksKept DEF work
<1>10. ASSUME NEW p \in Proc, ExecuteRule(p) PROVE BooksInv'
  <2>1. /\ phase[p] = "execute" /\ phase[p] \in Running
        /\ UNCHANGED <<pidVars, tokenVars, conf, job, todo, rows, now, ran>>
    BY <1>10 DEF ExecuteRule, Running
  <2>2. CASE FailRule(p, "execution")
    <3>1. auth[p] = "out" \/ job[p] = "auth"
      BY <1>a, <2>1 DEF Employed
    <3>2. job[p] # "auth"
      BY <2>1 DEF WorkInv
    <3> QED
      BY <2>1, <2>2, <3>1, <3>2, RuleGoesOn DEF tokenVars
  <2>3. CASE UNCHANGED <<record, failure, adapters>> /\ phase' = [phase EXCEPT ![p] = "record"]
    <3>1. \A q \in Proc \ {p} : Kept(q)
      BY <1>0, <2>1, <2>3 DEF Kept, pidVars, tokenVars
    <3>2. Entered(p)'
      <4>1. /\ record'[p] = record[p] /\ failure'[p] = failure[p] /\ now' = now
            /\ Name(p)' = Name(p)
        BY <2>1, <2>3 DEF Name, Current
      <4> QED
        BY <1>a, <2>1, <4>1 DEF Entered
    <3>3. Employed(p)'
      BY <1>0, <1>a, <2>1, <2>3 DEF Employed, Alive, pidVars, tokenVars
    <3> QED
      BY <1>0, <1>b, <2>1, <2>3, <3>1, <3>2, <3>3, BooksKept
  <2> QED
    BY <1>10, <2>2, <2>3 DEF ExecuteRule, Enter
<1>11. ASSUME NEW p \in Proc, RecordRule(p) PROVE BooksInv'
  BY <1>11, RuleEnds
<1>12. CASE ExpireTokens
  <2>1. UNCHANGED <<pid, auth, conf, work>>
    BY <1>12 DEF ExpireTokens, Expire, pidVars
  <2>2. \A p \in Proc : Entered(p)' /\ Employed(p)'
    BY <1>a, <2>1 DEF work, Entered, Employed, Name, Current, Alive
  <2>3. Listed'
    BY <2>1 DEF work, BooksInv, Listed, Tells
  <2> QED
    BY <1>0, <1>b, <2>1, <2>2, <2>3 DEF BooksInv, work
<1> QED
  BY <1>1, <1>2, <1>3, <1>4, <1>5, <1>6, <1>7, <1>8, <1>9, <1>10, <1>11, <1>12
  DEF Next, RunSync

LEMMA BooksInvAlways == Spec => [](PidInv /\ TokenInv /\ WorkInv /\ HistoryInv /\ BooksInv)
<1>1. Spec => []TokenInv
  BY PartsImplemented, TokenInvAlways, PTL
<1>2. (PidInv /\ WorkInv) /\ HistoryInv /\ [Next]_vars => HistoryInv'
  BY HistoryStep
<1>3. Spec => []HistoryInv
  BY WorkInvAlways, InitHistoryInv, <1>2, PTL DEF Spec
<1>4. PidInv /\ TokenInv /\ WorkInv /\ WorkInv' /\ HistoryInv /\ BooksInv /\ [Next]_vars => BooksInv'
  BY BooksStep
<1> QED
  BY WorkInvAlways, InitBooksInv, <1>1, <1>3, <1>4, PTL DEF Spec

(* All variables keep their types: who has the PID file is a daemon, who   *)
(* signs in has a reason to, who is in a round has a rule to do, and no    *)
(* row ends in the future (daemon.go:206-236, sync.go:87-133).             *)
THEOREM TypesKept == Spec => []TypeOK
<1>1. PidInv /\ TokenInv /\ WorkInv /\ HistoryInv /\ BooksInv => TypeOK
  <2> SUFFICES ASSUME PidInv, TokenInv, WorkInv, HistoryInv, BooksInv PROVE TypeOK
    OBVIOUS
  <2>1. \A p \in Proc : record[p].status \in Statuses /\ record[p].start \in Nat
    BY DEF HistoryInv, RowsOK, Row
  <2>2. \A i \in DOMAIN rows : rows[i].status \in Statuses
    <3>1. rows \in Seq(Row)
      BY DEF HistoryInv, RowsOK
    <3>2. \A r \in Row : r.status \in Statuses
      BY DEF Row
    <3> QED
      BY <3>1, <3>2
  <2>3. \A p \in Proc :
          /\ Alive(p) <=> job[p] # "none"
          /\ at[p] # "apart" => job[p] = "daemon"
          /\ auth[p] # "out" => phase[p] \in {"source", "target"} \/ job[p] = "auth"
          /\ phase[p] = "idle" \/ (todo[p] # {} /\ (at[p] = "daemon" \/ job[p] = "sync"))
          /\ adapters[p] # {} => adapters[p] \subseteq Names(conf.endpoints)
          /\ record[p].start <= now
    BY DEF WorkInv, BooksInv, Entered, Employed
  <2>4. PidTypeOK /\ TokenTypeOK /\ WorkTypeOK
    BY DEF PidInv, TokenInv, WorkInv
  <2>5. now \in 0..MaxTime /\ \A i \in DOMAIN rows : rows[i].end \in 1..now
    BY DEF BooksInv, Listed
  <2> QED
    BY <2>1, <2>2, <2>3, <2>4, <2>5 DEF TypeOK, WorkTypeOK
<1> QED
  BY BooksInvAlways, <1>1, PTL

-----------------------------------------------------------------------------
(* What queries return.                                                    *)

(* Of the selected rows the latest comes first, those of one time in the   *)
(* order of their insertion.                                               *)
LEMMA Leads ==
  ASSUME NEW table, NEW selected, selected # {}, selected \subseteq Nat, NEW last \in Nat,
         \A i \in selected : table[i].text \in 0..last
  PROVE  \E i \in selected : \A j \in selected :
           /\ ~Later(table, j, i)
           /\ j # i => Later(table, i, j)
<1> DEFINE f == [i \in selected |-> table[i].text]
<1>0. f \in [selected -> 0..last] /\ \A i \in selected : f[i] = table[i].text
  OBVIOUS
<1> HIDE DEF f
<1> DEFINE Back == {last - f[i] : i \in selected}
<1>1. Back \subseteq Nat /\ Back # {}
  BY <1>0
<1>2. PICK b \in Back : \A c \in Back : b <= c
  BY <1>1, Least
<1> DEFINE Latest == {i \in selected : last - f[i] = b}
<1>3. Latest \subseteq Nat /\ Latest # {}
  BY <1>2
<1>4. PICK i \in Latest : \A j \in Latest : i <= j
  BY <1>3, Least
<1>5. ASSUME NEW j \in selected
      PROVE  f[j] <= f[i] /\ (f[j] = f[i] => i <= j)
  <2>1. b <= last - f[j] /\ b = last - f[i]
    BY <1>2, <1>4
  <2>2. f[j] \in 0..last /\ f[i] \in 0..last
    BY <1>0, <1>4
  <2>3. f[j] <= f[i]
    BY <2>1, <2>2
  <2>4. f[j] = f[i] => j \in Latest
    BY <2>1
  <2> QED
    BY <1>4, <2>3, <2>4
<1>6. ASSUME NEW j \in selected
      PROVE  ~Later(table, j, i) /\ (j # i => Later(table, i, j))
  <2>1. f[j] \in 0..last /\ f[i] \in 0..last /\ i \in Nat /\ j \in Nat
    BY <1>0, <1>4
  <2>2. f[j] = table[j].text /\ f[i] = table[i].text
    BY <1>0, <1>4
  <2>3. ~(f[j] > f[i]) /\ ~(f[j] = f[i] /\ j < i)
    BY <1>5, <2>1
  <2>4. j # i => f[i] > f[j] \/ (f[i] = f[j] /\ i < j)
    BY <1>5, <2>1
  <2> QED
    BY <2>2, <2>3, <2>4 DEF Later
<1> QED
  BY <1>4, <1>6

(* A query for one row returns none if there is none, and the latest one   *)
(* otherwise.                                                              *)
LEMMA QueryForOne ==
  ASSUME NEW table, NEW selected, IsFiniteSet(selected), selected \subseteq Nat, NEW last \in Nat,
         \A i \in selected : table[i].text \in 0..last
  PROVE  /\ selected = {} => Query(table, selected, 1) = <<>>
         /\ selected # {} =>
              /\ Query(table, selected, 1) # <<>>
              /\ \E i \in selected : /\ Query(table, selected, 1)[1] = table[i]
                                     /\ \A j \in selected : table[j].text <= table[i].text
<1> DEFINE place(k) == Ranked(table, selected, k)
<1>1. Cardinality(selected) \in Nat /\ (Cardinality(selected) = 0 <=> selected = {})
  BY FS_CardinalityType, FS_EmptySet
<1>2. CASE selected = {}
  <2>1. Cardinality(selected) = 0
    BY <1>1, <1>2
  <2>2. Query(table, selected, 1) = [k \in 1..0 |-> place(k)]
    BY <2>1 DEF Query
  <2> HIDE DEF place
  <2>3. [k \in 1..0 |-> place(k)] = <<>>
    OBVIOUS
  <2> QED
    BY <1>2, <2>2, <2>3
<1>3. CASE selected # {}
  <2>1. PICK i \in selected : \A j \in selected :
          ~Later(table, j, i) /\ (j # i => Later(table, i, j))
    BY <1>3, Leads
  <2> DEFINE ahead(j) == {h \in selected : Later(table, h, j)}
  <2>2. ahead(i) = {}
    BY <2>1
  <2>3. \A j \in selected : Cardinality(ahead(j)) = 0 => j = i
    <3> SUFFICES ASSUME NEW j \in selected, j # i PROVE Cardinality(ahead(j)) # 0
      OBVIOUS
    <3>1. i \in ahead(j)
      BY <2>1
    <3>2. IsFiniteSet(ahead(j))
      BY FS_Subset
    <3> HIDE DEF ahead
    <3> QED
      BY <3>1, <3>2, FS_EmptySet
  <2>4. Cardinality(ahead(i)) = 0
    BY <2>2, FS_EmptySet
  <2>5. (CHOOSE j \in selected : Cardinality(ahead(j)) = 1 - 1) = i
    <3> HIDE DEF ahead
    <3> QED
      BY <2>3, <2>4
  <2>6. place(1) = table[i]
    BY <2>5 DEF Ranked
  <2>7. Query(table, selected, 1) = [k \in 1..1 |-> place(k)]
    <3>1. 1..(IF 1 < Cardinality(selected) THEN 1 ELSE Cardinality(selected)) = 1..1
      BY <1>1, <1>3
    <3> QED
      BY <3>1 DEF Query
  <2>8. Query(table, selected, 1)[1] = table[i] /\ Query(table, selected, 1) # <<>>
    <3> HIDE DEF place
    <3> QED
      BY <2>6, <2>7
  <2>9. \A j \in selected : table[j].text <= table[i].text
    <3> SUFFICES ASSUME NEW j \in selected PROVE table[j].text <= table[i].text
      OBVIOUS
    <3>1. table[j].text \in Nat /\ table[i].text \in Nat
      OBVIOUS
    <3> QED
      BY <2>1, <3>1 DEF Later
  <2> QED
    BY <1>3, <2>8, <2>9
<1> QED
  BY <1>2, <1>3

(* The latest row tells of the latest run.                                 *)
LEMMA BooksShowTruth == HistoryInv /\ BooksInv => HistoryTrue
<1> SUFFICES ASSUME HistoryInv, BooksInv PROVE HistoryTrue
  OBVIOUS
<1> DEFINE Shows(answer, runs) ==
        IF runs = {} THEN answer = <<>>
        ELSE /\ answer # <<>>
             /\ \E last \in runs : /\ last.start = answer[1].start
                                   /\ \A r \in runs : r.start <= last.start
<1>1. /\ DOMAIN rows = 1..Len(rows) /\ Len(rows) \in Nat /\ now \in Nat
      /\ \A i \in DOMAIN rows : rows[i].start \in 0..now /\ rows[i].text = rows[i].start
  BY DEF HistoryInv, RowsOK, BooksInv, Listed
<1>2. ASSUME NEW selected, selected \subseteq DOMAIN rows, NEW runs, runs \subseteq ran,
             \A i \in selected : \E x \in runs : x.start = rows[i].start,
             \A x \in runs : \E i \in selected : x.start = rows[i].start
      PROVE  Shows(Query(rows, selected, 1), runs)
  <2>1. IsFiniteSet(selected) /\ selected \subseteq Nat
    <3>1. IsFiniteSet(1..Len(rows))
      BY <1>1, FS_Interval
    <3> QED
      BY <1>1, <1>2, <3>1, FS_Subset
  <2>2. PICK answer : answer = Query(rows, selected, 1)
    OBVIOUS
  <2>3. /\ selected = {} => answer = <<>>
        /\ selected # {} =>
              /\ answer # <<>>
              /\ \E i \in selected : /\ answer[1] = rows[i]
                                     /\ \A j \in selected : rows[j].text <= rows[i].text
    BY <1>1, <1>2, <2>1, <2>2, QueryForOne
  <2>4. selected = {} <=> runs = {}
    BY <1>2
  <2>5. CASE selected # {}
    <3>1. PICK i \in selected : answer[1] = rows[i] /\ \A j \in selected : rows[j].text <= rows[i].text
      BY <2>3, <2>5
    <3>2. PICK x \in runs : x.start = rows[i].start
      BY <1>2
    <3>3. \A r \in runs : r.start <= x.start
      BY <1>1, <1>2, <3>1, <3>2
    <3> QED
      BY <2>2, <2>3, <2>4, <2>5, <3>1, <3>2, <3>3
  <2> QED
    BY <2>2, <2>3, <2>4, <2>5
<1>3. /\ \A i \in DOMAIN rows : \E x \in ran : Tells(rows[i], x)
      /\ \A x \in ran : \E i \in DOMAIN rows : Tells(rows[i], x)
  BY DEF BooksInv, Listed
<1> HIDE DEF Shows
<1>4. Shows(GetAllHistory(rows, 1), ran)
  BY <1>2, <1>3 DEF GetAllHistory, Tells
<1>5. ASSUME NEW name PROVE Shows(GetHistory(rows, name, 1), {x \in ran : x.rule = name})
  <2> DEFINE selected == {i \in DOMAIN rows : rows[i].rule = name}
             runs == {x \in ran : x.rule = name}
  <2>1. /\ selected \subseteq DOMAIN rows /\ runs \subseteq ran
        /\ \A i \in selected : \E x \in runs : x.start = rows[i].start
        /\ \A x \in runs : \E i \in selected : x.start = rows[i].start
    BY <1>3 DEF Tells
  <2>2. GetHistory(rows, name, 1) = Query(rows, selected, 1)
    BY DEF GetHistory
  <2> HIDE DEF selected
  <2>3. Shows(Query(rows, selected, 1), runs)
    <3> HIDE DEF runs
    <3> QED
      BY <1>2, <2>1
  <2> QED
    BY <2>2, <2>3
<1>6. ASSUME NEW name
      PROVE  Shows(GetLastSuccess(rows, name), {x \in ran : x.rule = name /\ x.well})
  <2> DEFINE selected == {i \in DOMAIN rows : rows[i].rule = name /\ rows[i].status = "success"}
             runs == {x \in ran : x.rule = name /\ x.well}
  <2>1. /\ selected \subseteq DOMAIN rows /\ runs \subseteq ran
        /\ \A i \in selected : \E x \in runs : x.start = rows[i].start
        /\ \A x \in runs : \E i \in selected : x.start = rows[i].start
    <3>1. selected \subseteq DOMAIN rows /\ runs \subseteq ran
      OBVIOUS
    <3>2. ASSUME NEW i \in selected PROVE \E x \in runs : x.start = rows[i].start
      <4>1. PICK x \in ran : Tells(rows[i], x)
        BY <1>3
      <4>2. x.rule = name /\ x.well
        BY <4>1, Zenon DEF Tells
      <4> QED
        BY <4>1, <4>2, Zenon DEF Tells
    <3>3. ASSUME NEW x \in runs PROVE \E i \in selected : x.start = rows[i].start
      <4>1. PICK i \in DOMAIN rows : Tells(rows[i], x)
        BY <1>3
      <4>2. rows[i].rule = name /\ rows[i].status = "success"
        BY <4>1, Zenon DEF Tells
      <4> QED
        BY <4>1, <4>2, Zenon DEF Tells
    <3> QED
      BY <3>1, <3>2, <3>3
  <2>2. GetLastSuccess(rows, name) = Query(rows, selected, 1)
    BY DEF GetLastSuccess
  <2> HIDE DEF selected
  <2>3. Shows(Query(rows, selected, 1), runs)
    <3> HIDE DEF runs
    <3> QED
      BY <1>2, <2>1
  <2> QED
    BY <2>2, <2>3
<1> QED
  <2>1. \A name \in Names(conf.rules) :
          /\ Shows(GetHistory(rows, name, 1), {x \in ran : x.rule = name})
          /\ Shows(GetLastSuccess(rows, name), {x \in ran : x.rule = name /\ x.well})
    BY <1>5, <1>6
  <2> USE DEF Shows
  <2> QED
    BY <1>4, <2>1 DEF HistoryTrue

(* Of the runs that were saved the history shows the last one, the last    *)
(* one of each rule and the last that went well, for any number of daemons *)
(* and configurations (daemon.go:206-236, manager.go:120-244).             *)
THEOREM HistoryTellsTheTruth == Spec => []HistoryTrue
BY BooksInvAlways, BooksShowTruth, PTL
=============================================================================
