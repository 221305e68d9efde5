--------------------------- MODULE Configuration ---------------------------
(***************************************************************************)
(* internal/config: what Load makes of a YAML file, what Validate accepts, *)
(* and the look-ups the services make later.  A configuration has          *)
(*   transports: a sequence of [name, type, creds],                        *)
(*   endpoints:  a sequence of [name, transport, root],                    *)
(*   rules:      a sequence of [name, source, target, mode, conflict,      *)
(*               enabled, schedule],                                       *)
(*   interval:   scheduler.default_interval.                               *)
(* Blank stands for the empty string, and for a key that is not there.     *)
(***************************************************************************)
EXTENDS Naturals, Sequences

CONSTANTS Blank, NoConfig

TransportTypes == {"local", "gdrive"}
Modes == {"one-way-push", "one-way-pull", "two-way"}
Conflicts == {"keep_local", "keep_remote", "keep_newest", "manual"}
Schedules == {"none", "on", "off"}       \* no schedule, or one with a good interval
Intervals == {"5m", "0s", Blank}         \* what ParseDuration accepts, or nothing

Names(s) == {s[i].name : i \in DOMAIN s}

(* No name is blank, none occurs twice.                                    *)
Unique(s) ==
  /\ Blank \notin Names(s)
  /\ \A i, j \in DOMAIN s : s[i].name = s[j].name => i = j

RuleValid(r) ==
  /\ Blank \notin {r.name, r.source, r.target}
  /\ r.source # r.target
  /\ r.mode \in Modes
  /\ r.conflict \in Conflicts \cup {Blank}

(* Slip: the transports of the endpoints are not checked. *)
ValidateEndpointsLoosely(c) ==
  /\ Unique(c.endpoints)
  /\ \A i \in DOMAIN c.endpoints : Blank \notin {c.endpoints[i].transport, c.endpoints[i].root}

ValidateEndpoints(c) ==
  /\ Unique(c.endpoints)
  /\ \A i \in DOMAIN c.endpoints : LET e == c.endpoints[i] IN
       /\ Blank \notin {e.transport, e.root}
       /\ e.transport \in Names(c.transports)

Validate(c) ==
  /\ Unique(c.transports)
  /\ \A i \in DOMAIN c.transports : c.transports[i].type \in TransportTypes
  /\ ValidateEndpoints(c)
  /\ Unique(c.rules)
  /\ \A i \in DOMAIN c.rules : LET r == c.rules[i] IN
       /\ {r.source, r.target} \subseteq Names(c.endpoints)
       /\ RuleValid(r)
       /\ r.schedule \in Schedules
  /\ c.interval \in Intervals

(* Rules are enabled unless the file says no; conflicts are for the user.  *)
Defaults(c) ==
  [c EXCEPT !.rules = [i \in DOMAIN c.rules |->
     [c.rules[i] EXCEPT !.enabled = @ # "false",
                        !.conflict = IF @ = Blank THEN "manual" ELSE @]]]

Load(file) == LET c == Defaults(file) IN IF Validate(c) THEN c ELSE NoConfig

(* GetTransport, GetEndpoint, GetRule: the first of that name.             *)
Has(s, name) == name \in Names(s)
Get(s, name) ==
  s[CHOOSE i \in DOMAIN s : s[i].name = name /\ \A j \in 1..i - 1 : s[j].name # name]

(* GetEnabledRules and GetScheduledRules, as places in the file            *)
EnabledRules(c) == {i \in DOMAIN c.rules : c.rules[i].enabled}
ScheduledRules(c) == {i \in EnabledRules(c) : c.rules[i].schedule # "off"}

(* what becomes of an endpoint in getAdapter: an adapter of some type, or  *)
(* an error                                                                *)
AdapterOf(c, name) ==
  IF ~Has(c.endpoints, name) THEN "lookup"
  ELSE LET e == Get(c.endpoints, name) IN
    IF ~Has(c.transports, e.transport) THEN "lookup"
    ELSE LET t == Get(c.transports, e.transport) IN
      IF t.type = "gdrive" /\ ~t.creds THEN "no credentials" ELSE t.type
=============================================================================
