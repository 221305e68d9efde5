----------------------------- MODULE TokenFile -----------------------------
(***************************************************************************)
(* internal/adapter/gdrive/auth.go: processes that sign in to Drive share  *)
(* a token file, which a renewed token replaces by way of one temporary    *)
(* file beside it.  Tokens are numbered as Google issues them.             *)
(***************************************************************************)
EXTENDS Naturals

CONSTANTS
  Client,     \* processes that sign in
  None,       \* no file, no token
  Torn,       \* what no JSON parser reads: an empty, cut or mixed file
  MaxTokens   \* bound: tokens Google issues

Token == 0..MaxTokens      \* 0: one from before

ASSUME TokenAssumption ==
  MaxTokens \in Nat /\ None \notin Token /\ Torn \notin Token /\ None # Torn

VARIABLES
  token, temp,  \* what is at tokenPath, and at tokenPath + ".tmp"
  auth,         \* auth[p]: "out", "in", "failed", or the next step
  held,         \* held[p]: the token p has in memory
  where,        \* where[p]: the name the file p has open goes by now
  issued,       \* tokens issued so far
  fresh,        \* tokens that have not expired
  renewable,    \* tokens that came with a refresh token
  why,          \* why[p]: why its last signing in failed
  tangled       \* history: two have been in saveToken at once

tokenVars == <<token, temp, auth, held, where, issued, fresh, renewable, why, tangled>>

Saving == {"open", "write", "rename"}
Reasons == {"no token", "torn", "expired", "google", "disk", "lost"}

TokenTypeOK ==
  /\ token \in Token \cup {None, Torn} /\ temp \in Token \cup {None, Torn}
  /\ auth \in [Client -> Saving \cup {"out", "load", "refresh", "in", "failed"}]
  /\ held \in [Client -> Token \cup {None}]
  /\ where \in [Client -> {"nowhere", "temp", "token", "unlinked"}]
  /\ issued \in 0..MaxTokens
  /\ fresh \subseteq 1..issued /\ renewable \subseteq 0..issued
  /\ why \in [Client -> Reasons \cup {"none"}] /\ tangled \in BOOLEAN
  /\ \A p \in Client : where[p] = "temp" => temp # None /\ auth[p] \in {"write", "rename"}

Turn(p, from, to) == auth[p] = from /\ auth' = [auth EXCEPT ![p] = to]
Fail(p, reason) == auth' = [auth EXCEPT ![p] = "failed"] /\ why' = [why EXCEPT ![p] = reason]
Hold(p, t) == held' = [held EXCEPT ![p] = t]
Close(p) == where' = [where EXCEPT ![p] = "nowhere"]

-----------------------------------------------------------------------------
GetClient(p) ==
  /\ Turn(p, "out", "load")
  /\ why' = [why EXCEPT ![p] = "none"]
  /\ UNCHANGED <<token, temp, held, where, issued, fresh, renewable, tangled>>

(* loadToken, and what GetClient makes of it                               *)
LoadToken(p) ==
  /\ auth[p] = "load"
  /\ \/ token \in fresh /\ Turn(p, "load", "in") /\ Hold(p, token) /\ UNCHANGED why
     \/ /\ token \in renewable \ fresh
        /\ Turn(p, "load", "refresh") /\ Hold(p, token)
        /\ UNCHANGED why
     \/ /\ token \notin fresh \cup renewable
        /\ Fail(p, IF token = None THEN "no token" ELSE IF token = Torn THEN "torn" ELSE "expired")
        /\ UNCHANGED held
  /\ UNCHANGED <<token, temp, where, issued, fresh, renewable, tangled>>

(* Google issues a token to p, which goes on to save it.                   *)
Grant(p) ==
  /\ issued < MaxTokens
  /\ issued' = issued + 1
  /\ fresh' = fresh \cup {issued'}
  /\ Hold(p, issued')
  /\ auth' = [auth EXCEPT ![p] = "open"]
  /\ tangled' = (tangled \/ \E q \in Client \ {p} : auth[q] \in Saving)

(* RefreshToken: a renewed token keeps its refresh token, or Google says no.*)
Refresh(p) ==
  /\ auth[p] = "refresh"
  /\ \/ Grant(p) /\ renewable' = renewable \cup {issued'} /\ UNCHANGED why
     \/ Fail(p, "google") /\ UNCHANGED <<held, issued, fresh, renewable, tangled>>
  /\ UNCHANGED <<token, temp, where>>

(* Authenticate: the user pastes a code; Google adds a refresh token or not.*)
Authenticate(p) ==
  /\ auth[p] = "out"
  /\ Grant(p)
  /\ renewable' \in {renewable, renewable \cup {issued'}}
  /\ why' = [why EXCEPT ![p] = "none"]
  /\ UNCHANGED <<token, temp, where>>

(* Slip: the token file itself is opened and cut. *)
OpenInPlace(p) ==
  /\ auth[p] = "open"
  /\ \/ /\ Turn(p, "open", "write")
        /\ token' = Torn
        /\ where' = [where EXCEPT ![p] = "token"]
        /\ UNCHANGED why
     \/ Fail(p, "disk") /\ UNCHANGED <<token, where>>
  /\ UNCHANGED <<temp, held, issued, fresh, renewable, tangled>>

(* Slip: the temporary file must not be there yet (O_EXCL). *)
OpenExclusive(p) ==
  /\ auth[p] = "open"
  /\ IF temp = None THEN /\ Turn(p, "open", "write")
                         /\ temp' = Torn
                         /\ where' = [where EXCEPT ![p] = "temp"]
                         /\ UNCHANGED why
     ELSE Fail(p, "lost") /\ UNCHANGED <<temp, where>>
  /\ UNCHANGED <<token, held, issued, fresh, renewable, tangled>>

(* saveToken: the directory is made if need be, and os.WriteFile makes the *)
(* temporary file or cuts it to nothing, unless the disk refuses either,   *)
Open(p) ==
  /\ auth[p] = "open"
  /\ \/ /\ Turn(p, "open", "write")
        /\ temp' = Torn
        /\ where' = [where EXCEPT ![p] = "temp"]
        /\ UNCHANGED why
     \/ Fail(p, "disk") /\ UNCHANGED <<temp, where>>
  /\ UNCHANGED <<token, held, issued, fresh, renewable, tangled>>

(* puts the token in, wherever the file is by now: over another's token it *)
(* may leave a mixture, and on a full disk it leaves a part;               *)
WriteTemp(p) ==
  /\ auth[p] = "write"
  /\ \E c \in {held[p], Torn} :
       /\ temp' = IF where[p] = "temp" THEN c ELSE temp
       /\ token' = IF where[p] = "token" THEN c ELSE token
       /\ \/ /\ c = held[p] \/ (where[p] = "temp" /\ temp # Torn)
                            \/ (where[p] = "token" /\ token # Torn)
             /\ Turn(p, "write", "rename")
             /\ UNCHANGED <<where, why>>
          \/ c = Torn /\ Fail(p, "disk") /\ Close(p)
  /\ UNCHANGED <<held, issued, fresh, renewable, tangled>>

(* the temporary file becomes the token file, if it is still there; if the *)
(* rename fails it is removed.                                             *)
Rename(p) ==
  LET Now(q) == IF q = p THEN "nowhere"
                ELSE CASE where[q] = "temp" -> "token"
                       [] where[q] = "token" -> "unlinked"
                       [] OTHER -> where[q] IN
  /\ auth[p] = "rename"
  /\ temp' = None
  /\ \/ /\ temp # None
        /\ token' = temp
        /\ where' = [q \in Client |-> Now(q)]
        /\ Turn(p, "rename", "in") /\ UNCHANGED why
     \/ /\ Fail(p, IF temp = None THEN "lost" ELSE "disk")
        /\ where' = [q \in Client |-> IF q = p THEN "nowhere"
                                      ELSE IF where[q] = "temp" THEN "unlinked" ELSE where[q]]
        /\ UNCHANGED token
  /\ UNCHANGED <<held, issued, fresh, renewable, tangled>>

SignInStep(p) == LoadToken(p) \/ Refresh(p) \/ Open(p) \/ WriteTemp(p) \/ Rename(p)

(* GetClient or Authenticate returns, or the process of p ends.            *)
Forget(p) ==
  /\ auth' = [auth EXCEPT ![p] = "out"]
  /\ Hold(p, None) /\ Close(p)
  /\ why' = [why EXCEPT ![p] = "none"]
  /\ UNCHANGED <<token, temp, issued, fresh, renewable, tangled>>

(* An hour passes.                                                         *)
Expire ==
  /\ fresh # {} /\ fresh' = {}
  /\ UNCHANGED <<token, temp, auth, held, where, issued, renewable, why, tangled>>

TokenInit ==
  /\ token \in {None, 0} /\ temp = None
  /\ issued = 0 /\ fresh = {} /\ renewable = {0}
  /\ tangled = FALSE
  /\ auth = [p \in Client |-> "out"] /\ held = [p \in Client |-> None]
  /\ where = [p \in Client |-> "nowhere"] /\ why = [p \in Client |-> "none"]

TokenNext ==
  \/ \E p \in Client : GetClient(p) \/ Authenticate(p) \/ SignInStep(p) \/ Forget(p)
  \/ Expire

TokenSpec == TokenInit /\ [][TokenNext]_tokenVars
-----------------------------------------------------------------------------
(* The token file is whole or not there, whatever crashes and whatever the *)
(* disk refuses, unless two processes save at once: the temporary file is  *)
(* one for all (auth.go:207-213).                                          *)
TokenWhole == ~tangled => token # Torn

(* Signing in fails for want of a token, by Google's or the disk's doing,  *)
(* never because of what an earlier process has left behind.               *)
FailsForCause == ~tangled => \A p \in Client : why[p] \notin {"torn", "lost"}
=============================================================================
