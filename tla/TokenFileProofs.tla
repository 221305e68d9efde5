-------------------------- MODULE TokenFileProofs --------------------------
(***************************************************************************)
(* The token file is whole, and signing in fails for a cause, for any      *)
(* number of processes and tokens, as long as no two save at once.         *)
(***************************************************************************)
EXTENDS TokenFile, TLAPS

HeldWhileSaving == \A p \in Client : auth[p] \in Saving => held[p] \in Token

(* Why: the one that saves has the temporary file for itself, so that what *)
(* it renames is what it wrote.                                            *)
CalmInv ==
  ~tangled =>
    /\ \A p, q \in Client : auth[p] \in Saving /\ auth[q] \in Saving => p = q
    /\ \A p \in Client : auth[p] = "write" => temp = Torn
    /\ \A p \in Client : auth[p] = "rename" => temp = held[p]
    /\ \A p \in Client : where[p] = IF auth[p] \in {"write", "rename"} THEN "temp" ELSE "nowhere"
    /\ token # Torn
    /\ \A p \in Client : why[p] \notin {"torn", "lost"}

TokenInv == TokenTypeOK /\ HeldWhileSaving /\ CalmInv

USE TokenAssumption

LEMMA InitTokenInv == TokenInit => TokenInv
<1> SUFFICES ASSUME TokenInit PROVE TokenInv
  OBVIOUS
<1>1. TokenTypeOK
  <2>1. 0 \in Token /\ issued \in 0..MaxTokens /\ fresh \subseteq 1..issued /\ renewable \subseteq 0..issued
    BY DEF TokenInit, Token
  <2>2. token \in Token \cup {None, Torn} /\ temp \in Token \cup {None, Torn}
    BY <2>1 DEF TokenInit
  <2>3. /\ auth \in [Client -> Saving \cup {"out", "load", "refresh", "in", "failed"}]
        /\ held \in [Client -> Token \cup {None}]
        /\ where \in [Client -> {"nowhere", "temp", "token", "unlinked"}]
        /\ why \in [Client -> Reasons \cup {"none"}]
    BY DEF TokenInit
  <2>4. tangled \in BOOLEAN /\ \A p \in Client : where[p] # "temp"
    BY DEF TokenInit
  <2> QED
    BY <2>1, <2>2, <2>3, <2>4 DEF TokenTypeOK
<1>2. HeldWhileSaving
  BY DEF TokenInit, HeldWhileSaving, Saving
<1>3. CalmInv
  <2>1. token # Torn
    BY DEF TokenInit, Token
  <2>2. \A p \in Client : auth[p] = "out" /\ where[p] = "nowhere" /\ why[p] = "none"
    BY DEF TokenInit
  <2> QED
    BY <2>1, <2>2 DEF CalmInv, Saving
<1> QED
  BY <1>1, <1>2, <1>3 DEF TokenInv

LEMMA IssuedAreTokens ==
  ASSUME TokenTypeOK
  PROVE  fresh \cup renewable \subseteq Token
<1>1. issued \in Nat /\ issued <= MaxTokens /\ MaxTokens \in Nat
  BY DEF TokenTypeOK
<1>2. \A i \in 0..issued : i \in Token
  BY <1>1 DEF Token
<1>3. \A i \in 1..issued : i \in 0..issued
  BY <1>1
<1>4. fresh \subseteq 1..issued /\ renewable \subseteq 0..issued
  BY DEF TokenTypeOK
<1> QED
  BY <1>2, <1>3, <1>4

(* What Google's issuing a token does to the types.                        *)
LEMMA GrantTypes ==
  ASSUME TokenTypeOK, HeldWhileSaving, NEW p \in Client, Grant(p)
  PROVE  /\ issued' \in Token \cap 0..MaxTokens
         /\ fresh' \subseteq 1..issued'
         /\ renewable \subseteq 0..issued' /\ renewable \cup {issued'} \subseteq 0..issued'
         /\ auth' \in [Client -> Saving \cup {"out", "load", "refresh", "in", "failed"}]
         /\ held' \in [Client -> Token \cup {None}]
         /\ tangled' \in BOOLEAN
         /\ HeldWhileSaving'
         /\ auth' = [auth EXCEPT ![p] = "open"]
<1>1. issued' = issued + 1 /\ issued < MaxTokens /\ issued \in Nat
  BY DEF Grant, TokenTypeOK
<1>2. issued' \in Token \cap 0..MaxTokens
  BY <1>1 DEF Token
<1>3. fresh' \subseteq 1..issued'
  BY <1>1 DEF Grant, TokenTypeOK
<1>4. renewable \subseteq 0..issued' /\ renewable \cup {issued'} \subseteq 0..issued'
  BY <1>1 DEF TokenTypeOK
<1>5. auth' = [auth EXCEPT ![p] = "open"] /\ held' = [held EXCEPT ![p] = issued']
  BY DEF Grant, Hold
<1>6. /\ auth' \in [Client -> Saving \cup {"out", "load", "refresh", "in", "failed"}]
      /\ held' \in [Client -> Token \cup {None}]
  BY <1>2, <1>5 DEF TokenTypeOK, Saving
<1>7. HeldWhileSaving'
  BY <1>2, <1>5 DEF TokenTypeOK, HeldWhileSaving
<1>8. tangled' \in BOOLEAN
  BY DEF Grant
<1> QED
  BY <1>2, <1>3, <1>4, <1>5, <1>6, <1>7, <1>8

(* Types, and that a process that saves holds a token, step by step.       *)
LEMMA TokenTypeStep ==
  ASSUME TokenTypeOK, HeldWhileSaving, [TokenNext]_tokenVars
  PROVE  TokenTypeOK' /\ HeldWhileSaving'
<1> USE DEF TokenTypeOK, HeldWhileSaving, Saving, Reasons
<1>1. CASE UNCHANGED tokenVars
  BY <1>1 DEF tokenVars
<1>2. ASSUME NEW p \in Client, GetClient(p) PROVE TokenTypeOK' /\ HeldWhileSaving'
  BY <1>2 DEF GetClient, Turn
<1>3. ASSUME NEW p \in Client, LoadToken(p) PROVE TokenTypeOK' /\ HeldWhileSaving'
  <2>0. token \in fresh \cup renewable => token \in Token
    BY IssuedAreTokens
  <2>1. ASSUME token \in fresh \cup renewable, NEW to \in {"in", "refresh"},
               Turn(p, "load", to), Hold(p, token), UNCHANGED why
        PROVE  TokenTypeOK' /\ HeldWhileSaving'
    BY <1>3, <2>0, <2>1 DEF LoadToken, Turn, Hold
  <2>3. ASSUME NEW r \in Reasons, Fail(p, r), UNCHANGED held
        PROVE  TokenTypeOK' /\ HeldWhileSaving'
    BY <1>3, <2>3 DEF LoadToken, Fail
  <2> QED
    BY <1>3, <2>1, <2>3 DEF LoadToken
<1>4. ASSUME NEW p \in Client, Authenticate(p) PROVE TokenTypeOK' /\ HeldWhileSaving'
  <2>1. Grant(p) /\ renewable' \in {renewable, renewable \cup {issued'}}
    BY <1>4 DEF Authenticate
  <2>2. auth' = [auth EXCEPT ![p] = "open"] /\ auth[p] = "out" /\ HeldWhileSaving'
    BY <1>4, <2>1, GrantTypes DEF Authenticate
  <2>3. issued' \in 0..MaxTokens /\ fresh' \subseteq 1..issued' /\ renewable' \subseteq 0..issued'
    BY <2>1, GrantTypes
  <2> QED
    BY <1>4, <2>1, <2>2, <2>3, GrantTypes DEF Authenticate
<1>5. ASSUME NEW p \in Client, Refresh(p) PROVE TokenTypeOK' /\ HeldWhileSaving'
  <2>1. CASE Grant(p) /\ renewable' = renewable \cup {issued'} /\ UNCHANGED why
    <3>1. auth' = [auth EXCEPT ![p] = "open"] /\ auth[p] = "refresh" /\ HeldWhileSaving'
      BY <1>5, <2>1, GrantTypes DEF Refresh
    <3>2. issued' \in 0..MaxTokens /\ fresh' \subseteq 1..issued' /\ renewable' \subseteq 0..issued'
      BY <2>1, GrantTypes
    <3> QED
      BY <1>5, <2>1, <3>1, <3>2, GrantTypes DEF Refresh
  <2>2. CASE Fail(p, "google") /\ UNCHANGED <<held, issued, fresh, renewable, tangled>>
    BY <1>5, <2>2 DEF Refresh, Fail
  <2> QED
    BY <1>5, <2>1, <2>2 DEF Refresh
<1>6. ASSUME NEW p \in Client, Open(p) PROVE TokenTypeOK' /\ HeldWhileSaving'
  BY <1>6 DEF Open, Turn, Fail
<1>7. ASSUME NEW p \in Client, WriteTemp(p) PROVE TokenTypeOK' /\ HeldWhileSaving'
  <2>1. PICK c \in {held[p], Torn} :
          /\ temp' = IF where[p] = "temp" THEN c ELSE temp
          /\ token' = IF where[p] = "token" THEN c ELSE token
          /\ \/ Turn(p, "write", "rename") /\ UNCHANGED <<where, why>>
             \/ Fail(p, "disk") /\ Close(p)
    BY <1>7 DEF WriteTemp
  <2>2. held[p] \in Token /\ auth[p] = "write"
    BY <1>7 DEF WriteTemp
  <2>3. /\ token' \in Token \cup {None, Torn} /\ temp' \in Token \cup {None, Torn}
        /\ where[p] = "temp" => temp' # None
        /\ where[p] # "temp" => temp' = temp
    BY <2>1, <2>2
  <2>4. CASE Turn(p, "write", "rename") /\ UNCHANGED <<where, why>>
    BY <1>7, <2>2, <2>3, <2>4 DEF WriteTemp, Turn
  <2>5. CASE Fail(p, "disk") /\ Close(p)
    BY <1>7, <2>2, <2>3, <2>5 DEF WriteTemp, Fail, Close
  <2> QED
    BY <2>1, <2>4, <2>5
<1>8. ASSUME NEW p \in Client, Rename(p) PROVE TokenTypeOK' /\ HeldWhileSaving'
  <2>1. /\ where' \in [Client -> {"nowhere", "temp", "token", "unlinked"}]
        /\ \A q \in Client : where'[q] # "temp"
    <3>1. \A q \in Client : where[q] \in {"nowhere", "temp", "token", "unlinked"}
      OBVIOUS
    <3>2. where' = [q \in Client |-> where'[q]]
      BY <1>8 DEF Rename
    <3> HIDE DEF TokenTypeOK, HeldWhileSaving
    <3>3. ASSUME NEW q \in Client PROVE where'[q] \in {"nowhere", "token", "unlinked"}
      BY <1>8, <3>1 DEF Rename
    <3> QED
      BY <3>2, <3>3
  <2>2. CASE temp # None /\ token' = temp /\ Turn(p, "rename", "in") /\ UNCHANGED why
    BY <1>8, <2>1, <2>2 DEF Rename, Turn
  <2>3. ASSUME NEW r \in Reasons, Fail(p, r), UNCHANGED token
        PROVE  TokenTypeOK' /\ HeldWhileSaving'
    BY <1>8, <2>1, <2>3 DEF Rename, Fail
  <2> QED
    BY <1>8, <2>2, <2>3 DEF Rename
<1>9. ASSUME NEW p \in Client, Forget(p) PROVE TokenTypeOK' /\ HeldWhileSaving'
  BY <1>9 DEF Forget, Hold, Close
<1>10. ASSUME Expire PROVE TokenTypeOK' /\ HeldWhileSaving'
  BY <1>10 DEF Expire
<1> QED
  BY <1>1, <1>2, <1>3, <1>4, <1>5, <1>6, <1>7, <1>8, <1>9, <1>10 DEF TokenNext, SignInStep

(* The one to whom Google issues a token is the only one that saves.       *)
LEMMA GrantCalm ==
  ASSUME TokenInv, ~tangled, ~tangled', NEW p \in Client, Grant(p),
         auth[p] \notin Saving, UNCHANGED <<token, temp, where>>,
         \A q \in Client : why'[q] \in {why[q], "none"}
  PROVE  CalmInv'
<1>1. /\ auth' = [auth EXCEPT ![p] = "open"] /\ held' = [held EXCEPT ![p] = issued']
      /\ \A q \in Client \ {p} : auth[q] \notin Saving
  BY DEF Grant, Hold
<1>2. auth'[p] = "open" /\ \A q \in Client \ {p} : auth'[q] \notin Saving
  BY <1>1 DEF TokenInv, TokenTypeOK
<1>3. \A q \in Client : where'[q] = "nowhere" /\ auth'[q] \notin {"write", "rename"}
  <2>1. \A q \in Client : auth[q] \notin {"write", "rename"}
    BY <1>1 DEF Saving
  <2>2. \A q \in Client : where[q] = "nowhere"
    BY <2>1 DEF TokenInv, CalmInv
  <2> QED
    BY <1>2, <2>2 DEF Saving
<1>4. token' # Torn /\ \A q \in Client : why'[q] \notin {"torn", "lost"}
  BY DEF TokenInv, CalmInv
<1> QED
  BY <1>2, <1>3, <1>4 DEF CalmInv

(* What the one that saves knows, step by step.                            *)
LEMMA CalmStep ==
  ASSUME TokenInv, [TokenNext]_tokenVars
  PROVE  CalmInv'
<1> SUFFICES ASSUME ~tangled'
             PROVE  CalmInv'
  BY DEF CalmInv
<1>0. ~tangled
  BY DEF TokenInv, TokenTypeOK, TokenNext, SignInStep, GetClient, LoadToken, Authenticate,
         Refresh, Grant, Open, WriteTemp, Rename, Forget, Expire, tokenVars
<1> USE <1>0 DEF TokenInv, TokenTypeOK, HeldWhileSaving, CalmInv, Saving
<1>1. CASE UNCHANGED tokenVars
  BY <1>1 DEF tokenVars
<1>2. ASSUME NEW p \in Client, GetClient(p) PROVE CalmInv'
  BY <1>2 DEF GetClient, Turn
<1>3. ASSUME NEW p \in Client, LoadToken(p) PROVE CalmInv'
  <2>1. UNCHANGED <<token, temp, where, tangled>> /\ auth[p] = "load"
    BY <1>3 DEF LoadToken, Turn
  <2>2. \E to \in {"in", "refresh", "failed"} : auth' = [auth EXCEPT ![p] = to]
    BY <1>3 DEF LoadToken, Turn, Fail
  <2>3. \A q \in Client \ {p} : held'[q] = held[q] /\ auth'[q] = auth[q] /\ why'[q] = why[q]
    <3>1. \/ held' = held
          \/ held' = [held EXCEPT ![p] = token]
      BY <1>3 DEF LoadToken, Hold
    <3>2. \/ why' = why
          \/ \E r \in Reasons : why' = [why EXCEPT ![p] = r]
      BY <1>3 DEF LoadToken, Fail, Reasons
    <3> QED
      BY <2>2, <3>1, <3>2
  <2>4. auth'[p] \notin {"open", "write", "rename"} /\ auth[p] \notin {"open", "write", "rename"}
    BY <2>1, <2>2
  <2>5. why'[p] \notin {"torn", "lost"}
    <3>1. \/ why' = why
          \/ \E r \in {"no token", "expired"} : why' = [why EXCEPT ![p] = r]
      BY <1>3 DEF LoadToken, Fail
    <3> QED
      BY <3>1
  <2> QED
    BY <2>1, <2>3, <2>4, <2>5
<1>4. ASSUME NEW p \in Client, Authenticate(p) PROVE CalmInv'
  <2>1. Grant(p) /\ auth[p] = "out" /\ why' = [why EXCEPT ![p] = "none"]
    BY <1>4 DEF Authenticate
  <2>2. UNCHANGED <<token, temp, where>>
    BY <1>4 DEF Authenticate
  <2> QED
    BY <2>1, <2>2, GrantCalm
<1>5. ASSUME NEW p \in Client, Refresh(p) PROVE CalmInv'
  <2>1. auth[p] = "refresh" /\ UNCHANGED <<token, temp, where>>
    BY <1>5 DEF Refresh
  <2>2. CASE Grant(p) /\ UNCHANGED why
    BY <2>1, <2>2, GrantCalm
  <2>3. CASE Fail(p, "google") /\ UNCHANGED held
    BY <2>1, <2>3 DEF Fail
  <2> QED
    BY <1>5, <2>2, <2>3 DEF Refresh
<1>6. ASSUME NEW p \in Client, Open(p) PROVE CalmInv'
  BY <1>6 DEF Open, Turn, Fail
<1>7. ASSUME NEW p \in Client, WriteTemp(p) PROVE CalmInv'
  BY <1>7 DEF WriteTemp, Turn, Fail, Close
<1>8. ASSUME NEW p \in Client, Rename(p) PROVE CalmInv'
  BY <1>8 DEF Rename, Turn, Fail
<1>9. ASSUME NEW p \in Client, Forget(p) PROVE CalmInv'
  BY <1>9 DEF Forget, Hold, Close
<1>10. ASSUME Expire PROVE CalmInv'
  BY <1>10 DEF Expire
<1> QED
  BY <1>1, <1>2, <1>3, <1>4, <1>5, <1>6, <1>7, <1>8, <1>9, <1>10 DEF TokenNext, SignInStep

LEMMA TokenInvAlways == TokenSpec => []TokenInv
<1>1. TokenInv /\ [TokenNext]_tokenVars => TokenInv'
  BY TokenTypeStep, CalmStep DEF TokenInv
<1> QED
  BY InitTokenInv, <1>1, PTL DEF TokenSpec

(* The token file is whole or not there, whatever crashes and whatever the *)
(* disk refuses, unless two processes save at once (auth.go:193-221).      *)
THEOREM TokenFileWhole == TokenSpec => []TokenWhole
<1>1. TokenInv => TokenWhole
  BY DEF TokenInv, CalmInv, TokenWhole
<1> QED
  BY TokenInvAlways, <1>1, PTL

(* What an earlier process left behind, a temporary file of a crash        *)
(* included, lets nobody's signing in fail (auth.go:91-114, 193-221).      *)
THEOREM SignInFailsForCause == TokenSpec => []FailsForCause
<1>1. TokenInv => FailsForCause
  BY DEF TokenInv, CalmInv, FailsForCause
<1> QED
  BY TokenInvAlways, <1>1, PTL
=============================================================================
