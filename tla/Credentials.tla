----------------------------- MODULE Credentials -----------------------------
(***************************************************************************)
(* How a caller gets and loses a credential at the coordinator: the API    *)
(* key of an account, in two maps and a SQLite table; the wallet login,    *)
(* which turns a signed nonce into a fresh API key; and the administrator's *)
(* login, which turns one into a session.                                  *)
(*                                                                         *)
(* Every handler checks in one critical section and writes in another, the *)
(* table may refuse a write, and a restart keeps the table only.  Keys are *)
(* numbered in the order they are drawn, 0 is no key; a nonce is a name.   *)
(***************************************************************************)
EXTENDS Naturals, FiniteSets

CONSTANTS
  Users,
  Requests,    \* handlers in progress at once
  Nonces,
  MaxKeys,     \* bound: keys drawn
  MaxRestarts  \* bound

VARIABLES
  byUser,    \* the account's current key
  byKey,     \* the account a key belongs to
  stored,    \* the api_keys table
  drawn,     \* keys drawn so far
  nonce,     \* nonce[n]: for whom, and what became of it
  session,   \* session[n]: the administrator's session that nonce n bought
  req,       \* req[r]: the handler
  dead,      \* keys replaced or revoked, in the table too
  undeleted, \* accounts whose DELETE failed: revoked in memory only
  bought,    \* bought[n]: credentials that nonce n bought
  restarts

crVars == <<byUser, byKey, stored, drawn, nonce, session, req, dead, undeleted, bought, restarts>>

NoUser == "nobody"
Admin == "bdfl"
Owners == Users \cup {Admin}

ASSUME CredentialConstants ==
  /\ MaxKeys \in Nat /\ MaxRestarts \in Nat
  /\ IsFiniteSet(Requests)
  /\ NoUser \notin Users \cup Nonces /\ Admin \notin Users

Keys == 1..MaxKeys

(* "stale" is past its five minutes but still in the map; "late" was dropped
   in that state, "spent" was consumed in time. *)
Challenges == [owner: Owners \cup {NoUser}, state: {"unissued", "live", "stale", "spent", "late"}]

(* A handler between its check and its write; "first" found no key to replace. *)
CredentialHandlers == [stage: {"idle", "first", "rotate", "revoke", "auth", "login"},
                       user: Users \cup {NoUser}, nonce: Nonces \cup {NoUser}]
Done == [stage |-> "idle", user |-> NoUser, nonce |-> NoUser]

CrTypeOK ==
  /\ byUser \in [Users -> 0..MaxKeys]
  /\ byKey \in [Keys -> Users \cup {NoUser}]
  /\ stored \in [Users -> 0..MaxKeys]
  /\ drawn \in 0..MaxKeys
  /\ nonce \in [Nonces -> Challenges]
  /\ session \in [Nonces -> {"none", "live", "gone"}]
  /\ req \in [Requests -> CredentialHandlers]
  /\ dead \subseteq Keys
  /\ undeleted \subseteq Users
  /\ bought \in [Nonces -> 0..Cardinality(Requests)]
  /\ restarts \in 0..MaxRestarts

CrInit ==
  /\ byUser = [u \in Users |-> 0]
  /\ byKey = [k \in Keys |-> NoUser]
  /\ stored = [u \in Users |-> 0]
  /\ drawn = 0
  /\ nonce = [n \in Nonces |-> [owner |-> NoUser, state |-> "unissued"]]
  /\ session = [n \in Nonces |-> "none"]
  /\ req = [r \in Requests |-> Done]
  /\ dead = {}
  /\ undeleted = {}
  /\ bought = [n \in Nonces |-> 0]
  /\ restarts = 0

keyVars == <<byUser, byKey, stored, drawn, dead, undeleted>>

Idle(r) == req[r].stage = "idle"
Finish(r) == req' = [req EXCEPT ![r] = Done]

-----------------------------------------------------------------------------
(* Account keys. *)

ValidSession == \E n \in Nonces : session[n] = "live"

(* The static admin key always passes, so `shown` is what else may. *)
CallerControlsAccount(u, shown) ==
  CASE shown = "static" -> TRUE
    [] shown = "session" -> ValidSession
    [] shown = "own key" -> byUser[u] /= 0 /\ byKey[byUser[u]] = u

(* POST /users/{id}/api-key: the first key is free. *)
BeginRotate(r, u, shown) ==
  /\ Idle(r)
  /\ byUser[u] = 0 \/ CallerControlsAccount(u, shown)
  /\ req' = [req EXCEPT ![r] = [stage |-> IF byUser[u] = 0 THEN "first" ELSE "rotate",
                                user |-> u, nonce |-> NoUser]]
  /\ UNCHANGED <<keyVars, nonce, session, bought, restarts>>

(* DELETE /users/{id}/api-key *)
BeginRevoke(r, u, shown) ==
  /\ Idle(r)
  /\ CallerControlsAccount(u, shown)
  /\ req' = [req EXCEPT ![r] = [stage |-> "revoke", user |-> u, nonce |-> NoUser]]
  /\ UNCHANGED <<keyVars, nonce, session, bought, restarts>>

Purchase(r) == bought' = IF req[r].nonce \in Nonces THEN [bought EXCEPT ![req[r].nonce] = @ + 1] ELSE bought

(* generate: the table first, then both maps, under one lock; the key that was
   there goes.  A refused INSERT leaves everything as it was. *)
Generate(r) ==
  LET u == req[r].user
      k == drawn + 1
  IN
  /\ req[r].stage \in {"first", "rotate", "auth"}
  /\ drawn < MaxKeys
  /\ stored' = [stored EXCEPT ![u] = k]
  /\ byKey' = [b \in Keys |-> IF b = k THEN u ELSE IF b = byUser[u] THEN NoUser ELSE byKey[b]]
  /\ byUser' = [byUser EXCEPT ![u] = k]
  /\ drawn' = k
  /\ dead' = dead \cup ({byUser[u], stored[u]} \ {0})
  /\ undeleted' = undeleted \ {u}
  /\ Purchase(r)
  /\ Finish(r)
  /\ UNCHANGED <<nonce, session, restarts>>

InsertFails(r) ==
  /\ req[r].stage \in {"first", "rotate", "auth"}
  /\ Finish(r)
  /\ UNCHANGED <<keyVars, nonce, session, bought, restarts>>

(* revoke: a failed DELETE is logged, and the maps forget the key all the same. *)
Revoke(r, deleted) ==
  LET u == req[r].user IN
  /\ req[r].stage = "revoke"
  /\ stored' = IF deleted THEN [stored EXCEPT ![u] = 0] ELSE stored
  /\ byKey' = [b \in Keys |-> IF b = byUser[u] THEN NoUser ELSE byKey[b]]
  /\ byUser' = [byUser EXCEPT ![u] = 0]
  /\ dead' = IF deleted THEN dead \cup ({byUser[u], stored[u]} \ {0}) ELSE dead
  /\ undeleted' = IF deleted \/ stored[u] = 0 THEN undeleted \ {u} ELSE undeleted \cup {u}
  /\ Finish(r)
  /\ UNCHANGED <<drawn, nonce, session, bought, restarts>>

-----------------------------------------------------------------------------
(* Nonces: the wallet manager's and the administrator's, two maps of the same
   make. *)

SameMap(o, p) == (o = Admin) <=> (p = Admin)

(* POST /account/challenge, POST /admin/challenge: also drops what expired. *)
IssueChallenge(n, o) ==
  /\ nonce[n].state = "unissued"
  /\ nonce' = [m \in Nonces |->
       IF m = n THEN [owner |-> o, state |-> "live"]
       ELSE IF nonce[m].state = "stale" /\ SameMap(nonce[m].owner, o)
            THEN [nonce[m] EXCEPT !.state = "late"] ELSE nonce[m]]
  /\ UNCHANGED <<keyVars, session, req, bought, restarts>>

Lapse(n) ==
  /\ \/ nonce[n].state = "live" /\ nonce' = [nonce EXCEPT ![n].state = "stale"] /\ UNCHANGED session
     \/ session[n] = "live" /\ session' = [session EXCEPT ![n] = "gone"] /\ UNCHANGED nonce
  /\ UNCHANGED <<keyVars, req, bought, restarts>>

Verified(r, n) ==
  LET o == nonce[n].owner IN
  req' = [req EXCEPT ![r] = IF o = Admin THEN [stage |-> "login", user |-> NoUser, nonce |-> n]
                            ELSE [stage |-> "auth", user |-> o, nonce |-> n]]

(* Mutant: the nonce goes only once the credential is made. *)
VerifyKeeping(r, n, good) ==
  /\ Idle(r)
  /\ nonce[n].state = "live"
  /\ good
  /\ Verified(r, n)
  /\ UNCHANGED <<keyVars, nonce, session, bought, restarts>>

(* POST /account/auth, POST /admin/authenticate: the nonce is consumed whether
   or not it is in time, for this account and signed (`good`). *)
VerifyChallenge(r, n, good) ==
  /\ Idle(r)
  /\ nonce[n].state \in {"live", "stale"}
  /\ nonce' = [nonce EXCEPT ![n].state = IF @ = "live" THEN "spent" ELSE "late"]
  /\ IF nonce[n].state = "live" /\ good THEN Verified(r, n) ELSE UNCHANGED req
  /\ UNCHANGED <<keyVars, session, bought, restarts>>

(* The second half of VerifyAndIssueSession. *)
MintSession(r) ==
  /\ req[r].stage = "login"
  /\ session' = [session EXCEPT ![req[r].nonce] = "live"]
  /\ Purchase(r)
  /\ Finish(r)
  /\ UNCHANGED <<keyVars, nonce, restarts>>

-----------------------------------------------------------------------------
(* The coordinator stops and loads the table: what was in memory is lost, and
   with it every nonce, session and handler. *)
Restart ==
  /\ restarts < MaxRestarts
  /\ restarts' = restarts + 1
  /\ byUser' = stored
  /\ byKey' = [k \in Keys |-> IF \E u \in Users : stored[u] = k
                              THEN CHOOSE u \in Users : stored[u] = k ELSE NoUser]
  /\ nonce' = [n \in Nonces |-> IF nonce[n].state \in {"live", "stale"}
                                THEN [nonce[n] EXCEPT !.state = "late"] ELSE nonce[n]]
  /\ session' = [n \in Nonces |-> IF session[n] = "live" THEN "gone" ELSE session[n]]
  /\ req' = [r \in Requests |-> Done]
  /\ undeleted' = {}
  /\ UNCHANGED <<stored, drawn, dead, bought>>

CrNext ==
  \/ \E r \in Requests :
       \/ \E u \in Users, shown \in {"static", "session", "own key"} :
            BeginRotate(r, u, shown) \/ BeginRevoke(r, u, shown)
       \/ Generate(r) \/ InsertFails(r) \/ MintSession(r)
       \/ \E good \in BOOLEAN : \/ Revoke(r, good)
                                \/ \E n \in Nonces : VerifyChallenge(r, n, good)
  \/ \E n \in Nonces : \/ Lapse(n)
                       \/ \E o \in Owners : IssueChallenge(n, o)
  \/ Restart

CrSpec == CrInit /\ [][CrNext]_crVars

-----------------------------------------------------------------------------
(* The two maps are each other's inverse, and say what the table says but for
   accounts whose DELETE failed. *)
KeyBooksAgree ==
  /\ \A u \in Users, k \in Keys : byUser[u] = k <=> byKey[k] = u
  /\ \A u \in Users : IF u \in undeleted THEN byUser[u] = 0 ELSE byUser[u] = stored[u]

(* A key that was replaced, or revoked with its row, never opens an account
   again, in memory or after any restart. *)
DeadStaysDead == \A k \in dead : byKey[k] = NoUser /\ \A u \in Users : stored[u] /= k

(* One nonce buys at most one credential, only one consumed in time, and a
   session only if it was the administrator's. *)
NonceBuysOnce ==
  \A n \in Nonces :
    /\ bought[n] <= 1
    /\ bought[n] = 1 => nonce[n].state = "spent"
    /\ session[n] /= "none" => nonce[n].owner = Admin

CredentialsAreSound == KeyBooksAgree /\ DeadStaysDead /\ NonceBuysOnce

(* What the handler's comment promises: a key that exists is replaced only for
   the account itself or an administrator.  Two first mints at once break it:
   both find no key, and the second replaces the first one's. *)
FirstMintReplacesNothing ==
  [][\A r \in Requests : (req[r].stage = "first" /\ Generate(r)) => byUser[req[r].user] = 0]_crVars

(* What "revoked" promises: a key that was revoked is not accepted again. *)
RevokedIsForGood == [][\A u \in undeleted : byUser'[u] /= stored[u]]_crVars
=============================================================================
