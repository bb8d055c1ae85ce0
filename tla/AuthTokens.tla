------------------------------ MODULE AuthTokens ------------------------------
(***************************************************************************)
(* Accounts and refresh tokens: app/services/auth_service.py,              *)
(* app/services/me_service.py, app/api/deps.py, and the start-up sweep of  *)
(* app/main.py, over the tables users and refresh_tokens.                  *)
(*                                                                         *)
(* The database is PostgreSQL at READ COMMITTED, and each HTTP request has *)
(* one session.  A request is therefore a few steps, one for each point at *)
(* which it looks at or changes what the others see:                       *)
(*   - a SELECT, with the Python checks that follow it up to the next      *)
(*     await, is one step reading the committed rows;                      *)
(*   - UPDATE refresh_tokens ... WHERE revoked_at IS NULL picks its rows   *)
(*     in the snapshot of the statement (req[r].seen); a row inserted      *)
(*     after that snapshot is not touched;                                 *)
(*   - the flush and the COMMIT are one step that publishes the writes.    *)
(* Row locks only order the commits of two requests that write one row;    *)
(* they remove no order of snapshots and commits, so they are left out.    *)
(* A flushed UPDATE by primary key that finds no row raises StaleDataError *)
(* and the request is rolled back: Abort.                                  *)
(*                                                                         *)
(* Left out: names, hashing (a password stands for its hash), the password *)
(* policy and every other rejection that leaves the database as it was,    *)
(* access tokens (any account that ever existed may hold an unexpired one) *)
(* and the rate limiter.                                                   *)
(***************************************************************************)
EXTENDS Naturals, FiniteSets

CONSTANTS
  User,       \* users.user_id values
  Email,      \* addresses people sign up with
  Password,   \* passwords (users.password_hash holds the hash of one)
  Jti,        \* refresh_tokens.jti values; a family_id is the jti of its first token
  Req,        \* request slots: how many requests may be in flight at once
  MaxLife,    \* bound on aging: 2 lets tokens expire and outlive the grace, 0 none
  None        \* SQL NULL, and "no such thing" for history

ASSUME NoneAssumption == None \notin User \cup Email \cup Password \cup Jti

ASSUME ReqAssumption == IsFiniteSet(Req) /\ Req # {}

ASSUME MaxLifeAssumption == MaxLife \in 0..2

VARIABLES
  \* table users
  ustate,    \* "none" (no row), "live", or "deleted" (deleted_at set)
  email,     \* None: no row, or the anonymised deleted_<id>@deleted.local
  passwd,    \* None: password_hash IS NULL
  \* table refresh_tokens
  status,    \* "none" (not issued), "active", "revoked" or "swept" (row deleted)
  owner,     \* user_id
  family,    \* family_id
  life,      \* 0: unexpired, 1: expires_at passed, 2: passed by the 7 days of grace
  \* requests
  req,       \* what each request in flight holds between two of its steps
  \* history, read by no action
  parent,    \* the token a token was rotated from
  grant,     \* the password its family's login or signup was made with
  burnt,     \* families a reuse detection has invalidated
  dirty,     \* requests in flight while a mass revocation committed
  tainted    \* tokens issued by a request that overlapped a mass revocation

users   == <<ustate, email, passwd>>
table   == <<status, owner, family, life>>
lineage == <<parent, grant>>
history == <<burnt, tainted>>
vars    == <<users, table, req, lineage, burnt, dirty, tainted>>

Idle == [pc |-> "idle", tok |-> None, user |-> None, pw |-> None, seen |-> {}]

Init ==
  /\ ustate = [u \in User |-> "none"]
  /\ email = [u \in User |-> None]
  /\ passwd = [u \in User |-> None]
  /\ status = [j \in Jti |-> "none"]
  /\ owner = [j \in Jti |-> None]
  /\ family = [j \in Jti |-> None]
  /\ life = [j \in Jti |-> 0]
  /\ req = [r \in Req |-> Idle]
  /\ parent = [j \in Jti |-> None]
  /\ grant = [j \in Jti |-> None]
  /\ burnt = {}
  /\ dirty = {}
  /\ tainted = {}
------------------------------------------------------------------------------
(* Rows *)

Row(j)        == status[j] \in {"active", "revoked"}
ActiveOf(u)   == {j \in Jti : status[j] = "active" /\ owner[j] = u}
ActiveHead(f) == {j \in Jti : status[j] = "active" /\ j = f}   \* mutation of ActiveIn
ActiveIn(f)   == {j \in Jti : status[j] = "active" /\ family[j] = f}

\* decode_token accepts the JWT (it has not expired) and the row is there.
Presented(j)  == life[j] = 0 /\ Row(j)

\* A set of rows gets revoked_at; the WHERE clause is evaluated again on rows
\* another transaction changed meanwhile, so a revoked row is not written twice.
Revoked(S)    == [j \in Jti |-> IF j \in S /\ status[j] = "active" THEN "revoked" ELSE status[j]]

\* Request q has run its mass UPDATE over the tokens of user u, or of family f,
\* and has not committed yet.
Revoking(q, u, f) ==
  \/ req[q].pc \in {"patchCommit", "deleteCommit"} /\ req[q].user = u
  \/ req[q].pc = "reuseCommit" /\ family[req[q].tok] = f

Taint(k, r, u, f, p) ==
  tainted' = IF r \in dirty \/ p \in tainted \/ \E q \in Req : Revoking(q, u, f)
             THEN tainted \cup {k} ELSE tainted

\* Mutation: the new row is inserted without its user.
InsertNoOwner(k, u, f, p, pw) ==
  /\ owner' = owner
  /\ family' = [family EXCEPT ![k] = f]
  /\ parent' = [parent EXCEPT ![k] = p]
  /\ grant' = [grant EXCEPT ![k] = pw]

\* _issue_token_pair: the row of a new token k.  uuid4 makes k new.
Insert(k, u, f, p, pw) ==
  /\ owner' = [owner EXCEPT ![k] = u]
  /\ family' = [family EXCEPT ![k] = f]
  /\ parent' = [parent EXCEPT ![k] = p]
  /\ grant' = [grant EXCEPT ![k] = pw]

\* Request r suspends at an await, holding a token, a user, a password and the
\* rows its mass UPDATE has written.
Goto(r, p, t, u, w, S) ==
  req' = [req EXCEPT ![r] = [pc |-> p, tok |-> t, user |-> u, pw |-> w, seen |-> S]]

Finish(r) ==
  /\ req' = [req EXCEPT ![r] = Idle]
  /\ dirty' = dirty \ {r}

\* A mass revocation commits: whoever is in flight has overlapped it.
FinishRevocation(r) ==
  /\ status' = Revoked(req[r].seen)
  /\ req' = [req EXCEPT ![r] = Idle]
  /\ dirty' = {q \in Req \ {r} : req[q].pc # "idle"}
------------------------------------------------------------------------------
(* POST /auth/signup and /auth/login *)

\* auth_service.signup: user, acknowledgement and first token in one commit;
\* a taken address is an IntegrityError and leaves nothing behind.
Signup(u, e, pw, k) ==
  /\ ustate[u] = "none"
  /\ \A v \in User : email[v] # e
  /\ status[k] = "none"
  /\ ustate' = [ustate EXCEPT ![u] = "live"]
  /\ email' = [email EXCEPT ![u] = e]
  /\ passwd' = [passwd EXCEPT ![u] = pw]
  /\ status' = [status EXCEPT ![k] = "active"]
  /\ Insert(k, u, k, None, pw)
  /\ UNCHANGED <<life, req, burnt, dirty, tainted>>

\* auth_service.login: SELECT by address and verify; deleted_at is not read.
LoginRead(r, u, e, pw) ==
  /\ req[r].pc = "idle"
  /\ email[u] = e
  /\ passwd[u] = pw
  /\ Goto(r, "login", None, u, pw, {})
  /\ UNCHANGED <<users, table, lineage, history, dirty>>

LoginCommit(r, k) ==
  /\ req[r].pc = "login"
  /\ status[k] = "none"
  /\ status' = [status EXCEPT ![k] = "active"]
  /\ Insert(k, req[r].user, k, None, req[r].pw)
  /\ Taint(k, r, req[r].user, k, None)
  /\ Finish(r)
  /\ UNCHANGED <<users, life, burnt>>
------------------------------------------------------------------------------
(* POST /auth/refresh *)

\* Mutation: revoked_at is not looked at.
RefreshReadNoReuse(r, j) ==
  /\ req[r].pc = "idle"
  /\ Presented(j)
  /\ Goto(r, "rotate", j, None, None, {})
  /\ UNCHANGED <<users, table, lineage, history, dirty>>

\* refresh_tokens: session.get(jti), then either reuse or rotation.
RefreshRead(r, j) ==
  /\ req[r].pc = "idle"
  /\ Presented(j)
  /\ Goto(r, IF status[j] = "revoked" THEN "reuse" ELSE "rotate", j, None, None, {})
  /\ UNCHANGED <<users, table, lineage, history, dirty>>

\* Mutation: the old row keeps revoked_at NULL.
RotateCommitKeepsOld(r, k) ==
  LET j == req[r].tok IN
  /\ req[r].pc = "rotate"
  /\ Row(j)
  /\ status[k] = "none"
  /\ status' = [status EXCEPT ![k] = "active"]
  /\ Insert(k, owner[j], family[j], j, grant[j])
  /\ Taint(k, r, owner[j], family[j], j)
  /\ Finish(r)
  /\ UNCHANGED <<users, life, burnt>>

\* Mutation: family_id is not handed on, and a rotation opens a new family.
RotateCommitNewFamily(r, k) ==
  LET j == req[r].tok IN
  /\ req[r].pc = "rotate"
  /\ Row(j)
  /\ status[k] = "none"
  /\ status' = [status EXCEPT ![j] = "revoked", ![k] = "active"]
  /\ Insert(k, owner[j], k, j, grant[j])
  /\ Taint(k, r, owner[j], family[j], j)
  /\ Finish(r)
  /\ UNCHANGED <<users, life, burnt>>

\* Rotation: revoked_at on the old row and the new row in one commit.  The
\* UPDATE is by primary key and does not ask whether the row is still active.
RotateCommit(r, k) ==
  LET j == req[r].tok IN
  /\ req[r].pc = "rotate"
  /\ Row(j)
  /\ status[k] = "none"
  /\ status' = [status EXCEPT ![j] = "revoked", ![k] = "active"]
  /\ Insert(k, owner[j], family[j], j, grant[j])
  /\ Taint(k, r, owner[j], family[j], j)
  /\ Finish(r)
  /\ UNCHANGED <<users, life, burnt>>

\* Reuse: _invalidate_family's UPDATE, then its commit.
ReuseUpdate(r) ==
  /\ req[r].pc = "reuse"
  /\ Goto(r, "reuseCommit", req[r].tok, None, None, ActiveIn(family[req[r].tok]))
  /\ UNCHANGED <<users, table, lineage, history, dirty>>

ReuseCommit(r) ==
  /\ req[r].pc = "reuseCommit"
  /\ FinishRevocation(r)
  /\ burnt' = burnt \cup {family[req[r].tok]}
  /\ UNCHANGED <<users, owner, family, life, lineage, tainted>>
------------------------------------------------------------------------------
(* POST /auth/logout *)

LogoutRead(r, j) ==
  /\ req[r].pc = "idle"
  /\ Presented(j)
  /\ status[j] = "active"
  /\ Goto(r, "logout", j, None, None, {})
  /\ UNCHANGED <<users, table, lineage, history, dirty>>

LogoutCommit(r) ==
  /\ req[r].pc = "logout"
  /\ Row(req[r].tok)
  /\ status' = Revoked({req[r].tok})
  /\ Finish(r)
  /\ UNCHANGED <<users, owner, family, life, lineage, history>>
------------------------------------------------------------------------------
(* PATCH and DELETE /me.  get_current_user reads the row in the session of *)
(* the handler, which does not read it again.                              *)

\* update_me, phase 1, for a change of password: the loaded hash is verified.
PatchRead(r, u, cur, new) ==
  /\ req[r].pc = "idle"
  /\ ustate[u] = "live"
  /\ passwd[u] = cur
  /\ Goto(r, "patch", None, u, new, {})
  /\ UNCHANGED <<users, table, lineage, history, dirty>>

DeleteRead(r, u) ==
  /\ req[r].pc = "idle"
  /\ ustate[u] = "live"
  /\ Goto(r, "delete", None, u, None, {})
  /\ UNCHANGED <<users, table, lineage, history, dirty>>

\* Both run the same UPDATE over the account's active tokens; the session does
\* not autoflush, so the users row is written at the commit.
AccountUpdate(r) ==
  /\ req[r].pc \in {"patch", "delete"}
  /\ Goto(r, IF req[r].pc = "patch" THEN "patchCommit" ELSE "deleteCommit",
          None, req[r].user, req[r].pw, ActiveOf(req[r].user))
  /\ UNCHANGED <<users, table, lineage, history, dirty>>

\* Mutation: the password changes and the tokens stay.
PatchCommitKeepsTokens(r) ==
  /\ req[r].pc = "patchCommit"
  /\ Finish(r)
  /\ passwd' = [passwd EXCEPT ![req[r].user] = req[r].pw]
  /\ UNCHANGED <<ustate, email, table, lineage, history>>

PatchCommit(r) ==
  /\ req[r].pc = "patchCommit"
  /\ FinishRevocation(r)
  /\ passwd' = [passwd EXCEPT ![req[r].user] = req[r].pw]
  /\ UNCHANGED <<ustate, email, owner, family, life, lineage, history>>

\* Mutation: password_hash stays.
DeleteCommitKeepsPassword(r) ==
  /\ req[r].pc = "deleteCommit"
  /\ FinishRevocation(r)
  /\ ustate' = [ustate EXCEPT ![req[r].user] = "deleted"]
  /\ email' = [email EXCEPT ![req[r].user] = None]
  /\ UNCHANGED <<passwd, owner, family, life, lineage, history>>

DeleteCommit(r) ==
  /\ req[r].pc = "deleteCommit"
  /\ FinishRevocation(r)
  /\ ustate' = [ustate EXCEPT ![req[r].user] = "deleted"]
  /\ email' = [email EXCEPT ![req[r].user] = None]
  /\ passwd' = [passwd EXCEPT ![req[r].user] = None]
  /\ UNCHANGED <<owner, family, life, lineage, history>>
------------------------------------------------------------------------------
(* Time, failures and restarts *)

\* Every token lives equally long, so one rotated from another expires later.
Age(j) ==
  /\ status[j] # "none"
  /\ life[j] < MaxLife
  /\ parent[j] # None => life[parent[j]] > life[j]
  /\ life' = [life EXCEPT ![j] = @ + 1]
  /\ UNCHANGED <<users, status, owner, family, req, lineage, history, dirty>>

\* A request fails before its commit: the connection, a deadlock victim, a
\* StaleDataError, a client gone.  Closing the session rolls it back.
Abort(r) ==
  /\ req[r].pc # "idle"
  /\ Finish(r)
  /\ UNCHANGED <<users, table, lineage, history>>

\* Mutation: the sweep also takes revoked rows that have not expired.
RestartSweepsRevoked ==
  /\ req' = [r \in Req |-> Idle]
  /\ dirty' = {}
  /\ status' = [j \in Jti |-> IF status[j] = "revoked" \/ (Row(j) /\ life[j] = 2)
                            THEN "swept" ELSE status[j]]
  /\ UNCHANGED <<users, owner, family, life, lineage, history>>

\* The process restarts; lifespan sweeps before the first request, and a sweep
\* that fails is logged and skipped.
Restart ==
  /\ req' = [r \in Req |-> Idle]
  /\ dirty' = {}
  /\ \/ status' = [j \in Jti |-> IF Row(j) /\ life[j] = 2 THEN "swept" ELSE status[j]]
     \/ UNCHANGED status
  /\ UNCHANGED <<users, owner, family, life, lineage, history>>

Next ==
  \/ \E u \in User, e \in Email, pw \in Password, k \in Jti : Signup(u, e, pw, k)
  \/ \E r \in Req, u \in User, e \in Email, pw \in Password : LoginRead(r, u, e, pw)
  \/ \E r \in Req, k \in Jti : LoginCommit(r, k) \/ RotateCommit(r, k)
  \/ \E r \in Req, j \in Jti : RefreshRead(r, j) \/ LogoutRead(r, j)
  \/ \E r \in Req, u \in User, cur, new \in Password : PatchRead(r, u, cur, new)
  \/ \E r \in Req, u \in User : DeleteRead(r, u)
  \/ \E r \in Req :
       \/ ReuseUpdate(r) \/ ReuseCommit(r) \/ LogoutCommit(r) \/ AccountUpdate(r)
       \/ PatchCommit(r) \/ DeleteCommit(r) \/ Abort(r)
  \/ \E j \in Jti : Age(j)
  \/ Restart

Spec == Init /\ [][Next]_vars
------------------------------------------------------------------------------
(* Properties *)

Request ==
  [pc : {"idle", "login", "rotate", "reuse", "reuseCommit", "logout",
         "patch", "patchCommit", "delete", "deleteCommit"},
   tok : Jti \cup {None}, user : User \cup {None}, pw : Password \cup {None},
   seen : SUBSET Jti]

\* The types of all variables, and which fields of a request its pc fills.
TypeOK ==
  /\ ustate \in [User -> {"none", "live", "deleted"}]
  /\ email \in [User -> Email \cup {None}]
  /\ passwd \in [User -> Password \cup {None}]
  /\ status \in [Jti -> {"none", "active", "revoked", "swept"}]
  /\ owner \in [Jti -> User \cup {None}]
  /\ family \in [Jti -> Jti \cup {None}]
  /\ life \in [Jti -> 0..2]
  /\ req \in [Req -> Request]
  /\ parent \in [Jti -> Jti \cup {None}]
  /\ grant \in [Jti -> Password \cup {None}]
  /\ burnt \subseteq Jti
  /\ dirty \subseteq Req
  /\ tainted \subseteq Jti
  /\ \A j \in Jti : status[j] # "none" =>
       owner[j] \in User /\ family[j] \in Jti /\ grant[j] \in Password
  /\ \A r \in Req :
       /\ req[r].pc \in {"rotate", "reuse", "reuseCommit", "logout"} =>
            req[r].tok \in Jti /\ status[req[r].tok] # "none"
       /\ req[r].pc \in {"login", "patch", "patchCommit", "delete", "deleteCommit"} =>
            req[r].user \in User
       /\ req[r].pc \in {"login", "patch", "patchCommit"} => req[r].pw \in Password

\* The requests on the two tables implement the ledger: a successor's token
\* keeps its user and family, a rotated or revoked token never becomes active
\* again whatever commits after it, and the sweep takes no row whose JWT could
\* still be presented (auth_service: refresh_tokens, logout,
\* _invalidate_family, sweep_expired_refresh_tokens; me_service: update_me,
\* delete_me).
Ledger == INSTANCE TokenLedger WITH presentable <- {j \in Jti : life[j] = 0}
LedgerSpec == Ledger!Spec

\* An active token was granted for the password its account has now; an
\* account without a password (deleted) has no active token.  This is
\* what docs/API.md says of PATCH and DELETE /me ("all active refresh tokens
\* are revoked"), for as long as requests do not overlap.
SessionsMatchPassword ==
  \A j \in Jti : status[j] = "active" => grant[j] = passwd[owner[j]]

\* What is true of update_me and delete_me under any interleaving: a token
\* that survives a change of password or a deletion was issued by a request
\* that overlapped it, or descends from such a token.
StaleOnlyByOverlap ==
  \A j \in Jti : status[j] = "active" /\ grant[j] # passwd[owner[j]] => j \in tainted

\* Reuse detection kills the family: after refresh_tokens has met a revoked
\* token, a token of the family is active only if the request that issued it
\* overlapped the invalidation, or descends from such a token.
ReuseKillsFamily ==
  \A j \in Jti : status[j] = "active" /\ family[j] \in burnt => j \in tainted

\* A token is never rotated into more successors than requests can overlap:
\* the check of revoked_at in refresh_tokens stops every later request.
Children(j) == {k \in Jti : parent[k] = j}
ForkBound == \A j \in Jti : Cardinality(Children(j)) <= Cardinality(Req)

\* With one request at a time, a family is a chain: it has one active token at
\* most (rotation revokes the old token with the insert of the new one).
OneActivePerFamily ==
  \A j, k \in Jti : (/\ status[j] = "active" /\ status[k] = "active"
                     /\ family[j] = family[k]) => j = k

\* What delete_me leaves ("로그인 차단" in its comment) under any interleaving: the
\* address of a deleted account never comes back, so that nobody logs in to it, and it
\* has no active token but of requests that overlapped a deletion (or descending from
\* them), even if its password becomes again the one they were granted for.
\* password_hash does not stay NULL, as docs/API.md has it: a PATCH that had loaded the
\* account before the deletion was committed writes its hash into the row, and nothing
\* else does.
DeletionHolds ==
  [][\A u \in User : ustate'[u] = "deleted" =>
       /\ email'[u] = None
       /\ \A j \in Jti : status'[j] = "active" /\ owner'[j] = u => j \in tainted'
       /\ \/ passwd'[u] = None
          \/ ustate[u] = "deleted" /\ passwd'[u] = passwd[u]
          \/ \E r \in dirty : req[r].pc = "patchCommit" /\ req[r].user = u]_vars
------------------------------------------------------------------------------
(***************************************************************************)
(* The inductive invariants behind StaleOnlyByOverlap, ReuseKillsFamily and *)
(* DeletionHolds.                                                          *)
(***************************************************************************)

Sound(j) == grant[j] = passwd[owner[j]] /\ family[j] \notin burnt

\* Every active token is sound or tainted.
ActiveSound == \A j \in Jti : status[j] = "active" => Sound(j) \/ j \in tainted

\* A request about to issue a token would issue a sound one, or overlaps a
\* mass revocation, or would rotate a tainted token.
LoginSound ==
  \A r \in Req : req[r].pc = "login" =>
    r \in dirty \/ req[r].pw = passwd[req[r].user]

RotateSound ==
  \A r \in Req : req[r].pc = "rotate" =>
    r \in dirty \/ req[r].tok \in tainted \/ Sound(req[r].tok)

\* A mass revocation in progress has captured every active token in its scope,
\* except those issued since its UPDATE.
Captured ==
  \A q \in Req, j \in Jti : status[j] = "active" /\ Revoking(q, owner[j], family[j]) =>
    j \in req[q].seen \/ j \in tainted

\* Rows refer to rows: a token to a user and a family, a request to a user.
References ==
  /\ \A j \in Jti : status[j] # "none" =>
       ustate[owner[j]] # "none" /\ status[family[j]] # "none"
  /\ \A j \in burnt : status[j] # "none"
  /\ \A u \in User : ustate[u] = "none" => email[u] = None
  /\ \A r \in Req : req[r].pc \in {"login", "patch", "patchCommit", "delete", "deleteCommit"} =>
       ustate[req[r].user] # "none"

\* Whatever is done for a deleted account has been begun before its deletion.
DeletedInv ==
  /\ \A u \in User : ustate[u] = "deleted" => email[u] = None
  /\ \A j \in Jti : status[j] = "active" /\ ustate[owner[j]] = "deleted" => j \in tainted
  /\ \A r \in Req :
       /\ req[r].pc \in {"login", "patch", "patchCommit"} /\ ustate[req[r].user] = "deleted" =>
            r \in dirty
       /\ req[r].pc = "rotate" /\ ustate[owner[req[r].tok]] = "deleted" =>
            r \in dirty \/ req[r].tok \in tainted

OverlapInv ==
  TypeOK /\ References /\ ActiveSound /\ LoginSound /\ RotateSound /\ Captured
==============================================================================
