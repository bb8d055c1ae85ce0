---------------------------- MODULE PushDelivery -----------------------------
(***************************************************************************)
(* Device registrations, consent and sending: app/services/               *)
(* device_service.py and notification_service.py, with the loop over users *)
(* and messages of notification_trigger_service.py, over the table         *)
(* device_tokens (token UNIQUE).                                           *)
(*                                                                         *)
(* A request is a SELECT and, later, a flush with its COMMIT.  What may    *)
(* have changed between the two is handled by the database alone: an       *)
(* INSERT of a token that is there meanwhile is an IntegrityError, an      *)
(* UPDATE by primary key of a row that is gone is a StaleDataError.  The   *)
(* ORM writes only the attributes whose value differs from the one it      *)
(* loaded.                                                                 *)
(*                                                                         *)
(* A job is one call of send_test_to_self, send_to_user or                 *)
(* run_watchlist_trigger.  It holds one session, and awaits Firebase       *)
(* between reading the devices and revoking the dead tokens.  Firebase may *)
(* report any token dead (INVALID_ARGUMENT is among the codes that count   *)
(* as dead).  FcmSend models the send itself, and why it returns.          *)
(*                                                                         *)
(* Left out: platform, locale and the other columns, the contents of the   *)
(* messages, and which users and tickers the trigger finds changed (any).  *)
(***************************************************************************)
EXTENDS Naturals, FiniteSets

CONSTANTS
  User,     \* users.user_id values
  Token,    \* FCM tokens of app instances
  Req,      \* slots for requests of clients
  Job,      \* slots for sending jobs
  MaxMsg,   \* messages to one user in one job (5, above it one summary)
  MaxId,    \* bound on device_id: how many rows are ever inserted
  None      \* no row, no user, no token

ASSUME PushNone == None \notin User \cup Token

ASSUME NoRow == None \notin [id : Nat, user : User, revoked : BOOLEAN]

ASSUME PushBounds == MaxMsg \in Nat \ {0} /\ MaxId \in Nat

ASSUME PushSlots == IsFiniteSet(Job)

VARIABLES
  dev,      \* dev[t]: None, or the row of token t
  ids,      \* device_id values used so far
  opted,    \* opted[u]: is_opted_in(u, "PUSH")
  req,      \* client requests in flight
  job,      \* sending jobs in flight
  \* history, read by no action
  claim,    \* claim[t]: whose registration of t was acknowledged last, and holds
  late      \* late[u]: messages handed to Firebase since u opted out

vars == <<dev, ids, opted, req, job, claim, late>>

Ask(p, u, t, i, o) ==
  [pc |-> p, user |-> u, tok |-> t, id |-> i, off |-> o, hit |-> FALSE]
NoReq == Ask("idle", None, None, 0, FALSE)
Send(p, a, T, u, n) ==
  [pc |-> p, asks |-> a, todo |-> T, user |-> u, left |-> n,
   seen |-> {}, dead |-> {}, tok |-> None, id |-> 0]
NoJob == Send("idle", FALSE, {}, None, 0)

Init ==
  /\ dev = [t \in Token |-> None]
  /\ ids = 0
  /\ opted = [u \in User |-> FALSE]
  /\ req = [r \in Req |-> NoReq]
  /\ job = [j \in Job |-> NoJob]
  /\ claim = [t \in Token |-> None]
  /\ late = [u \in User |-> 0]

Is(t, i) == dev[t] # None /\ dev[t].id = i     \* the row that was read is still there
NewRow(u) == [id |-> ids + 1, user |-> u, revoked |-> FALSE]
------------------------------------------------------------------------------
(* POST /me/devices and DELETE /me/devices/{id} *)

\* Mutation: whose row it is does not matter.
RegisterReadAnyOwner(r, u, t) ==
  /\ req[r].pc = "idle"
  /\ IF dev[t] = None
     THEN req' = [req EXCEPT ![r] = Ask("insert", u, t, 0, FALSE)]
     ELSE req' = [req EXCEPT ![r] = Ask("update", u, t, dev[t].id, dev[t].revoked)]
  /\ UNCHANGED <<dev, ids, opted, job, claim, late>>

\* register_device: the SELECT by token decides between the three scenarios.
RegisterRead(r, u, t) ==
  /\ req[r].pc = "idle"
  /\ IF dev[t] = None
     THEN req' = [req EXCEPT ![r] = Ask("insert", u, t, 0, FALSE)]
     ELSE req' = [req EXCEPT ![r] = Ask(IF dev[t].user = u THEN "update" ELSE "transfer",
                                        u, t, dev[t].id, dev[t].revoked)]
  /\ UNCHANGED <<dev, ids, opted, job, claim, late>>

\* Scenarios 1 and 3: INSERT, after a DELETE of the other user's row (which may
\* be gone by then).
RegisterInsert(r) ==
  LET q == req[r] IN
  /\ q.pc \in {"insert", "transfer"}
  /\ dev[q.tok] = None \/ (q.pc = "transfer" /\ Is(q.tok, q.id))
  /\ ids < MaxId
  /\ dev' = [dev EXCEPT ![q.tok] = NewRow(q.user)]
  /\ ids' = ids + 1
  /\ claim' = [claim EXCEPT ![q.tok] = q.user]
  /\ req' = [req EXCEPT ![r] = NoReq]
  /\ UNCHANGED <<opted, job, late>>

\* Scenario 2: revoked_at is in the UPDATE only if the loaded value was set.
RegisterUpdate(r) ==
  LET q == req[r] IN
  /\ q.pc = "update"
  /\ Is(q.tok, q.id)
  /\ dev' = [dev EXCEPT ![q.tok].revoked = IF q.off THEN FALSE ELSE @]
  /\ claim' = [claim EXCEPT ![q.tok] = IF q.hit THEN None ELSE q.user]
  /\ req' = [req EXCEPT ![r] = NoReq]
  /\ UNCHANGED <<ids, opted, job, late>>

\* remove_device: session.get by id, for its owner; the DELETE of a row that is
\* gone by then is only a warning.
RemoveRead(r, u, t) ==
  /\ req[r].pc = "idle"
  /\ dev[t] # None /\ dev[t].user = u
  /\ req' = [req EXCEPT ![r] = Ask("remove", u, t, dev[t].id, FALSE)]
  /\ UNCHANGED <<dev, ids, opted, job, claim, late>>

RemoveCommit(r) ==
  LET q == req[r] IN
  /\ q.pc = "remove"
  /\ IF Is(q.tok, q.id)
     THEN dev' = [dev EXCEPT ![q.tok] = None] /\ claim' = [claim EXCEPT ![q.tok] = None]
     ELSE UNCHANGED <<dev, claim>>
  /\ req' = [req EXCEPT ![r] = NoReq]
  /\ UNCHANGED <<ids, opted, job, late>>

\* Mutation: the row of the other user is not deleted before the INSERT.
ConflictWithFound(r) ==
  LET q == req[r] IN
  /\ \/ q.pc = "insert" /\ dev[q.tok] # None
     \/ q.pc = "transfer" /\ dev[q.tok] # None
     \/ q.pc = "update" /\ ~Is(q.tok, q.id)
  /\ req' = [req EXCEPT ![r] = Ask("failed", None, None, 0, FALSE)]
  /\ UNCHANGED <<dev, ids, opted, job, claim, late>>

\* The flush of a registration meets another row, or none, and raises; no
\* handler of the service or the endpoint expects it.
Conflict(r) ==
  LET q == req[r] IN
  /\ \/ q.pc = "insert" /\ dev[q.tok] # None
     \/ q.pc = "transfer" /\ dev[q.tok] # None /\ ~Is(q.tok, q.id)
     \/ q.pc = "update" /\ ~Is(q.tok, q.id)
  /\ req' = [req EXCEPT ![r] = Ask("failed", None, None, 0, FALSE)]
  /\ UNCHANGED <<dev, ids, opted, job, claim, late>>

\* The client has the answer 500, or the request ends before its commit.
EndRequest(r) ==
  /\ req[r].pc # "idle"
  /\ req' = [req EXCEPT ![r] = NoReq]
  /\ UNCHANGED <<dev, ids, opted, job, claim, late>>

\* record_consent and record_opt_out for the channel PUSH.
Opt(u) ==
  /\ opted' = [opted EXCEPT ![u] = ~@]
  /\ late' = [late EXCEPT ![u] = 0]
  /\ UNCHANGED <<dev, ids, req, job, claim>>
------------------------------------------------------------------------------
(* Sending *)

\* send_test_to_self, or send_to_user with require_consent (asks) or without.
StartSend(j, u, asks) ==
  /\ job[j].pc = "idle"
  /\ job' = [job EXCEPT ![j] = Send(IF asks THEN "consent" ELSE "devices", asks, {}, u, 1)]
  /\ UNCHANGED <<dev, ids, opted, req, claim, late>>

\* run_watchlist_trigger, for the users U it will find changes for.
StartTrigger(j, U) ==
  /\ job[j].pc = "idle"
  /\ job' = [job EXCEPT ![j] = Send("next", TRUE, U, None, 0)]
  /\ UNCHANGED <<dev, ids, opted, req, claim, late>>

\* The next user of the trigger, with n messages for them; or the job is done.
NextUser(j) ==
  /\ job[j].pc = "next"
  /\ \/ job[j].todo = {} /\ job' = [job EXCEPT ![j] = NoJob]
     \/ \E u \in job[j].todo, n \in 1..MaxMsg :
          job' = [job EXCEPT ![j] = Send("consent", TRUE, job[j].todo \ {u}, u, n)]
  /\ UNCHANGED <<dev, ids, opted, req, claim, late>>

\* is_opted_in; a skipped message skips the rest of the user's messages.
CheckConsent(j) ==
  /\ job[j].pc = "consent"
  /\ job' = [job EXCEPT ![j].pc = IF opted[job[j].user] THEN "devices" ELSE "next"]
  /\ UNCHANGED <<dev, ids, opted, req, claim, late>>

ActiveOf(u) == {t \in Token : dev[t] # None /\ dev[t].user = u /\ ~dev[t].revoked}

\* _active_devices_for_user, and the message goes to Firebase for all of them.
HandOver(j) ==
  LET u == job[j].user
      D == ActiveOf(u)
  IN
  /\ job[j].pc = "devices"
  /\ IF D = {}
     THEN job' = [job EXCEPT ![j].pc = "next"] /\ UNCHANGED late
     ELSE /\ job' = [job EXCEPT ![j].pc = "sending", ![j].seen = {<<t, dev[t].id>> : t \in D}]
          /\ late' = [late EXCEPT ![u] = IF job[j].asks /\ ~opted[u] THEN @ + 1 ELSE @]
  /\ UNCHANGED <<dev, ids, opted, req, claim>>

\* send_to_tokens returns; D are the tokens it reports dead.
Report(j) ==
  /\ job[j].pc = "sending"
  /\ \E D \in SUBSET {s[1] : s \in job[j].seen} :
       job' = [job EXCEPT ![j].pc = "clean", ![j].dead = D]
  /\ UNCHANGED <<dev, ids, opted, req, claim, late>>

\* mark_token_revoked, for the next dead token: the SELECT is by token.  A row
\* the session has loaded already keeps its loaded (active) value.
MarkRead(j) ==
  /\ job[j].pc = "clean"
  /\ \E t \in job[j].dead :
       IF dev[t] = None \/ (dev[t].revoked /\ <<t, dev[t].id>> \notin job[j].seen)
       THEN job' = [job EXCEPT ![j].dead = @ \ {t}]
       ELSE job' = [job EXCEPT ![j].pc = "mark", ![j].dead = @ \ {t},
                               ![j].tok = t, ![j].id = dev[t].id]
  /\ UNCHANGED <<dev, ids, opted, req, claim, late>>

\* The UPDATE is by primary key; a row gone meanwhile fails the whole job.
MarkCommit(j) ==
  LET t == job[j].tok IN
  /\ job[j].pc = "mark"
  /\ IF Is(t, job[j].id)
     THEN /\ dev' = [dev EXCEPT ![t].revoked = TRUE]
          /\ claim' = [claim EXCEPT ![t] = None]
          /\ req' = [r \in Req |-> IF req[r].pc = "update" /\ req[r].tok = t
                                   THEN [req[r] EXCEPT !.hit = TRUE] ELSE req[r]]
          /\ job' = [job EXCEPT ![j].pc = "clean", ![j].tok = None, ![j].id = 0]
     ELSE job' = [job EXCEPT ![j] = NoJob] /\ UNCHANGED <<dev, claim, req>>
  /\ UNCHANGED <<ids, opted, late>>

\* Mutation: consent is asked once per user, not once per message.
MessageDoneNoCheck(j) ==
  /\ job[j].pc = "clean"
  /\ job[j].dead = {}
  /\ job' = [job EXCEPT ![j].pc = IF job[j].left > 1 THEN "devices" ELSE "next",
                         ![j].left = @ - 1, ![j].seen = {}]
  /\ UNCHANGED <<dev, ids, opted, req, claim, late>>

\* Mutation: the message stays in the queue.
MessageDoneAgain(j) ==
  /\ job[j].pc = "clean"
  /\ job[j].dead = {}
  /\ job' = [job EXCEPT ![j].pc = IF job[j].left > 1 THEN "consent" ELSE "next", ![j].seen = {}]
  /\ UNCHANGED <<dev, ids, opted, req, claim, late>>

\* _send_and_cleanup returns; the trigger asks again before the next message.
MessageDone(j) ==
  /\ job[j].pc = "clean"
  /\ job[j].dead = {}
  /\ job' = [job EXCEPT ![j].pc = IF job[j].left > 1 THEN "consent" ELSE "next",
                         ![j].left = @ - 1, ![j].seen = {}]
  /\ UNCHANGED <<dev, ids, opted, req, claim, late>>

\* The connection or the process fails.
AbortJob(j) ==
  /\ job[j].pc # "idle"
  /\ job' = [job EXCEPT ![j] = NoJob]
  /\ UNCHANGED <<dev, ids, opted, req, claim, late>>

Step(j) ==
  \/ NextUser(j) \/ CheckConsent(j) \/ HandOver(j) \/ Report(j)
  \/ MarkRead(j) \/ MarkCommit(j) \/ MessageDone(j)

Next ==
  \/ \E r \in Req, u \in User, t \in Token : RegisterRead(r, u, t) \/ RemoveRead(r, u, t)
  \/ \E r \in Req : \/ RegisterInsert(r) \/ RegisterUpdate(r) \/ RemoveCommit(r)
                     \/ Conflict(r) \/ EndRequest(r)
  \/ \E u \in User : Opt(u)
  \/ \E j \in Job, u \in User, asks \in BOOLEAN : StartSend(j, u, asks)
  \/ \E j \in Job, U \in SUBSET User : StartTrigger(j, U)
  \/ \E j \in Job : Step(j) \/ AbortJob(j)

\* The event loop runs every job that can go on, and send_to_tokens returns
\* (FcmSend!CallReturns).  Clients owe nothing.
Spec == Init /\ [][Next]_vars /\ \A j \in Job : WF_vars(Step(j))
------------------------------------------------------------------------------
(* Properties *)

Row == [id : 1..MaxId, user : User, revoked : BOOLEAN]

\* A request in flight, and which of its fields its pc fills.
Request ==
  {q \in [pc : {"idle", "insert", "update", "transfer", "remove", "failed"},
          user : User \cup {None}, tok : Token \cup {None}, id : 0..MaxId,
          off : BOOLEAN, hit : BOOLEAN] :
     q.pc \in {"insert", "update", "transfer", "remove"} => q.user \in User /\ q.tok \in Token}

\* A job in flight, and which of its fields its pc fills.
Sending ==
  {b \in [pc : {"idle", "next", "consent", "devices", "sending", "clean", "mark"},
          asks : BOOLEAN, todo : SUBSET User, user : User \cup {None}, left : 0..MaxMsg,
          seen : SUBSET (Token \X (1..MaxId)), dead : SUBSET Token,
          tok : Token \cup {None}, id : 0..MaxId] :
     /\ b.pc \in {"consent", "devices", "sending", "clean", "mark"} => b.user \in User /\ b.left > 0
     /\ b.pc = "mark" => b.tok \in Token}

TypeOK ==
  /\ dev \in [Token -> Row \cup {None}]
  /\ ids \in 0..MaxId
  /\ opted \in [User -> BOOLEAN]
  /\ req \in [Req -> Request]
  /\ job \in [Job -> Sending]
  /\ claim \in [Token -> User \cup {None}]
  /\ late \in [User -> Nat]

\* A registration that was acknowledged holds: the token stays registered,
\* active, for the user who registered it last, until a request removes it or a
\* job revokes it, whatever is in flight.  (A job that revokes it while the
\* registration is in flight may win: the UPDATE does not set revoked_at back
\* when it has loaded NULL.)
ClaimHolds ==
  \A t \in Token : claim[t] # None =>
    dev[t] # None /\ dev[t].user = claim[t] /\ ~dev[t].revoked

\* After a user has opted out, each job in flight hands over one message at
\* most, the one it has checked the consent for; the trigger's next messages
\* and later jobs are skipped (send_to_user: NOT_OPTED_IN).
LateBound == \A u \in User : late[u] <= Cardinality(Job)

\* The trigger run ends, whatever Firebase reports and clients do meanwhile.
JobReturns == \A j \in Job : job[j].pc # "idle" ~> job[j].pc = "idle"

\* A registration that fails has been overtaken: the token has a newer row than the one it
\* found (or none, for a first one), of another registration acknowledged meanwhile; or,
\* when it had found its own user's row, that row has been removed meanwhile.  A transfer is
\* not failed by a removal, and no registration fails on the row it has found.  (The docstring
\* of device_service promises that none fails, "PostgreSQL ON CONFLICT 으로 race-safe
\* 보장"; there is no ON CONFLICT.)
FailsOnlyRaced ==
  [][\A r \in Req :
       req[r].pc # "failed" /\ req'[r].pc = "failed" =>
         \/ dev[req[r].tok] # None /\ dev[req[r].tok].id > req[r].id
         \/ dev[req[r].tok] = None /\ req[r].pc = "update"]_vars

\* Requests and jobs that read, wait and write in any order leave the table as registrations,
\* removals and revocations done at once would: a holder changes only by a registration under
\* a new device_id or a removal, never by an UPDATE, and what was acknowledged is so.
Registry == INSTANCE DeviceRegistry WITH Id <- 1..MaxId, held <- dev, given <- 1..ids

RegistrySpec == Registry!Spec

\* The work a job still has, in the order in which it is done: users, then messages, then the
\* stages of one message, then dead tokens.
Stage(b) == IF b.pc = "consent" THEN 4 ELSE IF b.pc = "devices" THEN 3 ELSE IF b.pc = "sending" THEN 2 ELSE 1

InMessage(b) == b.pc # "next"

Below(a, b) ==
  \/ a.todo \subseteq b.todo /\ a.todo # b.todo
  \/ /\ a.todo = b.todo
     /\ \/ ~InMessage(a) /\ InMessage(b)
        \/ /\ InMessage(a) /\ InMessage(b)
           /\ \/ a.left < b.left
              \/ /\ a.left = b.left
                 /\ \/ Stage(a) < Stage(b)
                    \/ /\ Stage(a) = Stage(b)
                       /\ \/ a.dead \subseteq b.dead /\ a.dead # b.dead
                          \/ a.dead = b.dead /\ a.pc = "clean" /\ b.pc = "mark"

\* A job gets no new work: whatever clients and other jobs do, each of its steps (the loop of
\* run_watchlist_trigger over users, messages and dead tokens) either ends it or leaves it less
\* to do, so that it cannot go round in a circle.
JobDescends ==
  [][\A j \in Job : job[j].pc # "idle" /\ job'[j] # job[j] =>
       job'[j].pc = "idle" \/ Below(job'[j], job[j])]_vars
------------------------------------------------------------------------------
(* The inductive invariants behind ClaimHolds and LateBound. *)

\* A registration in flight that no job has overtaken would leave an active row:
\* what it loaded is still there, or it will not commit.
ClaimInv ==
  /\ TypeOK
  /\ ClaimHolds
  /\ \A t \in Token : dev[t] # None => dev[t].id <= ids
  /\ \A r \in Req :
       /\ req[r].id <= ids
       /\ req[r].pc = "update" /\ Is(req[r].tok, req[r].id) =>
            /\ dev[req[r].tok].user = req[r].user
            /\ req[r].off \/ req[r].hit \/ ~dev[req[r].tok].revoked

\* A transfer whose row is still there takes it from another user.
ForeignInv ==
  \A r \in Req :
    req[r].pc = "transfer" /\ Is(req[r].tok, req[r].id) => dev[req[r].tok].user # req[r].user

Cleared(u) == {j \in Job : job[j].pc = "devices" /\ job[j].asks /\ job[j].user = u}

LateInv ==
  /\ TypeOK
  /\ \A u \in User : IF opted[u] THEN late[u] = 0
                      ELSE late[u] + Cardinality(Cleared(u)) <= Cardinality(Job)
==============================================================================
