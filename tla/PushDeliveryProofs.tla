------------------------- MODULE PushDeliveryProofs --------------------------
(***************************************************************************)
(* Proofs about PushDelivery, for any number of users, tokens, requests    *)
(* and jobs: ClaimHolds, LateBound and FailsOnlyRaced; the refinement of   *)
(* DeviceRegistry; and that a job has a bounded number of steps.           *)
(***************************************************************************)
EXTENDS PushDelivery, FiniteSetTheorems, TLAPS

USE PushNone, PushBounds

\* None is no row.
LEMMA RowNotNone == \A x \in Row : x # None
BY NoRow DEF Row

\* The records of an empty slot have their types.
LEMMA NoReqType == NoReq \in Request
BY DEF NoReq, Ask, Request

\* A free slot is a job of the right type.
LEMMA NoJobType == NoJob \in Sending
BY DEF NoJob, Send, Sending

\* The types hold in the initial state.
LEMMA TypeInit == Init => TypeOK
BY NoReqType, NoJobType DEF Init, TypeOK

\* Every step of a client keeps the types.
LEMMA ClientType ==
  ASSUME TypeOK,
         \/ \E r \in Req, u \in User, t \in Token : RegisterRead(r, u, t) \/ RemoveRead(r, u, t)
         \/ \E r \in Req : \/ RegisterInsert(r) \/ RegisterUpdate(r) \/ RemoveCommit(r)
                           \/ Conflict(r) \/ EndRequest(r)
         \/ \E u \in User : Opt(u)
  PROVE  TypeOK'
<1> USE NoReqType DEF TypeOK
<1>row. ASSUME NEW t \in Token, dev[t] # None
        PROVE  dev[t].id \in 1..MaxId /\ dev[t].user \in User /\ dev[t].revoked \in BOOLEAN
  BY <1>row DEF Row
<1>req. ASSUME NEW r \in Req, req[r].pc \in {"insert", "update", "transfer", "remove"}
        PROVE  req[r].user \in User /\ req[r].tok \in Token
  BY <1>req DEF Request
<1>1. ASSUME NEW r \in Req, NEW u \in User, NEW t \in Token, RegisterRead(r, u, t) PROVE TypeOK'
  <2>1. Ask("insert", u, t, 0, FALSE) \in Request
    BY DEF Ask, Request
  <2>2. ASSUME dev[t] # None
        PROVE  Ask(IF dev[t].user = u THEN "update" ELSE "transfer",
                   u, t, dev[t].id, dev[t].revoked) \in Request
    BY <2>2, <1>row DEF Ask, Request
  <2> QED BY <1>1, <2>1, <2>2 DEF RegisterRead
<1>2. ASSUME NEW r \in Req, NEW u \in User, NEW t \in Token, RemoveRead(r, u, t) PROVE TypeOK'
  <2>1. Ask("remove", u, t, dev[t].id, FALSE) \in Request
    BY <1>2, <1>row DEF RemoveRead, Ask, Request
  <2> QED BY <1>2, <2>1 DEF RemoveRead
<1>3. ASSUME NEW r \in Req, RegisterInsert(r) PROVE TypeOK'
  <2>1. NewRow(req[r].user) \in Row /\ req[r].user \in User /\ ids + 1 \in 0..MaxId
    BY <1>3, <1>req DEF RegisterInsert, NewRow, Row
  <2> QED BY <1>3, <2>1 DEF RegisterInsert
<1>4. ASSUME NEW r \in Req, RegisterUpdate(r) PROVE TypeOK'
  <2> DEFINE t == req[r].tok
  <2>1. t \in Token /\ req[r].user \in User /\ dev[t] \in Row
    BY <1>4, <1>req DEF RegisterUpdate, Is
  <2>2. req[r].off \in BOOLEAN
    BY DEF Request
  <2>3. [dev[t] EXCEPT !.revoked = IF req[r].off THEN FALSE ELSE @] \in Row
    BY <2>1, <2>2 DEF Row
  <2> QED BY <1>4, <2>1, <2>3 DEF RegisterUpdate
<1>5. ASSUME NEW r \in Req, RemoveCommit(r) PROVE TypeOK'
  BY <1>5 DEF RemoveCommit
<1>6. ASSUME NEW r \in Req, Conflict(r) PROVE TypeOK'
  <2>1. Ask("failed", None, None, 0, FALSE) \in Request
    BY DEF Ask, Request
  <2> QED BY <1>6, <2>1 DEF Conflict
<1>7. ASSUME NEW r \in Req, EndRequest(r) PROVE TypeOK'
  BY <1>7 DEF EndRequest
<1>8. ASSUME NEW u \in User, Opt(u) PROVE TypeOK'
  BY <1>8 DEF Opt
<1> QED BY <1>1, <1>2, <1>3, <1>4, <1>5, <1>6, <1>7, <1>8

\* Every step of a job keeps the types.
LEMMA JobType ==
  ASSUME TypeOK,
         \/ \E j \in Job, u \in User, asks \in BOOLEAN : StartSend(j, u, asks)
         \/ \E j \in Job, U \in SUBSET User : StartTrigger(j, U)
         \/ \E j \in Job : Step(j) \/ AbortJob(j)
  PROVE  TypeOK'
<1> USE NoJobType DEF TypeOK
<1>j. ASSUME NEW j \in Job PROVE job[j] \in Sending
  OBVIOUS
<1>1. ASSUME NEW j \in Job, NEW u \in User, NEW asks \in BOOLEAN, StartSend(j, u, asks) PROVE TypeOK'
  <2>1. Send(IF asks THEN "consent" ELSE "devices", asks, {}, u, 1) \in Sending
    BY DEF Send, Sending
  <2> QED BY <1>1, <2>1 DEF StartSend
<1>2. ASSUME NEW j \in Job, NEW U \in SUBSET User, StartTrigger(j, U) PROVE TypeOK'
  <2>1. Send("next", TRUE, U, None, 0) \in Sending
    BY DEF Send, Sending
  <2> QED BY <1>2, <2>1 DEF StartTrigger
<1>3. ASSUME NEW j \in Job, NextUser(j) PROVE TypeOK'
  <2>1. ASSUME NEW u \in job[j].todo, NEW n \in 1..MaxMsg
        PROVE  Send("consent", TRUE, job[j].todo \ {u}, u, n) \in Sending
    BY <1>j DEF Send, Sending
  <2>2. job'[j] \in Sending
    <3>1. CASE job[j].todo = {} /\ job' = [job EXCEPT ![j] = NoJob]
      BY <3>1
    <3>2. ASSUME NEW u \in job[j].todo, NEW n \in 1..MaxMsg,
                 job' = [job EXCEPT ![j] = Send("consent", TRUE, job[j].todo \ {u}, u, n)]
          PROVE  job'[j] \in Sending
      BY <2>1, <3>2
    <3> QED BY <1>3, <3>1, <3>2 DEF NextUser
  <2> QED BY <1>3, <2>2 DEF NextUser
<1>4. ASSUME NEW j \in Job, CheckConsent(j) PROVE TypeOK'
  <2>1. job'[j] \in Sending
    BY <1>4, <1>j DEF CheckConsent, Sending
  <2> QED BY <1>4, <2>1 DEF CheckConsent
<1>5. ASSUME NEW j \in Job, HandOver(j) PROVE TypeOK'
  <2>1. {<<t, dev[t].id>> : t \in ActiveOf(job[j].user)} \in SUBSET (Token \X (1..MaxId))
    BY DEF ActiveOf, Row
  <2>2. job'[j] \in Sending
    BY <1>5, <1>j, <2>1 DEF HandOver, Sending
  <2>3. late' \in [User -> Nat]
    BY <1>5 DEF HandOver
  <2> QED BY <1>5, <2>2, <2>3 DEF HandOver
<1>6. ASSUME NEW j \in Job, Report(j) PROVE TypeOK'
  <2>1. {s[1] : s \in job[j].seen} \in SUBSET Token
    BY <1>j DEF Sending
  <2>2. job'[j] \in Sending
    <3>1. PICK D \in SUBSET {s[1] : s \in job[j].seen} :
            job' = [job EXCEPT ![j].pc = "clean", ![j].dead = D]
      BY <1>6 DEF Report
    <3>2. D \in SUBSET Token /\ job[j].pc = "sending" /\ job[j] \in Sending
      BY <1>6, <1>j, <2>1 DEF Report
    <3> QED BY <3>1, <3>2 DEF Sending
  <2> QED BY <1>6, <2>2 DEF Report
<1>7. ASSUME NEW j \in Job, MarkRead(j) PROVE TypeOK'
  <2>1. PICK t \in job[j].dead :
          IF dev[t] = None \/ (dev[t].revoked /\ <<t, dev[t].id>> \notin job[j].seen)
          THEN job' = [job EXCEPT ![j].dead = @ \ {t}]
          ELSE job' = [job EXCEPT ![j].pc = "mark", ![j].dead = @ \ {t},
                                  ![j].tok = t, ![j].id = dev[t].id]
    BY <1>7 DEF MarkRead
  <2>2. t \in Token /\ job[j].pc = "clean"
    BY <1>7, <1>j DEF MarkRead, Sending
  <2>3. dev[t] # None => dev[t].id \in 0..MaxId
    BY <2>2 DEF Row
  <2>4. job'[j] \in Sending
    <3> job[j] \in Sending
      BY <1>j
    <3>1. CASE job' = [job EXCEPT ![j].dead = @ \ {t}]
      BY <3>1 DEF Sending
    <3>2. CASE /\ dev[t] # None
               /\ job' = [job EXCEPT ![j].pc = "mark", ![j].dead = @ \ {t},
                                    ![j].tok = t, ![j].id = dev[t].id]
      <4>1. dev[t].id \in 0..MaxId
        BY <3>2, <2>3
      <4> QED BY <3>2, <4>1, <2>2 DEF Sending
    <3> QED BY <2>1, <3>1, <3>2
  <2> QED BY <1>7, <2>4 DEF MarkRead
<1>8. ASSUME NEW j \in Job, MarkCommit(j) PROVE TypeOK'
  <2>1. job'[j] \in Sending
    BY <1>8, <1>j DEF MarkCommit, Sending
  <2> DEFINE t == job[j].tok
  <2>2. ASSUME NEW r \in Req PROVE [req[r] EXCEPT !.hit = TRUE] \in Request
    <3>1. req[r] \in Request
      OBVIOUS
    <3> QED BY <3>1 DEF Request
  <2>3. t \in Token
    BY <1>8, <1>j DEF MarkCommit, Sending
  <2>4. dev' \in [Token -> Row \cup {None}]
    <3>1. CASE dev' = dev
      BY <3>1
    <3>2. CASE Is(t, job[j].id) /\ dev' = [dev EXCEPT ![t].revoked = TRUE]
      <4>1. dev[t] \in Row
        BY <2>3, <3>2 DEF Is
      <4>2. [dev[t] EXCEPT !.revoked = TRUE] \in Row
        BY <4>1 DEF Row
      <4> QED BY <2>3, <3>2, <4>2
    <3> QED BY <1>8, <3>1, <3>2 DEF MarkCommit
  <2>5. req' \in [Req -> Request]
    BY <1>8, <2>2 DEF MarkCommit
  <2>7. claim' \in [Token -> User \cup {None}]
    BY <1>8, <2>3 DEF MarkCommit
  <2>6. job' \in [Job -> Sending]
    BY <1>8, <2>1 DEF MarkCommit
  <2> QED BY <1>8, <2>4, <2>5, <2>6, <2>7 DEF MarkCommit
<1>9. ASSUME NEW j \in Job, MessageDone(j) PROVE TypeOK'
  <2>1. job'[j] \in Sending
    BY <1>9, <1>j DEF MessageDone, Sending
  <2> QED BY <1>9, <2>1 DEF MessageDone
<1>10. ASSUME NEW j \in Job, AbortJob(j) PROVE TypeOK'
  BY <1>10 DEF AbortJob
<1> QED BY <1>1, <1>2, <1>3, <1>4, <1>5, <1>6, <1>7, <1>8, <1>9, <1>10 DEF Step

\* Every step keeps the types.
LEMMA TypeStep == TypeOK /\ [Next]_vars => TypeOK'
<1> SUFFICES ASSUME TypeOK, [Next]_vars PROVE TypeOK'
  OBVIOUS
<1>1. CASE UNCHANGED vars
  BY <1>1 DEF vars, TypeOK
<1> QED BY <1>1, ClientType, JobType DEF Next

\* The steps of a job other than MarkCommit write nothing that a registration
\* reads.
JobFrame(j) ==
  \/ \E u \in User, asks \in BOOLEAN : StartSend(j, u, asks)
  \/ \E U \in SUBSET User : StartTrigger(j, U)
  \/ NextUser(j) \/ CheckConsent(j) \/ HandOver(j) \/ Report(j) \/ MarkRead(j)
  \/ MessageDone(j) \/ AbortJob(j)

\* Such a step leaves the devices, the requests and the claims as they are.
LEMMA JobFrameKeeps ==
  ASSUME NEW j \in Job, JobFrame(j)
  PROVE  UNCHANGED <<dev, ids, opted, req, claim>>
BY DEF JobFrame, StartSend, StartTrigger, NextUser, CheckConsent, HandOver, Report, MarkRead,
       MessageDone, AbortJob

\* What ClaimInv says of one request.
Fresh(r) ==
  /\ req[r].id <= ids
  /\ req[r].pc = "update" /\ Is(req[r].tok, req[r].id) =>
       /\ dev[req[r].tok].user = req[r].user
       /\ req[r].off \/ req[r].hit \/ ~dev[req[r].tok].revoked

\* ClaimInv is inductive.  An inserted row has an id no request has read; an
\* update can only clear revoked_at; a mark that sets it leaves its trace in the
\* requests that have read the row.
LEMMA ClaimStep == ClaimInv /\ [Next]_vars => ClaimInv'
<1> SUFFICES ASSUME ClaimInv, [Next]_vars PROVE ClaimInv'
  OBVIOUS
<1> TypeOK /\ TypeOK'
  BY TypeStep DEF ClaimInv
<1>old. /\ \A t \in Token : claim[t] # None =>
             dev[t] # None /\ dev[t].user = claim[t] /\ ~dev[t].revoked
        /\ \A t \in Token : dev[t] # None => dev[t].id <= ids
        /\ \A r \in Req : Fresh(r)
  BY DEF ClaimInv, ClaimHolds, Fresh
<1>typ. /\ \A t \in Token : dev[t] # None => dev[t].id \in Nat /\ dev[t].user \in User
        /\ \A r \in Req : /\ req[r].id \in Nat
                          /\ req[r].pc \in {"insert", "update", "transfer", "remove"} =>
                               req[r].user \in User /\ req[r].tok \in Token
        /\ ids \in Nat
  BY DEF TypeOK, Row, Request
<1> DEFINE New == /\ \A t \in Token : claim'[t] # None =>
                       dev'[t] # None /\ dev'[t].user = claim'[t] /\ ~dev'[t].revoked
                  /\ \A t \in Token : dev'[t] # None => dev'[t].id <= ids'
                  /\ \A r \in Req : Fresh(r)'
<1>new. SUFFICES New
  BY DEF ClaimInv, ClaimHolds, Fresh
<1>frame. CASE UNCHANGED <<dev, ids, req, claim>>
  BY <1>frame, <1>old DEF Fresh, Is
<1> USE DEF TypeOK
<1>1. ASSUME NEW r \in Req, NEW u \in User, NEW t \in Token, RegisterRead(r, u, t) PROVE New
  <2>1. UNCHANGED <<dev, ids, claim>> /\ \A q \in Req \ {r} : req'[q] = req[q]
    BY <1>1 DEF RegisterRead
  <2>2. Fresh(r)'
    BY <1>1, <1>old, <1>typ DEF RegisterRead, Fresh, Is, Ask
  <2>3. ASSUME NEW q \in Req \ {r} PROVE Fresh(q)'
    BY <2>1, <1>old DEF Fresh, Is
  <2> QED BY <1>old, <2>1, <2>2, <2>3
<1>2. ASSUME NEW r \in Req, NEW u \in User, NEW t \in Token, RemoveRead(r, u, t) PROVE New
  <2>1. UNCHANGED <<dev, ids, claim>> /\ \A q \in Req \ {r} : req'[q] = req[q]
    BY <1>2 DEF RemoveRead
  <2>2. Fresh(r)'
    BY <1>2, <1>old, <1>typ DEF RemoveRead, Fresh, Is, Ask
  <2>3. ASSUME NEW q \in Req \ {r} PROVE Fresh(q)'
    BY <2>1, <1>old DEF Fresh, Is
  <2> QED BY <1>old, <2>1, <2>2, <2>3
<1>3. ASSUME NEW r \in Req, RegisterInsert(r) PROVE New
  <2> DEFINE t == req[r].tok
  <2>1. /\ t \in Token /\ req[r].user \in User /\ ids' = ids + 1
        /\ dev' = [dev EXCEPT ![t] = NewRow(req[r].user)]
        /\ claim' = [claim EXCEPT ![t] = req[r].user]
        /\ req' = [req EXCEPT ![r] = NoReq]
    BY <1>3, <1>typ DEF RegisterInsert
  <2>2. dev'[t] # None /\ dev'[t].id = ids + 1 /\ dev'[t].user = req[r].user /\ ~dev'[t].revoked
    <3>1. NewRow(req[r].user) \in Row
      BY <1>3, <2>1, <1>typ DEF RegisterInsert, NewRow, Row
    <3>2. dev'[t] = NewRow(req[r].user)
      BY <2>1
    <3>3. NewRow(req[r].user) # None
      BY <3>1, RowNotNone
    <3> QED BY <3>2, <3>3 DEF NewRow
  <2>3. \A v \in Token \ {t} : dev'[v] = dev[v] /\ claim'[v] = claim[v]
    BY <2>1
  <2>4. Fresh(r)'
    BY <2>1, <1>typ DEF Fresh, NoReq, Ask
  <2>5. ASSUME NEW q \in Req \ {r} PROVE Fresh(q)'
    <3>1. req'[q] = req[q] /\ req[q].id <= ids /\ req[q].id \in Nat
      BY <2>1, <1>old, <1>typ DEF Fresh
    <3>2. CASE req[q].pc # "update"
      BY <3>1, <3>2, <2>1, <1>typ DEF Fresh
    <3>3. CASE req[q].pc = "update" /\ req[q].tok = t
      BY <3>1, <3>3, <2>1, <2>2, <1>typ DEF Fresh, Is
    <3>4. CASE req[q].pc = "update" /\ req[q].tok # t
      BY <3>1, <3>4, <2>1, <2>3, <1>old, <1>typ DEF Fresh, Is
    <3> QED BY <3>2, <3>3, <3>4
  <2> QED BY <1>old, <1>typ, <2>1, <2>2, <2>3, <2>4, <2>5
<1>4. ASSUME NEW r \in Req, RegisterUpdate(r) PROVE New
  <2> DEFINE t == req[r].tok
  <2>1. /\ t \in Token /\ ids' = ids /\ Is(t, req[r].id) /\ req[r].pc = "update"
        /\ dev' = [dev EXCEPT ![t].revoked = IF req[r].off THEN FALSE ELSE @]
        /\ claim' = [claim EXCEPT ![t] = IF req[r].hit THEN None ELSE req[r].user]
        /\ req' = [req EXCEPT ![r] = NoReq]
    BY <1>4, <1>typ DEF RegisterUpdate
  <2>2. dev[t] \in Row /\ dev[t] # None
    BY <2>1 DEF Is
  <2>3. /\ dev'[t] # None /\ dev'[t].id = dev[t].id /\ dev'[t].user = dev[t].user
        /\ req[r].off => ~dev'[t].revoked
        /\ ~dev[t].revoked => ~dev'[t].revoked
    <3>1. dev'[t] = [dev[t] EXCEPT !.revoked = IF req[r].off THEN FALSE ELSE @]
      BY <2>1
    <3>2. dev'[t] \in Row \cup {None} /\ dev[t] \in Row
      BY <2>1, <2>2
    <3>3. [dev[t] EXCEPT !.revoked = IF req[r].off THEN FALSE ELSE @] \in Row
      BY <3>2, <2>1 DEF Row, Request
    <3> QED BY <3>1, <3>2, <3>3, RowNotNone DEF Row
  <2>4. \A v \in Token \ {t} : dev'[v] = dev[v] /\ claim'[v] = claim[v]
    BY <2>1
  <2>5. dev[t].user = req[r].user /\ (req[r].off \/ req[r].hit \/ ~dev[t].revoked)
    BY <2>1, <1>old DEF Fresh
  <2>6. Fresh(r)'
    BY <2>1, <1>typ DEF Fresh, NoReq, Ask
  <2>7. ASSUME NEW q \in Req \ {r} PROVE Fresh(q)'
    <3>1. req'[q] = req[q]
      BY <2>1
    <3>2. CASE req[q].pc # "update"
      BY <3>1, <3>2, <2>1, <1>old DEF Fresh
    <3>3. CASE req[q].pc = "update" /\ req[q].tok = t
      <4>1. SUFFICES ASSUME dev'[t].id = req[q].id
                     PROVE  /\ dev'[t].user = req[q].user
                            /\ req[q].off \/ req[q].hit \/ ~dev'[t].revoked
        BY <3>1, <3>3, <2>1, <1>old DEF Fresh, Is
      <4>2. dev[t].user = req[q].user /\ (req[q].off \/ req[q].hit \/ ~dev[t].revoked)
        BY <4>1, <3>3, <2>2, <2>3, <1>old DEF Fresh, Is
      <4> QED BY <4>2, <2>3
    <3>4. CASE req[q].pc = "update" /\ req[q].tok # t
      BY <3>1, <3>4, <2>1, <2>4, <1>old, <1>typ DEF Fresh, Is
    <3> QED BY <3>2, <3>3, <3>4
  <2>8. claim'[t] # None => ~dev'[t].revoked /\ dev'[t].user = claim'[t]
    BY <2>1, <2>3, <2>5
  <2>9. \A v \in Token : claim'[v] # None =>
          dev'[v] # None /\ dev'[v].user = claim'[v] /\ ~dev'[v].revoked
    BY <1>old, <2>3, <2>4, <2>8
  <2>10. \A v \in Token : dev'[v] # None => dev'[v].id <= ids'
    <3>1. dev'[t].id <= ids'
      BY <1>old, <2>1, <2>2, <2>3
    <3>2. \A v \in Token \ {t} : dev'[v] # None => dev'[v].id <= ids'
      BY <1>old, <2>1, <2>4
    <3> QED BY <3>1, <3>2
  <2>11. \A q \in Req : Fresh(q)'
    BY <2>6, <2>7
  <2> QED BY <2>9, <2>10, <2>11
<1>5. ASSUME NEW r \in Req, RemoveCommit(r) PROVE New
  <2>1. /\ \A v \in Token : dev'[v] = None \/ dev'[v] = dev[v]
        /\ \A v \in Token : claim'[v] = None \/ (claim'[v] = claim[v] /\ dev'[v] = dev[v])
        /\ ids' = ids /\ req' = [req EXCEPT ![r] = NoReq]
    BY <1>5, <1>typ DEF RemoveCommit
  <2>2. ASSUME NEW q \in Req PROVE Fresh(q)'
    <3>1. CASE q = r
      BY <2>1, <3>1, <1>typ DEF Fresh, NoReq, Ask
    <3>2. CASE q # r
      BY <2>1, <3>2, <1>old, <1>typ DEF Fresh, Is
    <3> QED BY <3>1, <3>2
  <2> QED BY <1>old, <2>1, <2>2
<1>6. ASSUME NEW r \in Req, Conflict(r) \/ EndRequest(r) PROVE New
  <2>1. /\ UNCHANGED <<dev, ids, claim>> /\ \A q \in Req \ {r} : req'[q] = req[q]
        /\ req'[r].pc # "update" /\ req'[r].id = 0
    BY <1>6 DEF Conflict, EndRequest, NoReq, Ask
  <2>2. ASSUME NEW q \in Req PROVE Fresh(q)'
    BY <2>1, <1>old, <1>typ DEF Fresh, Is
  <2> QED BY <1>old, <2>1, <2>2
<1>7. ASSUME NEW u \in User, Opt(u) PROVE New
  BY <1>7, <1>frame DEF Opt
<1>8. ASSUME NEW j \in Job, JobFrame(j) PROVE New
  BY <1>8, <1>frame, JobFrameKeeps
<1>9. ASSUME NEW j \in Job, MarkCommit(j) PROVE New
  <2> DEFINE t == job[j].tok
  <2>1. CASE ~Is(t, job[j].id)
    BY <2>1, <1>9, <1>frame DEF MarkCommit
  <2>2. CASE Is(t, job[j].id)
    <3>1. /\ dev' = [dev EXCEPT ![t].revoked = TRUE] /\ ids' = ids
          /\ claim' = [claim EXCEPT ![t] = None]
          /\ req' = [r \in Req |-> IF req[r].pc = "update" /\ req[r].tok = t
                                   THEN [req[r] EXCEPT !.hit = TRUE] ELSE req[r]]
      BY <2>2, <1>9 DEF MarkCommit
    <3>2. t \in Token /\ dev[t] \in Row /\ dev[t] # None
      <4>1. t \in Token
        BY <1>9 DEF MarkCommit, Sending
      <4> QED BY <4>1, <2>2 DEF Is
    <3>3. dev'[t] # None /\ dev'[t].id = dev[t].id /\ dev'[t].user = dev[t].user
      <4>1. dev'[t] = [dev[t] EXCEPT !.revoked = TRUE]
        BY <3>1, <3>2
      <4>2. [dev[t] EXCEPT !.revoked = TRUE] \in Row
        BY <3>2 DEF Row
      <4> QED BY <4>1, <4>2, <3>2, RowNotNone DEF Row
    <3>4. \A v \in Token \ {t} : dev'[v] = dev[v] /\ claim'[v] = claim[v]
      BY <3>1
    <3>5. claim'[t] = None
      BY <3>1, <3>2
    <3>6. ASSUME NEW q \in Req PROVE Fresh(q)'
      <4>1. CASE req[q].pc = "update" /\ req[q].tok = t
        <5>1. req[q] \in Request
          OBVIOUS
        <5>2. /\ req'[q].pc = "update" /\ req'[q].tok = t /\ req'[q].hit
              /\ req'[q].id = req[q].id /\ req'[q].user = req[q].user
          BY <3>1, <4>1, <5>1 DEF Request
        <5> QED BY <5>2, <4>1, <3>1, <3>2, <3>3, <1>old DEF Fresh, Is
      <4>2. CASE req[q].pc # "update"
        BY <4>2, <3>1, <1>old DEF Fresh
      <4>3. CASE req[q].pc = "update" /\ req[q].tok # t
        BY <4>3, <3>1, <3>4, <1>old, <1>typ DEF Fresh, Is
      <4> QED BY <4>1, <4>2, <4>3
    <3> QED BY <1>old, <3>1, <3>2, <3>3, <3>4, <3>5, <3>6
  <2> QED BY <2>1, <2>2
<1>10. CASE UNCHANGED vars
  BY <1>10, <1>frame DEF vars
<1> QED BY <1>1, <1>2, <1>3, <1>4, <1>5, <1>6, <1>7, <1>8, <1>9, <1>10 DEF Next, Step, JobFrame

\* The registrations in the initial state.
LEMMA ClaimInit == Init => ClaimInv
<1> SUFFICES ASSUME Init PROVE ClaimInv
  OBVIOUS
<1>1. TypeOK
  BY TypeInit
<1>2. \A t \in Token : dev[t] = None /\ claim[t] = None
  BY DEF Init
<1>3. \A r \in Req : req[r].id = 0 /\ req[r].pc = "idle"
  BY DEF Init, NoReq, Ask
<1> QED BY <1>1, <1>2, <1>3 DEF ClaimInv, ClaimHolds, Init

\* Whatever the users, app instances, requests and jobs in flight: a token whose
\* registration was acknowledged stays registered and active for its user until
\* a request removes it or a job revokes it (register_device, remove_device,
\* mark_token_revoked).
THEOREM RegistrationHolds == Spec => []ClaimHolds
<1>1. ClaimInv => ClaimHolds
  BY DEF ClaimInv
<1> QED BY <1>1, ClaimInit, ClaimStep, PTL DEF Spec
------------------------------------------------------------------------------
(* Messages after an opt-out *)

\* The jobs LateInv counts are finitely many.
LEMMA ClearedFinite ==
  ASSUME NEW C \in SUBSET Job
  PROVE  /\ IsFiniteSet(C) /\ Cardinality(C) \in Nat
         /\ Cardinality(Job) \in Nat /\ Cardinality(C) <= Cardinality(Job)
BY FS_Subset, FS_CardinalityType, PushSlots

\* What LateInv says of one user.
Counted(u) == IF opted[u] THEN late[u] = 0
              ELSE late[u] + Cardinality(Cleared(u)) <= Cardinality(Job)

\* A step that hands nothing over, and clears no job for an opted-out user,
\* keeps the count.
LEMMA CountFrame ==
  ASSUME TypeOK, NEW u \in User, Counted(u), late'[u] = late[u], opted'[u] = opted[u],
         opted[u] \/ Cleared(u)' \subseteq Cleared(u)
  PROVE  Counted(u)'
<1>1. Cleared(u) \in SUBSET Job /\ late[u] \in Nat
  BY DEF Cleared, TypeOK
<1>2. CASE opted[u]
  BY <1>2 DEF Counted
<1>3. CASE ~opted[u]
  <2>1. Cardinality(Cleared(u)') <= Cardinality(Cleared(u)) /\ Cleared(u)' \in SUBSET Job
    BY <1>1, <1>3, ClearedFinite, FS_Subset
  <2> QED BY <1>1, <1>3, <2>1, ClearedFinite DEF Counted
<1> QED BY <1>2, <1>3

\* The job that hands a message over is no longer cleared for the next one.
LEMMA HandOverCount ==
  ASSUME TypeOK, NEW u \in User, NEW j \in Job, Counted(u), HandOver(j)
  PROVE  Counted(u)'
<1>1. opted' = opted /\ job[j].pc = "devices" /\ job[j] \in Sending
  BY DEF HandOver, TypeOK
<1>2. \A i \in Job \ {j} : job'[i] = job[i]
  BY DEF HandOver, TypeOK
<1>3. job'[j].pc \in {"next", "sending"}
  BY <1>1 DEF HandOver, TypeOK, Sending
<1>4. Cleared(u)' = Cleared(u) \ {j} /\ Cleared(u) \in SUBSET Job
  BY <1>2, <1>3 DEF Cleared
<1>5. CASE late'[u] = late[u]
  BY <1>1, <1>4, <1>5, CountFrame
<1>6. CASE late'[u] # late[u]
  <2>1. late'[u] = late[u] + 1 /\ ~opted[u] /\ j \in Cleared(u) /\ late[u] \in Nat
    BY <1>1, <1>6 DEF HandOver, Cleared, TypeOK
  <2>2. Cardinality(Cleared(u)') = Cardinality(Cleared(u)) - 1
    BY <1>4, <2>1, ClearedFinite, FS_RemoveElement
  <2>3. Cardinality(Cleared(u)) \in Nat /\ Cardinality(Job) \in Nat
    BY <1>4, ClearedFinite
  <2> QED BY <1>1, <2>1, <2>2, <2>3 DEF Counted
<1> QED BY <1>5, <1>6

\* LateInv is inductive: only the consent check clears a job, and only for a user
\* who is opted in.
LEMMA LateStep == LateInv /\ [Next]_vars => LateInv'
<1> SUFFICES ASSUME LateInv, [Next]_vars PROVE LateInv'
  OBVIOUS
<1> TypeOK /\ TypeOK'
  BY TypeStep DEF LateInv
<1> SUFFICES ASSUME NEW u \in User PROVE Counted(u)'
  BY DEF LateInv, Counted
<1>old. Counted(u)
  BY DEF LateInv, Counted
<1> DEFINE Same == /\ late'[u] = late[u] /\ opted'[u] = opted[u]
                   /\ opted[u] \/ Cleared(u)' \subseteq Cleared(u)
<1>same. CASE Same
  BY <1>old, <1>same, CountFrame
<1>jobs. CASE UNCHANGED <<opted, job, late>>
  BY <1>jobs, <1>same DEF Cleared
<1>job. ASSUME NEW j \in Job, UNCHANGED <<opted, late>>, \A i \in Job \ {j} : job'[i] = job[i],
               job'[j].pc # "devices" \/ ~job'[j].asks \/ opted[job'[j].user]
        PROVE  Counted(u)'
  BY <1>job, <1>same DEF Cleared
<1> HIDE DEF Same
<1>1. ASSUME NEW r \in Req, NEW v \in User, NEW t \in Token, RegisterRead(r, v, t) \/ RemoveRead(r, v, t)
      PROVE  Counted(u)'
  BY <1>1, <1>jobs DEF RegisterRead, RemoveRead
<1>2. ASSUME NEW r \in Req, \/ RegisterInsert(r) \/ RegisterUpdate(r) \/ RemoveCommit(r)
                            \/ Conflict(r) \/ EndRequest(r)
      PROVE  Counted(u)'
  BY <1>2, <1>jobs DEF RegisterInsert, RegisterUpdate, RemoveCommit, Conflict, EndRequest
<1>3. ASSUME NEW v \in User, Opt(v) PROVE Counted(u)'
  <2>1. late'[u] = 0 \/ (late'[u] = late[u] /\ opted'[u] = opted[u])
    BY <1>3 DEF Opt, TypeOK
  <2>2. Cleared(u)' = Cleared(u) /\ Cleared(u) \in SUBSET Job
    BY <1>3 DEF Opt, Cleared
  <2>3. CASE late'[u] = 0
    BY <2>2, <2>3, ClearedFinite DEF Counted
  <2>4. CASE late'[u] = late[u] /\ opted'[u] = opted[u]
    BY <2>2, <2>4, <1>old, CountFrame
  <2> QED BY <2>1, <2>3, <2>4
<1>4. ASSUME NEW j \in Job, NEW v \in User, NEW asks \in BOOLEAN, StartSend(j, v, asks)
      PROVE  Counted(u)'
  BY <1>4, <1>job DEF StartSend, Send, TypeOK
<1>5. ASSUME NEW j \in Job, NEW U \in SUBSET User, StartTrigger(j, U) PROVE Counted(u)'
  BY <1>5, <1>job DEF StartTrigger, Send, TypeOK
<1>6. ASSUME NEW j \in Job, NextUser(j) PROVE Counted(u)'
  <2>1. job'[j].pc \in {"idle", "consent"} /\ \A i \in Job \ {j} : job'[i] = job[i]
    BY <1>6 DEF NextUser, NoJob, Send, TypeOK
  <2> QED BY <1>6, <2>1, <1>job DEF NextUser
<1>7. ASSUME NEW j \in Job, CheckConsent(j) PROVE Counted(u)'
  <2>1. job[j] \in Sending
    BY DEF TypeOK
  <2>2. job'[j].user = job[j].user /\ (job'[j].pc = "devices" => opted[job[j].user])
    BY <1>7, <2>1 DEF CheckConsent, TypeOK, Sending
  <2> QED BY <1>7, <2>2, <1>job DEF CheckConsent, TypeOK
<1>8. ASSUME NEW j \in Job, HandOver(j) PROVE Counted(u)'
  BY <1>8, <1>old, HandOverCount
<1>9. ASSUME NEW j \in Job, \/ Report(j) \/ MarkRead(j) \/ MarkCommit(j) \/ MessageDone(j) \/ AbortJob(j)
      PROVE  Counted(u)'
  <2>1. job[j] \in Sending
    BY DEF TypeOK
  <2>2. job'[j].pc # "devices"
    <3>1. CASE Report(j)
      <4>1. PICK D : job' = [job EXCEPT ![j].pc = "clean", ![j].dead = D]
        BY <3>1 DEF Report
      <4> QED BY <4>1, <2>1 DEF TypeOK, Sending
    <3>2. CASE MarkRead(j)
      <4>1. PICK t : \/ job' = [job EXCEPT ![j].dead = @ \ {t}]
                     \/ job' = [job EXCEPT ![j].pc = "mark", ![j].dead = @ \ {t},
                                          ![j].tok = t, ![j].id = dev[t].id]
        BY <3>2 DEF MarkRead
      <4>2. job[j].pc = "clean"
        BY <3>2 DEF MarkRead
      <4> QED BY <4>1, <4>2, <2>1 DEF TypeOK, Sending
    <3>3. CASE MarkCommit(j)
      BY <3>3, <2>1 DEF MarkCommit, NoJob, Send, Sending, TypeOK
    <3>4. CASE MessageDone(j)
      BY <3>4, <2>1 DEF MessageDone, Sending, TypeOK
    <3>5. CASE AbortJob(j)
      BY <3>5 DEF AbortJob, NoJob, Send, TypeOK
    <3> QED BY <1>9, <3>1, <3>2, <3>3, <3>4, <3>5
  <2>3. UNCHANGED <<opted, late>> /\ \A i \in Job \ {j} : job'[i] = job[i]
    BY <1>9 DEF Report, MarkRead, MarkCommit, MessageDone, AbortJob, TypeOK
  <2> QED BY <2>2, <2>3, <1>job
<1>10. CASE UNCHANGED vars
  BY <1>10, <1>jobs DEF vars
<1> QED BY <1>1, <1>2, <1>3, <1>4, <1>5, <1>6, <1>7, <1>8, <1>9, <1>10 DEF Next, Step

\* Nothing is handed over in the initial state.
LEMMA LateInit == Init => LateInv
<1> SUFFICES ASSUME Init PROVE LateInv
  OBVIOUS
<1>1. ASSUME NEW u \in User PROVE ~opted[u] /\ late[u] = 0 /\ Cleared(u) = {}
  BY DEF Init, Cleared, NoJob, Send
<1>2. Cardinality({}) = 0 /\ Cardinality(Job) \in Nat
  BY FS_EmptySet, FS_CardinalityType, PushSlots
<1> QED BY <1>1, <1>2, TypeInit DEF LateInv

\* After an opt-out, a user gets one more message at most from each job that may
\* be in flight, for any number of users, devices, messages and jobs
\* (send_to_user, _send_user_notifications).
THEOREM OptOutStops == Spec => []LateBound
<1>1. LateInv => LateBound
  <2> SUFFICES ASSUME LateInv, NEW u \in User PROVE late[u] <= Cardinality(Job)
    BY DEF LateBound
  <2>1. Cleared(u) \in SUBSET Job /\ late[u] \in Nat
    BY DEF Cleared, LateInv, TypeOK
  <2> QED BY <2>1, ClearedFinite DEF LateInv
<1> QED BY <1>1, LateInit, LateStep, PTL DEF Spec
------------------------------------------------------------------------------
(* Registrations that fail *)

\* The row a registration may meet is not older than the one it found.
NewerRow(r) ==
  /\ req[r].pc = "insert" => req[r].id = 0
  /\ req[r].pc \in {"insert", "update", "transfer"} /\ dev[req[r].tok] # None =>
       dev[req[r].tok].id >= req[r].id

RowsInv == \A r \in Req : NewerRow(r)

\* Rows are only replaced by rows of new ids.
LEMMA RowsStep == ClaimInv /\ RowsInv /\ [Next]_vars => RowsInv'
<1> SUFFICES ASSUME ClaimInv, RowsInv, [Next]_vars, NEW q \in Req PROVE NewerRow(q)'
  BY DEF RowsInv
<1>t. TypeOK /\ TypeOK'
  BY TypeStep DEF ClaimInv
<1>typ. /\ \A t \in Token : dev[t] # None => dev[t].id \in Nat /\ dev[t] \in Row
        /\ \A r \in Req : /\ req[r] \in Request /\ req[r].id \in Nat /\ req[r].id <= ids
                          /\ req[r].pc \in {"insert", "update", "transfer", "remove"} =>
                               req[r].user \in User /\ req[r].tok \in Token
        /\ ids \in Nat
        /\ dev \in [Token -> Row \cup {None}] /\ req \in [Req -> Request]
  BY <1>t DEF TypeOK, Row, Request, ClaimInv
<1>old. NewerRow(q)
  BY DEF RowsInv
<1>1. ASSUME NEW r \in Req, NEW u \in User, NEW t \in Token, RegisterRead(r, u, t) PROVE NewerRow(q)'
  <2>1. CASE q = r
    BY <1>1, <1>typ, <2>1 DEF RegisterRead, NewerRow, Ask
  <2>2. CASE q # r
    <3>1. req'[q] = req[q] /\ dev' = dev
      BY <1>1, <1>typ, <2>2 DEF RegisterRead
    <3> QED BY <1>old, <3>1 DEF NewerRow
  <2> QED BY <2>1, <2>2
<1>2. ASSUME NEW r \in Req, NEW u \in User, NEW t \in Token, RemoveRead(r, u, t) PROVE NewerRow(q)'
  BY <1>2, <1>typ, <1>old DEF RemoveRead, NewerRow, Ask
<1>3. ASSUME NEW r \in Req, RegisterInsert(r) PROVE NewerRow(q)'
  <2>1. req'[r].pc = "idle" /\ (q # r => req'[q] = req[q])
    BY <1>3, <1>typ DEF RegisterInsert, NoReq, Ask
  <2>2. dev'[req[r].tok].id = ids + 1 /\ \A t \in Token \ {req[r].tok} : dev'[t] = dev[t]
    BY <1>3, <1>typ DEF RegisterInsert, NewRow
  <2> QED BY <1>typ, <1>old, <2>1, <2>2 DEF NewerRow
<1>4. ASSUME NEW r \in Req, RegisterUpdate(r) PROVE NewerRow(q)'
  <2>1. req'[r].pc = "idle" /\ (q # r => req'[q] = req[q])
    BY <1>4, <1>typ DEF RegisterUpdate, NoReq, Ask
  <2>2. dev'[req[r].tok].id = dev[req[r].tok].id /\ dev[req[r].tok] # None
    BY <1>4, <1>typ DEF RegisterUpdate, Is, Row
  <2>3. \A t \in Token \ {req[r].tok} : dev'[t] = dev[t]
    BY <1>4, <1>typ DEF RegisterUpdate
  <2> QED BY <1>typ, <1>old, <2>1, <2>2, <2>3 DEF NewerRow
<1>5. ASSUME NEW r \in Req, RemoveCommit(r) PROVE NewerRow(q)'
  <2>1. req'[r].pc = "idle" /\ (q # r => req'[q] = req[q])
    BY <1>5, <1>typ DEF RemoveCommit, NoReq, Ask
  <2>2. \A t \in Token : dev'[t] = None \/ dev'[t] = dev[t]
    BY <1>5, <1>typ DEF RemoveCommit
  <2> QED BY <1>typ, <1>old, <2>1, <2>2 DEF NewerRow
<1>6. ASSUME NEW r \in Req, Conflict(r) \/ EndRequest(r) PROVE NewerRow(q)'
  <2>1. req'[r].pc \in {"idle", "failed"} /\ (q # r => req'[q] = req[q]) /\ dev' = dev
    BY <1>6, <1>typ DEF Conflict, EndRequest, NoReq, Ask
  <2> QED BY <1>old, <2>1 DEF NewerRow
<1>7. ASSUME NEW j \in Job, MarkCommit(j) PROVE NewerRow(q)'
  <2>1. /\ req'[q].pc = req[q].pc /\ req'[q].tok = req[q].tok /\ req'[q].id = req[q].id
    BY <1>7, <1>typ DEF MarkCommit, Request
  <2>2. \A t \in Token : dev'[t] # None => dev[t] # None /\ dev'[t].id = dev[t].id
    BY <1>7, <1>typ DEF MarkCommit, Is, Row
  <2> QED BY <1>typ, <1>old, <2>1, <2>2 DEF NewerRow
<1>8. CASE UNCHANGED <<dev, req>>
  BY <1>8, <1>old DEF NewerRow
<1> QED BY <1>1, <1>2, <1>3, <1>4, <1>5, <1>6, <1>7, <1>8
        DEF Next, Step, vars, Opt, StartSend, StartTrigger, NextUser, CheckConsent, HandOver, Report,
            MarkRead, MessageDone, AbortJob

\* A registration fails only when it has been overtaken: by another one of its token that was
\* acknowledged since it read the row, or, if it was to renew its own row, by a removal of
\* that row (register_device); for any number of users, tokens and requests.
THEOREM FailuresAreRaced == Spec => FailsOnlyRaced
<1>1. Init => RowsInv
  BY DEF Init, RowsInv, NewerRow, NoReq, Ask
<1>2. ClaimInv /\ RowsInv /\ [Next]_vars =>
        [\A r \in Req :
           req[r].pc # "failed" /\ req'[r].pc = "failed" =>
             \/ dev[req[r].tok] # None /\ dev[req[r].tok].id > req[r].id
             \/ dev[req[r].tok] = None /\ req[r].pc = "update"]_vars
  <2> SUFFICES ASSUME ClaimInv, RowsInv, Next, NEW r \in Req,
                      req[r].pc # "failed", req'[r].pc = "failed"
               PROVE  \/ dev[req[r].tok] # None /\ dev[req[r].tok].id > req[r].id
                      \/ dev[req[r].tok] = None /\ req[r].pc = "update"
    OBVIOUS
  <2>t. TypeOK
    BY DEF ClaimInv
  <2>typ. /\ req \in [Req -> Request] /\ req[r].id \in Nat
          /\ \A t \in Token : dev[t] # None => dev[t].id \in Nat \ {0}
    BY <2>t DEF TypeOK, Request, Row
  <2>1. Conflict(r)
    <3>1. ASSUME NEW p \in Req, NEW u \in User, NEW t \in Token, RegisterRead(p, u, t) PROVE FALSE
      BY <3>1, <2>typ DEF RegisterRead, Ask
    <3>2. ASSUME NEW p \in Req, NEW u \in User, NEW t \in Token, RemoveRead(p, u, t) PROVE FALSE
      BY <3>2, <2>typ DEF RemoveRead, Ask
    <3>3. ASSUME NEW p \in Req, RegisterInsert(p) \/ RegisterUpdate(p) \/ RemoveCommit(p) \/ EndRequest(p)
          PROVE  FALSE
      BY <3>3, <2>typ DEF RegisterInsert, RegisterUpdate, RemoveCommit, EndRequest, NoReq, Ask
    <3>4. ASSUME NEW p \in Req, Conflict(p), p # r PROVE FALSE
      BY <3>4, <2>typ DEF Conflict
    <3>5. ASSUME NEW j \in Job, MarkCommit(j) PROVE FALSE
      BY <3>5, <2>typ DEF MarkCommit, Request
    <3>6. CASE UNCHANGED req
      BY <3>6
    <3> QED BY <3>1, <3>2, <3>3, <3>4, <3>5, <3>6
            DEF Next, Step, Opt, StartSend, StartTrigger, NextUser, CheckConsent, HandOver, Report,
                MarkRead, MessageDone, AbortJob
  <2>2. req[r].pc \in {"insert", "update", "transfer"} /\ req[r].tok \in Token
    BY <2>1, <2>t DEF Conflict, TypeOK, Request
  <2>3. dev[req[r].tok] # None => dev[req[r].tok].id \in Nat \ {0} /\ dev[req[r].tok].id >= req[r].id
    BY <2>2, <2>typ DEF RowsInv, NewerRow
  <2>4. req[r].pc = "insert" => req[r].id = 0
    BY DEF RowsInv, NewerRow
  <2> QED
    BY <2>1, <2>2, <2>3, <2>4, <2>typ DEF Conflict, Is
<1>3. QED
  BY <1>1, <1>2, ClaimInit, ClaimStep, RowsStep, PTL DEF Spec, FailsOnlyRaced
------------------------------------------------------------------------------
(* The registry *)

\* A row keeps its id and user as long as it is there, and a new one has a new id.
LEMMA RowsLast ==
  ASSUME ClaimInv, [Next]_vars, NEW t \in Token, dev'[t] # None
  PROVE  \/ dev[t] # None /\ dev'[t].id = dev[t].id /\ dev'[t].user = dev[t].user
         \/ dev'[t].id = ids + 1
<1>t. TypeOK
  BY DEF ClaimInv
<1>typ. /\ dev \in [Token -> Row \cup {None}] /\ req \in [Req -> Request] /\ job \in [Job -> Sending]
        /\ \A r \in Req : req[r].pc \in {"insert", "update", "transfer", "remove"} => req[r].tok \in Token
  BY <1>t DEF TypeOK, Request
<1>1. ASSUME NEW r \in Req, RegisterInsert(r)
      PROVE  dev'[t] = dev[t] \/ dev'[t].id = ids + 1
  BY <1>1, <1>typ DEF RegisterInsert, NewRow
<1>2. ASSUME NEW r \in Req, RegisterUpdate(r)
      PROVE  dev[t] # None /\ dev'[t].id = dev[t].id /\ dev'[t].user = dev[t].user
  BY <1>2, <1>typ DEF RegisterUpdate, Is, Row
<1>3. ASSUME NEW r \in Req, RemoveCommit(r) PROVE dev'[t] = dev[t]
  BY <1>3, <1>typ DEF RemoveCommit
<1>4. ASSUME NEW j \in Job, MarkCommit(j)
      PROVE  dev[t] # None /\ dev'[t].id = dev[t].id /\ dev'[t].user = dev[t].user
  BY <1>4, <1>typ DEF MarkCommit, Is, Row
<1>5. CASE UNCHANGED dev
  BY <1>5
<1> QED
  BY <1>1, <1>2, <1>3, <1>4, <1>5
     DEF Next, Step, vars, RegisterRead, RemoveRead, Conflict, EndRequest, Opt, StartSend, StartTrigger,
         NextUser, CheckConsent, HandOver, Report, MarkRead, MessageDone, AbortJob

\* A request that will transfer a token was one already, for the same row, or has just read it
\* from another user's account.
LEMMA TransfersFound ==
  ASSUME ClaimInv, [Next]_vars, NEW q \in Req, req'[q].pc = "transfer"
  PROVE  \/ /\ req[q].pc = "transfer"
            /\ req'[q].tok = req[q].tok /\ req'[q].id = req[q].id /\ req'[q].user = req[q].user
         \/ UNCHANGED dev /\ dev[req'[q].tok].user # req'[q].user
<1>t. TypeOK
  BY DEF ClaimInv
<1>typ. req \in [Req -> Request]
  BY <1>t DEF TypeOK
<1>1. ASSUME NEW r \in Req, NEW u \in User, NEW t \in Token, RegisterRead(r, u, t)
      PROVE  req'[q] = req[q] \/ (UNCHANGED dev /\ dev[req'[q].tok].user # req'[q].user)
  BY <1>1, <1>typ DEF RegisterRead, Ask
<1>2. ASSUME NEW r \in Req, NEW u \in User, NEW t \in Token, RemoveRead(r, u, t) PROVE req'[q] = req[q]
  BY <1>2, <1>typ DEF RemoveRead, Ask
<1>3. ASSUME NEW r \in Req,
             RegisterInsert(r) \/ RegisterUpdate(r) \/ RemoveCommit(r) \/ Conflict(r) \/ EndRequest(r)
      PROVE  req'[q] = req[q]
  BY <1>3, <1>typ
     DEF RegisterInsert, RegisterUpdate, RemoveCommit, Conflict, EndRequest, NoReq, Ask
<1>4. ASSUME NEW j \in Job, MarkCommit(j)
      PROVE  /\ req'[q].pc = req[q].pc /\ req'[q].tok = req[q].tok
             /\ req'[q].id = req[q].id /\ req'[q].user = req[q].user
  BY <1>4, <1>typ DEF MarkCommit, Request
<1>5. CASE UNCHANGED req
  BY <1>5
<1> QED
  BY <1>1, <1>2, <1>3, <1>4, <1>5
     DEF Next, Step, vars, Opt, StartSend, StartTrigger, NextUser, CheckConsent, HandOver, Report,
         MarkRead, MessageDone, AbortJob

\* ForeignInv is inductive beside ClaimInv: the row that was read has an id given out, and a
\* new one would have another.
LEMMA ForeignStep == ClaimInv /\ ForeignInv /\ [Next]_vars => ForeignInv'
<1> SUFFICES ASSUME ClaimInv, ForeignInv, [Next]_vars, NEW q \in Req,
                    req'[q].pc = "transfer", Is(req[q].tok, req[q].id)'
             PROVE  dev'[req'[q].tok].user # req'[q].user
  BY DEF ForeignInv
<1>t. TypeOK /\ TypeOK'
  BY TypeStep DEF ClaimInv
<1>1. req'[q].tok \in Token /\ req[q].id \in Nat /\ req[q].id <= ids /\ ids \in Nat
  BY <1>t DEF TypeOK, Request, ClaimInv
<1>2. CASE UNCHANGED dev /\ dev[req'[q].tok].user # req'[q].user
  BY <1>2
<1>3. CASE /\ req[q].pc = "transfer"
           /\ req'[q].tok = req[q].tok /\ req'[q].id = req[q].id /\ req'[q].user = req[q].user
  BY <1>1, <1>3, RowsLast DEF ForeignInv, Is
<1> QED BY <1>2, <1>3, TransfersFound

\* Every step of a request or a job is one of the registry, or is not seen by it.
LEMMA RegistryMaps == ClaimInv /\ ForeignInv /\ [Next]_vars => [Registry!Next]_(Registry!registry)
<1> SUFFICES ASSUME ClaimInv, ForeignInv, [Next]_vars
             PROVE  Registry!Next \/ UNCHANGED Registry!registry
  OBVIOUS
<1>t. TypeOK
  BY DEF ClaimInv
<1>typ. /\ dev \in [Token -> Row \cup {None}] /\ claim \in [Token -> User \cup {None}]
        /\ ids \in Nat
        /\ \A r \in Req : /\ req[r].pc \in {"insert", "update", "transfer", "remove"} =>
                               req[r].user \in User /\ req[r].tok \in Token
                          /\ req[r].off \in BOOLEAN
  BY <1>t DEF TypeOK, Request
<1>1. ASSUME NEW r \in Req, RegisterInsert(r) PROVE Registry!Next
  <2> DEFINE t == req[r].tok
             u == req[r].user
  <2>1. t \in Token /\ u \in User /\ ids + 1 \in 1..MaxId
    BY <1>1, <1>typ DEF RegisterInsert
  <2>2. dev[t] = None \/ dev[t].user # u
    BY <1>1 DEF RegisterInsert, ForeignInv
  <2>3. ids + 1 \notin 1..ids /\ 1..(ids + 1) = (1..ids) \cup {ids + 1}
    BY <1>typ
  <2>4. Registry!Enter(t, u, ids + 1)
    BY <1>1, <2>2, <2>3 DEF Registry!Enter, RegisterInsert, NewRow
  <2> QED BY <2>1, <2>4 DEF Registry!Next
<1>2. ASSUME NEW r \in Req, RegisterUpdate(r) PROVE Registry!Next
  <2> DEFINE t == req[r].tok
  <2>1. /\ t \in Token /\ dev[t] \in Row /\ dev[t] # None
        /\ dev[t].user = req[r].user /\ (req[r].off \/ req[r].hit \/ ~dev[t].revoked)
    BY <1>2, <1>typ DEF RegisterUpdate, Is, ClaimInv
  <2>2. UNCHANGED (1..ids)
    BY <1>2 DEF RegisterUpdate
  <2>3. CASE req[r].off
    <3>1. dev' = [dev EXCEPT ![t].revoked = FALSE]
      BY <1>2, <2>3 DEF RegisterUpdate
    <3>2. Registry!Renew(t) \/ Registry!Touch(t)
      BY <1>2, <2>1, <2>2, <3>1 DEF RegisterUpdate, Registry!Renew, Registry!Touch
    <3> QED BY <2>1, <3>2 DEF Registry!Next
  <2>4. CASE ~req[r].off
    <3>1. dev' = dev
      BY <1>2, <2>1, <2>4, <1>typ DEF RegisterUpdate, Row
    <3>2. CASE req[r].hit
      BY <1>2, <2>1, <2>2, <3>1, <3>2 DEF RegisterUpdate, Registry!Touch, Registry!Next
    <3>3. CASE ~req[r].hit
      <4>1. dev' = [dev EXCEPT ![t].revoked = FALSE]
        BY <2>1, <2>4, <3>1, <3>3, <1>typ DEF Row
      <4>2. Registry!Renew(t)
        BY <1>2, <2>1, <2>2, <3>3, <4>1 DEF RegisterUpdate, Registry!Renew
      <4> QED BY <2>1, <4>2 DEF Registry!Next
    <3> QED BY <3>2, <3>3
  <2> QED BY <1>typ, <2>3, <2>4
<1>3. ASSUME NEW r \in Req, RemoveCommit(r) PROVE Registry!Next \/ UNCHANGED Registry!registry
  <2>1. req[r].tok \in Token
    BY <1>3, <1>typ DEF RemoveCommit
  <2>2. Is(req[r].tok, req[r].id) => Registry!Leave(req[r].tok)
    BY <1>3 DEF RemoveCommit, Registry!Leave, Is
  <2> QED BY <1>3, <2>1, <2>2 DEF RemoveCommit, Registry!Next, Registry!registry
<1>4. ASSUME NEW j \in Job, MarkCommit(j) PROVE Registry!Next \/ UNCHANGED Registry!registry
  <2>1. job[j].tok \in Token
    BY <1>4, <1>t DEF MarkCommit, TypeOK, Sending
  <2>2. Is(job[j].tok, job[j].id) => Registry!Revoke(job[j].tok)
    BY <1>4 DEF MarkCommit, Registry!Revoke, Is
  <2> QED BY <1>4, <2>1, <2>2 DEF MarkCommit, Registry!Next, Registry!registry
<1>5. CASE UNCHANGED <<dev, ids, claim>>
  BY <1>5 DEF Registry!registry
<1> QED
  BY <1>1, <1>2, <1>3, <1>4, <1>5
     DEF Next, Step, vars, RegisterRead, RemoveRead, Conflict, EndRequest, Opt, StartSend, StartTrigger,
         NextUser, CheckConsent, HandOver, Report, MarkRead, MessageDone, AbortJob

\* The SELECT and the later flush of device_service, and the late marks of a job, amount to
\* registrations, removals and revocations done at once, for any number of users, tokens,
\* requests and jobs: a device_id is given out once, a holder changes by a new registration or
\* a removal only, and what was acknowledged is so.
THEOREM RegistryImplemented == Spec => RegistrySpec
<1>1. Init => Registry!Init
  BY DEF Init, Registry!Init
<1>2. Init => ForeignInv
  BY DEF Init, ForeignInv, NoReq, Ask
<1>3. QED
  BY <1>1, <1>2, ClaimInit, ClaimStep, ForeignStep, RegistryMaps, PTL DEF Spec, RegistrySpec, Registry!Spec

\* A device_id stays with its token and its user: what a client holds from an answer of
\* register_device, and a request or job from its SELECT, never names another row later.
THEOREM IdsStay ==
  Spec => [][\A t \in Token : dev'[t] # None /\ dev'[t].id \in 1..ids =>
               dev[t] # None /\ dev[t].id = dev'[t].id /\ dev[t].user = dev'[t].user]_vars
<1>1. ClaimInv /\ [Next]_vars =>
        [\A t \in Token : dev'[t] # None /\ dev'[t].id \in 1..ids =>
           dev[t] # None /\ dev[t].id = dev'[t].id /\ dev[t].user = dev'[t].user]_vars
  <2> SUFFICES ASSUME ClaimInv, [Next]_vars, NEW t \in Token, dev'[t] # None, dev'[t].id \in 1..ids
               PROVE  dev[t] # None /\ dev[t].id = dev'[t].id /\ dev[t].user = dev'[t].user
    OBVIOUS
  <2>1. ids \in Nat
    BY DEF ClaimInv, TypeOK
  <2> QED BY <2>1, RowsLast
<1>2. QED
  BY <1>1, ClaimInit, ClaimStep, PTL DEF Spec
------------------------------------------------------------------------------
(* Jobs end *)

\* What a step does to a job in flight: it ends it, or leaves less to do.
LEMMA StepDescends ==
  ASSUME TypeOK, [Next]_vars, NEW j \in Job, job[j].pc # "idle", job'[j] # job[j]
  PROVE  job'[j].pc = "idle" \/ Below(job'[j], job[j])
<1>typ. /\ job \in [Job -> Sending] /\ job[j] \in Sending
        /\ job[j].left \in Nat /\ job[j].todo \in SUBSET User /\ job[j].dead \in SUBSET Token
        /\ job[j].pc \in {"next", "consent", "devices", "sending", "clean", "mark"}
  BY DEF TypeOK, Sending
<1>1. CASE NextUser(j)
  <2>1. ASSUME NEW u \in job[j].todo, NEW n \in 1..MaxMsg,
               job' = [job EXCEPT ![j] = Send("consent", TRUE, job[j].todo \ {u}, u, n)]
        PROVE  Below(job'[j], job[j])
    BY <2>1, <1>typ DEF Send, Below
  <2>2. CASE job' = [job EXCEPT ![j] = NoJob]
    BY <2>2, <1>typ DEF NoJob, Send
  <2> QED BY <1>1, <2>1, <2>2 DEF NextUser
<1>2. CASE CheckConsent(j)
  BY <1>2, <1>typ DEF CheckConsent, Sending, Below, InMessage, Stage
<1>3. CASE HandOver(j)
  BY <1>3, <1>typ DEF HandOver, Sending, Below, InMessage, Stage
<1>4. CASE Report(j)
  BY <1>4, <1>typ DEF Report, Sending, Below, InMessage, Stage
<1>5. CASE MarkRead(j)
  <2>1. PICK t \in job[j].dead :
          IF dev[t] = None \/ (dev[t].revoked /\ <<t, dev[t].id>> \notin job[j].seen)
          THEN job' = [job EXCEPT ![j].dead = @ \ {t}]
          ELSE job' = [job EXCEPT ![j].pc = "mark", ![j].dead = @ \ {t},
                                  ![j].tok = t, ![j].id = dev[t].id]
    BY <1>5 DEF MarkRead
  <2>2. /\ job'[j].todo = job[j].todo /\ job'[j].left = job[j].left /\ job'[j].dead = job[j].dead \ {t}
        /\ job'[j].pc \in {"clean", "mark"} /\ job[j].pc = "clean"
    BY <1>5, <2>1, <1>typ DEF MarkRead, Sending
  <2>3. job'[j].dead \subseteq job[j].dead /\ job'[j].dead # job[j].dead
    BY <2>1, <2>2
  <2> QED BY <2>2, <2>3 DEF Below, InMessage, Stage
<1>6. CASE MarkCommit(j)
  <2>1. CASE job' = [job EXCEPT ![j] = NoJob]
    BY <2>1, <1>typ DEF NoJob, Send
  <2>2. CASE job' = [job EXCEPT ![j].pc = "clean", ![j].tok = None, ![j].id = 0]
    BY <1>6, <2>2, <1>typ DEF MarkCommit, Sending, Below, InMessage, Stage
  <2> QED BY <1>6, <2>1, <2>2 DEF MarkCommit
<1>7. CASE MessageDone(j)
  <2>1. /\ job'[j].todo = job[j].todo /\ job'[j].left = job[j].left - 1
        /\ job'[j].pc \in {"consent", "next"} /\ job[j].pc = "clean"
    BY <1>7, <1>typ DEF MessageDone, Sending
  <2> QED BY <2>1, <1>typ DEF Below, InMessage
<1>8. CASE AbortJob(j)
  BY <1>8, <1>typ DEF AbortJob, NoJob, Send
<1>9. ASSUME NEW h \in Job, h # j, Step(h) \/ AbortJob(h) PROVE job'[j] = job[j]
  BY <1>9, <1>typ DEF Step, NextUser, CheckConsent, HandOver, Report, MarkRead, MarkCommit, MessageDone, AbortJob
<1>10. ASSUME NEW h \in Job, NEW u \in User, NEW asks \in BOOLEAN, StartSend(h, u, asks)
       PROVE  job'[j] = job[j]
  BY <1>10, <1>typ DEF StartSend
<1>11. ASSUME NEW h \in Job, NEW U \in SUBSET User, StartTrigger(h, U) PROVE job'[j] = job[j]
  BY <1>11, <1>typ DEF StartTrigger
<1>12. CASE UNCHANGED job
  BY <1>12
<1> HIDE DEF Below
<1> QED
  BY <1>1, <1>2, <1>3, <1>4, <1>5, <1>6, <1>7, <1>8, <1>9, <1>10, <1>11, <1>12
     DEF Next, Step, vars, RegisterRead, RegisterInsert, RegisterUpdate, RemoveRead, RemoveCommit, Conflict,
         EndRequest, Opt

\* Each step of a sending job ends it or leaves it less to do, whatever clients and other jobs
\* do meanwhile, for any number of users, messages and tokens.
THEOREM JobsDescend == Spec => JobDescends
<1>1. TypeOK /\ [Next]_vars =>
        [\A j \in Job : job[j].pc # "idle" /\ job'[j] # job[j] =>
           job'[j].pc = "idle" \/ Below(job'[j], job[j])]_vars
  BY StepDescends
<1>2. QED
  BY <1>1, TypeInit, TypeStep, PTL DEF Spec, JobDescends

\* The place of a job in that order, as a number: dead tokens in twos, stages and messages, users.
Marks(b) == 2 * Cardinality(b.dead) + (IF b.pc = "mark" THEN 1 ELSE 0)
PerStage == 2 * Cardinality(Token) + 2
Stages(b) == IF b.pc = "next" THEN 0 ELSE 4 * b.left + Stage(b) - 1
PerUser == (4 * MaxMsg + 4) * PerStage
Rank(b) == Cardinality(b.todo) * PerUser + (Stages(b) * PerStage + (IF b.pc = "next" THEN 0 ELSE Marks(b)))

\* A larger leading digit outweighs what follows.
LEMMA Digits ==
  ASSUME NEW a \in Nat, NEW b \in Nat, NEW W \in Nat, NEW r \in Nat, NEW s \in Nat, a < b, r < W
  PROVE  a * W + r < b * W + s
<1>1. PICK k \in Nat : b = a + 1 + k
  <2>1. b - a - 1 \in Nat /\ b = a + 1 + (b - a - 1)
    OBVIOUS
  <2> QED BY <2>1
<1>2. b * W = a * W + W + k * W
  BY <1>1
<1>3. k * W \in Nat /\ a * W \in Nat
  OBVIOUS
<1> QED BY <1>2, <1>3

\* The number of a job in flight is within a bound that only the constants give.
LEMMA RankBounds ==
  ASSUME IsFiniteSet(User), IsFiniteSet(Token), NEW b \in Sending, b.pc # "idle"
  PROVE  /\ Cardinality(b.todo) \in 0..Cardinality(User) /\ Cardinality(b.dead) \in 0..Cardinality(Token)
         /\ PerStage \in Nat /\ PerUser \in Nat
         /\ Marks(b) \in Nat /\ Marks(b) < PerStage
         /\ Stages(b) \in Nat /\ Stages(b) < 4 * MaxMsg + 4
         /\ Stages(b) * PerStage + (IF b.pc = "next" THEN 0 ELSE Marks(b)) \in Nat
         /\ Stages(b) * PerStage + (IF b.pc = "next" THEN 0 ELSE Marks(b)) < PerUser
         /\ Rank(b) \in Nat /\ Rank(b) < (Cardinality(User) + 1) * PerUser
<1>1. /\ Cardinality(b.todo) \in 0..Cardinality(User) /\ Cardinality(User) \in Nat
      /\ Cardinality(b.dead) \in 0..Cardinality(Token) /\ Cardinality(Token) \in Nat
  <2>1. b.todo \in SUBSET User /\ b.dead \in SUBSET Token
    BY DEF Sending
  <2> QED BY <2>1, FS_Subset, FS_CardinalityType
<1>2. PerStage \in Nat /\ Marks(b) \in Nat /\ Marks(b) < PerStage
  BY <1>1 DEF PerStage, Marks
<1>3. Stages(b) \in Nat /\ Stages(b) < 4 * MaxMsg + 4
  BY DEF Stages, Stage, Sending
<1> DEFINE r == IF b.pc = "next" THEN 0 ELSE Marks(b)
           W == 4 * MaxMsg + 4
<1>4. r \in Nat /\ r < PerStage /\ W \in Nat
  BY <1>2
<1>5. Stages(b) * PerStage + r < W * PerStage + 0
  <2> HIDE DEF r, W
  <2> QED BY <1>2, <1>3, <1>4, Digits DEF W
<1>6. Stages(b) * PerStage + r \in Nat /\ PerUser \in Nat /\ W * PerStage = PerUser
  BY <1>2, <1>3, <1>4 DEF PerUser
<1> DEFINE low == Stages(b) * PerStage + r
<1>7. low \in Nat /\ low < PerUser
  BY <1>5, <1>6
<1>8. Cardinality(b.todo) * PerUser + low < (Cardinality(User) + 1) * PerUser + 0
  <2> HIDE DEF low
  <2> QED BY <1>1, <1>6, <1>7, Digits
<1>9. Rank(b) = Cardinality(b.todo) * PerUser + low
  BY DEF Rank
<1>10. Cardinality(b.todo) * PerUser \in Nat /\ (Cardinality(User) + 1) * PerUser \in Nat
  BY <1>1, <1>6
<1> HIDE DEF low
<1> QED BY <1>1, <1>2, <1>3, <1>6, <1>7, <1>8, <1>9, <1>10 DEF low

\* Less to do is a smaller number.
LEMMA BelowRank ==
  ASSUME IsFiniteSet(User), IsFiniteSet(Token), NEW a \in Sending, NEW b \in Sending,
         a.pc # "idle", b.pc # "idle", Below(a, b)
  PROVE  Rank(a) < Rank(b)
<1> DEFINE low(x) == Stages(x) * PerStage + (IF x.pc = "next" THEN 0 ELSE Marks(x))
<1>1. /\ Rank(a) = Cardinality(a.todo) * PerUser + low(a) /\ Rank(b) = Cardinality(b.todo) * PerUser + low(b)
      /\ low(a) \in Nat /\ low(b) \in Nat /\ low(a) < PerUser /\ PerUser \in Nat /\ PerStage \in Nat
      /\ Cardinality(a.todo) \in Nat /\ Cardinality(b.todo) \in Nat
      /\ Cardinality(a.dead) \in Nat /\ Cardinality(b.dead) \in Nat
      /\ Marks(a) \in Nat /\ Marks(b) \in Nat /\ Marks(a) < PerStage
      /\ Stages(a) \in Nat /\ Stages(b) \in Nat
  BY RankBounds DEF Rank
<1>2. /\ a.todo \in SUBSET User /\ b.todo \in SUBSET User /\ a.dead \in SUBSET Token /\ b.dead \in SUBSET Token
      /\ IsFiniteSet(b.todo) /\ IsFiniteSet(b.dead)
  BY FS_Subset DEF Sending
<1>3. CASE a.todo \subseteq b.todo /\ a.todo # b.todo
  <2>1. Cardinality(a.todo) < Cardinality(b.todo)
    BY <1>2, <1>3, FS_Subset, FS_CardinalityType
  <2> HIDE DEF low
  <2> QED BY <1>1, <2>1, Digits
<1>4. ASSUME a.todo = b.todo, Stages(a) < Stages(b) PROVE Rank(a) < Rank(b)
  <2>1. low(a) < Stages(b) * PerStage + Marks(b)
    <3> DEFINE r == IF a.pc = "next" THEN 0 ELSE Marks(a)
    <3>1. r \in Nat /\ r < PerStage
      BY <1>1
    <3> HIDE DEF r
    <3>2. Stages(a) * PerStage + r < Stages(b) * PerStage + Marks(b)
      BY <1>1, <1>4, <3>1, Digits
    <3> QED BY <3>2 DEF r
  <2>2. b.pc # "next"
    BY <1>1, <1>4 DEF Stages
  <2>3. low(a) < low(b)
    BY <2>1, <2>2
  <2>4. Cardinality(a.todo) * PerUser \in Nat
    BY <1>1
  <2> HIDE DEF low
  <2> QED BY <1>1, <1>4, <2>3, <2>4
<1>5. ASSUME a.todo = b.todo, Stages(a) = Stages(b), a.pc # "next", b.pc # "next", Marks(a) < Marks(b)
      PROVE  Rank(a) < Rank(b)
  <2>1. Stages(a) * PerStage \in Nat /\ Cardinality(a.todo) * PerUser \in Nat
    BY <1>1
  <2>2. low(a) < low(b)
    BY <1>1, <1>5, <2>1
  <2> HIDE DEF low
  <2> QED BY <1>1, <1>5, <2>1, <2>2
<1>6. a.left \in Nat /\ b.left \in Nat /\ Stage(a) \in 1..4 /\ Stage(b) \in 1..4
      /\ (b.pc # "next" => b.left > 0)
  BY DEF Stage, Sending
<1>7. CASE a.todo = b.todo /\ a.pc = "next" /\ b.pc # "next"
  BY <1>4, <1>6, <1>7 DEF Stages
<1>8. CASE a.todo = b.todo /\ a.pc # "next" /\ b.pc # "next" /\ (a.left < b.left \/ (a.left = b.left /\ Stage(a) < Stage(b)))
  BY <1>4, <1>6, <1>8 DEF Stages
<1>9. CASE /\ a.todo = b.todo /\ a.pc # "next" /\ b.pc # "next" /\ a.left = b.left /\ Stage(a) = Stage(b)
           /\ a.dead \subseteq b.dead /\ a.dead # b.dead
  <2>1. Cardinality(a.dead) < Cardinality(b.dead)
    BY <1>2, <1>9, FS_Subset, FS_CardinalityType
  <2>2. Marks(a) < Marks(b)
    BY <1>1, <2>1 DEF Marks
  <2> QED BY <1>5, <1>6, <1>9, <2>2 DEF Stages
<1>10. CASE /\ a.todo = b.todo /\ a.left = b.left /\ Stage(a) = Stage(b)
            /\ a.dead = b.dead /\ a.pc = "clean" /\ b.pc = "mark"
  <2>1. Marks(a) < Marks(b)
    BY <1>1, <1>10 DEF Marks
  <2> QED BY <1>5, <1>6, <1>10, <2>1 DEF Stages
<1> QED BY <1>3, <1>7, <1>8, <1>9, <1>10 DEF Below, InMessage

\* A job is done after a number of its own steps that only the numbers of users, tokens and
\* messages bound: the part of JobReturns that does not need fairness.
THEOREM WorkIsBounded ==
  ASSUME IsFiniteSet(User), IsFiniteSet(Token)
  PROVE  Spec => /\ [](\A j \in Job : job[j].pc # "idle" => Rank(job[j]) < (Cardinality(User) + 1) * PerUser)
                 /\ [][\A j \in Job : job[j].pc # "idle" /\ job'[j] # job[j] =>
                        job'[j].pc = "idle" \/ Rank(job'[j]) < Rank(job[j])]_vars
<1>1. TypeOK => \A j \in Job : job[j].pc # "idle" => Rank(job[j]) < (Cardinality(User) + 1) * PerUser
  BY RankBounds DEF TypeOK
<1>2. TypeOK /\ TypeOK' /\ [Next]_vars =>
        [\A j \in Job : job[j].pc # "idle" /\ job'[j] # job[j] =>
           job'[j].pc = "idle" \/ Rank(job'[j]) < Rank(job[j])]_vars
  <2> SUFFICES ASSUME TypeOK, TypeOK', [Next]_vars, NEW j \in Job, job[j].pc # "idle", job'[j] # job[j],
                      job'[j].pc # "idle"
               PROVE  Rank(job'[j]) < Rank(job[j])
    OBVIOUS
  <2>1. Below(job'[j], job[j])
    BY StepDescends
  <2>2. job[j] \in Sending /\ job'[j] \in Sending
    BY DEF TypeOK
  <2> QED BY <2>1, <2>2, BelowRank
<1>3. QED
  BY <1>1, <1>2, TypeInit, TypeStep, PTL DEF Spec
==============================================================================
