--------------------------- MODULE AuthTokensProofs ---------------------------
(***************************************************************************)
(* Theorems about AuthTokens, for every number of users, tokens, passwords *)
(* and requests.                                                           *)
(***************************************************************************)
EXTENDS AuthTokens, FiniteSetTheorems, TLAPS

USE DEF users, table, lineage, history

\* What a request in flight holds is a Request.
LEMMA IdleType == Idle \in Request
BY DEF Idle, Request

\* Empty tables and idle requests are well typed.
LEMMA TypeInit == Init => TypeOK
BY IdleType DEF Init, TypeOK, Idle

\* Each step keeps the types.
LEMMA TypeStep == TypeOK /\ [Next]_vars => TypeOK'
<1> SUFFICES ASSUME TypeOK, [Next]_vars PROVE TypeOK'
  OBVIOUS
<1> USE NoneAssumption DEF TypeOK
<1>1. ASSUME NEW u \in User, NEW e \in Email, NEW pw \in Password, NEW k \in Jti,
             Signup(u, e, pw, k)
      PROVE TypeOK'
  BY <1>1 DEF Signup, Insert
<1>2. ASSUME NEW r \in Req, NEW u \in User, NEW e \in Email, NEW pw \in Password,
             LoginRead(r, u, e, pw)
      PROVE TypeOK'
  BY <1>2 DEF LoginRead, Goto, Idle, Request
<1>3. ASSUME NEW r \in Req, NEW k \in Jti, LoginCommit(r, k)
      PROVE TypeOK'
  BY <1>3, IdleType DEF LoginCommit, Insert, Taint, Finish, Goto, Idle
<1>4. ASSUME NEW r \in Req, NEW k \in Jti, RotateCommit(r, k)
      PROVE TypeOK'
  BY <1>4, IdleType DEF RotateCommit, Insert, Taint, Finish, Goto, Idle, Row
<1>5. ASSUME NEW r \in Req, NEW j \in Jti, RefreshRead(r, j)
      PROVE TypeOK'
  BY <1>5 DEF RefreshRead, Goto, Idle, Request, Presented, Row
<1>6. ASSUME NEW r \in Req, NEW j \in Jti, LogoutRead(r, j)
      PROVE TypeOK'
  BY <1>6 DEF LogoutRead, Goto, Idle, Request
<1>7. ASSUME NEW r \in Req, NEW u \in User, NEW cur \in Password, NEW new \in Password,
             PatchRead(r, u, cur, new)
      PROVE TypeOK'
  BY <1>7 DEF PatchRead, Goto, Idle, Request
<1>8. ASSUME NEW r \in Req, NEW u \in User, DeleteRead(r, u)
      PROVE TypeOK'
  BY <1>8 DEF DeleteRead, Goto, Idle, Request
<1>9. ASSUME NEW r \in Req, ReuseUpdate(r)
      PROVE TypeOK'
  BY <1>9 DEF ReuseUpdate, Goto, Request, ActiveIn
<1>10. ASSUME NEW r \in Req, ReuseCommit(r)
       PROVE TypeOK'
  BY <1>10, IdleType DEF ReuseCommit, FinishRevocation, Revoked, Goto, Idle
<1>11. ASSUME NEW r \in Req, LogoutCommit(r)
       PROVE TypeOK'
  BY <1>11, IdleType DEF LogoutCommit, Finish, Revoked, Goto, Idle
<1>12. ASSUME NEW r \in Req, AccountUpdate(r)
       PROVE TypeOK'
  BY <1>12 DEF AccountUpdate, Goto, Request, ActiveOf
<1>13. ASSUME NEW r \in Req, PatchCommit(r)
       PROVE TypeOK'
  BY <1>13, IdleType DEF PatchCommit, FinishRevocation, Revoked, Goto, Idle
<1>14. ASSUME NEW r \in Req, DeleteCommit(r)
       PROVE TypeOK'
  BY <1>14, IdleType DEF DeleteCommit, FinishRevocation, Revoked, Goto, Idle
<1>15. ASSUME NEW r \in Req, Abort(r)
       PROVE TypeOK'
  BY <1>15, IdleType DEF Abort, Finish, Goto, Idle
<1>16. ASSUME NEW j \in Jti, Age(j)
       PROVE TypeOK'
  BY <1>16, MaxLifeAssumption DEF Age
<1>17. CASE Restart
  BY <1>17, IdleType DEF Restart, Idle, Row
<1>18. CASE UNCHANGED vars
  BY <1>18 DEF vars
<1>19. QED
  BY <1>1, <1>2, <1>3, <1>4, <1>5, <1>6, <1>7, <1>8, <1>9, <1>10, <1>11, <1>12, <1>13,
     <1>14, <1>15, <1>16, <1>17, <1>18 DEF Next

\* TypeOK: every column of users and refresh_tokens, and what each handler of
\* auth_service and me_service holds between two statements, has its type.
THEOREM TypeCorrect == Spec => []TypeOK
<1>1. QED
  BY TypeInit, TypeStep, PTL DEF Spec
------------------------------------------------------------------------------
(***************************************************************************)
(* Mass revocations.  OverlapInv is inductive: an active token that does   *)
(* not match its account's password, or whose family was invalidated, can  *)
(* only come from a request that was in flight beside the revocation.      *)
(***************************************************************************)
\* The tables start empty and no request is in flight.
LEMMA OverlapInit == Init => OverlapInv
BY TypeInit DEF Init, Idle, OverlapInv, References, ActiveSound, LoginSound, RotateSound,
   Captured

\* Each step keeps the invariant: the mass revocations (ReuseCommit, PatchCommit,
\* DeleteCommit) by Captured, the issuing steps by LoginSound and RotateSound.
LEMMA OverlapStep == OverlapInv /\ [Next]_vars => OverlapInv'
<1> SUFFICES ASSUME OverlapInv, [Next]_vars PROVE OverlapInv'
  OBVIOUS
<1>0. TypeOK /\ TypeOK'
  BY TypeStep DEF OverlapInv
<1> USE NoneAssumption, <1>0
<1>1. ASSUME NEW u \in User, NEW e \in Email, NEW pw \in Password, NEW k \in Jti, Signup(u, e, pw, k)
      PROVE OverlapInv'
  <2>1. References'
    BY <1>1 DEF OverlapInv, References, TypeOK, Signup, Insert
  <2>2. ActiveSound'
    BY <1>1 DEF OverlapInv, ActiveSound, LoginSound, RotateSound, Captured, Sound, Revoking, References, TypeOK, Signup, Insert
  <2>3. LoginSound'
    BY <1>1 DEF OverlapInv, LoginSound, References, TypeOK, Signup, Insert
  <2>4. RotateSound'
    BY <1>1 DEF OverlapInv, RotateSound, ActiveSound, Sound, References, TypeOK, Signup, Insert
  <2>5. Captured'
    BY <1>1 DEF OverlapInv, Captured, Revoking, References, TypeOK, Signup, Insert
  <2>6. QED
    BY <2>1, <2>2, <2>3, <2>4, <2>5 DEF OverlapInv
<1>2. ASSUME NEW r \in Req, NEW u \in User, NEW e \in Email, NEW pw \in Password, LoginRead(r, u, e, pw)
      PROVE OverlapInv'
  <2>1. References'
    BY <1>2 DEF OverlapInv, References, TypeOK, LoginRead, Goto
  <2>2. ActiveSound'
    BY <1>2 DEF OverlapInv, ActiveSound, LoginSound, RotateSound, Captured, Sound, Revoking, References, TypeOK, LoginRead, Goto
  <2>3. LoginSound'
    BY <1>2 DEF OverlapInv, LoginSound, References, TypeOK, LoginRead, Goto
  <2>4. RotateSound'
    BY <1>2 DEF OverlapInv, RotateSound, ActiveSound, Sound, References, TypeOK, LoginRead, Goto
  <2>5. Captured'
    BY <1>2 DEF OverlapInv, Captured, Revoking, References, TypeOK, LoginRead, Goto
  <2>6. QED
    BY <2>1, <2>2, <2>3, <2>4, <2>5 DEF OverlapInv
<1>3. ASSUME NEW r \in Req, NEW k \in Jti, LoginCommit(r, k)
      PROVE OverlapInv'
  <2>1. References'
    BY <1>3 DEF OverlapInv, References, TypeOK, LoginCommit, Insert, Taint, Finish, Idle
  <2>2. ActiveSound'
    BY <1>3 DEF OverlapInv, ActiveSound, LoginSound, RotateSound, Captured, Sound, Revoking, References, TypeOK, LoginCommit, Insert, Taint, Finish, Idle
  <2>3. LoginSound'
    BY <1>3 DEF OverlapInv, LoginSound, References, TypeOK, LoginCommit, Insert, Taint, Finish, Idle
  <2>4. RotateSound'
    BY <1>3 DEF OverlapInv, RotateSound, ActiveSound, Sound, References, TypeOK, LoginCommit, Insert, Taint, Finish, Idle
  <2>5. Captured'
    BY <1>3 DEF OverlapInv, Captured, Revoking, References, TypeOK, LoginCommit, Insert, Taint, Finish, Idle
  <2>6. QED
    BY <2>1, <2>2, <2>3, <2>4, <2>5 DEF OverlapInv
<1>4. ASSUME NEW r \in Req, NEW k \in Jti, RotateCommit(r, k)
      PROVE OverlapInv'
  <2>1. References'
    BY <1>4 DEF OverlapInv, References, TypeOK, RotateCommit, Insert, Taint, Finish, Idle, Row
  <2>2. ActiveSound'
    BY <1>4 DEF OverlapInv, ActiveSound, LoginSound, RotateSound, Captured, Sound, Revoking, References, TypeOK, RotateCommit, Insert, Taint, Finish, Idle, Row
  <2>3. LoginSound'
    BY <1>4 DEF OverlapInv, LoginSound, References, TypeOK, RotateCommit, Insert, Taint, Finish, Idle, Row
  <2>4. RotateSound'
    BY <1>4 DEF OverlapInv, RotateSound, ActiveSound, Sound, References, TypeOK, RotateCommit, Insert, Taint, Finish, Idle, Row
  <2>5. Captured'
    BY <1>4 DEF OverlapInv, Captured, Revoking, References, TypeOK, RotateCommit, Insert, Taint, Finish, Idle, Row
  <2>6. QED
    BY <2>1, <2>2, <2>3, <2>4, <2>5 DEF OverlapInv
<1>5. ASSUME NEW r \in Req, NEW j \in Jti, RefreshRead(r, j)
      PROVE OverlapInv'
  <2>1. References'
    BY <1>5 DEF OverlapInv, References, TypeOK, RefreshRead, Goto, Presented, Row
  <2>2. ActiveSound'
    BY <1>5 DEF OverlapInv, ActiveSound, LoginSound, RotateSound, Captured, Sound, Revoking, References, TypeOK, RefreshRead, Goto, Presented, Row
  <2>3. LoginSound'
    BY <1>5 DEF OverlapInv, LoginSound, References, TypeOK, RefreshRead, Goto, Presented, Row
  <2>4. RotateSound'
    BY <1>5 DEF OverlapInv, RotateSound, ActiveSound, Sound, References, TypeOK, RefreshRead, Goto, Presented, Row
  <2>5. Captured'
    BY <1>5 DEF OverlapInv, Captured, Revoking, References, TypeOK, RefreshRead, Goto, Presented, Row
  <2>6. QED
    BY <2>1, <2>2, <2>3, <2>4, <2>5 DEF OverlapInv
<1>6. ASSUME NEW r \in Req, NEW j \in Jti, LogoutRead(r, j)
      PROVE OverlapInv'
  <2>1. References'
    BY <1>6 DEF OverlapInv, References, TypeOK, LogoutRead, Goto
  <2>2. ActiveSound'
    BY <1>6 DEF OverlapInv, ActiveSound, LoginSound, RotateSound, Captured, Sound, Revoking, References, TypeOK, LogoutRead, Goto
  <2>3. LoginSound'
    BY <1>6 DEF OverlapInv, LoginSound, References, TypeOK, LogoutRead, Goto
  <2>4. RotateSound'
    BY <1>6 DEF OverlapInv, RotateSound, ActiveSound, Sound, References, TypeOK, LogoutRead, Goto
  <2>5. Captured'
    BY <1>6 DEF OverlapInv, Captured, Revoking, References, TypeOK, LogoutRead, Goto
  <2>6. QED
    BY <2>1, <2>2, <2>3, <2>4, <2>5 DEF OverlapInv
<1>7. ASSUME NEW r \in Req, NEW u \in User, NEW cur \in Password, NEW new \in Password, PatchRead(r, u, cur, new)
      PROVE OverlapInv'
  <2>1. References'
    BY <1>7 DEF OverlapInv, References, TypeOK, PatchRead, Goto
  <2>2. ActiveSound'
    BY <1>7 DEF OverlapInv, ActiveSound, LoginSound, RotateSound, Captured, Sound, Revoking, References, TypeOK, PatchRead, Goto
  <2>3. LoginSound'
    BY <1>7 DEF OverlapInv, LoginSound, References, TypeOK, PatchRead, Goto
  <2>4. RotateSound'
    BY <1>7 DEF OverlapInv, RotateSound, ActiveSound, Sound, References, TypeOK, PatchRead, Goto
  <2>5. Captured'
    BY <1>7 DEF OverlapInv, Captured, Revoking, References, TypeOK, PatchRead, Goto
  <2>6. QED
    BY <2>1, <2>2, <2>3, <2>4, <2>5 DEF OverlapInv
<1>8. ASSUME NEW r \in Req, NEW u \in User, DeleteRead(r, u)
      PROVE OverlapInv'
  <2>1. References'
    BY <1>8 DEF OverlapInv, References, TypeOK, DeleteRead, Goto
  <2>2. ActiveSound'
    BY <1>8 DEF OverlapInv, ActiveSound, LoginSound, RotateSound, Captured, Sound, Revoking, References, TypeOK, DeleteRead, Goto
  <2>3. LoginSound'
    BY <1>8 DEF OverlapInv, LoginSound, References, TypeOK, DeleteRead, Goto
  <2>4. RotateSound'
    BY <1>8 DEF OverlapInv, RotateSound, ActiveSound, Sound, References, TypeOK, DeleteRead, Goto
  <2>5. Captured'
    BY <1>8 DEF OverlapInv, Captured, Revoking, References, TypeOK, DeleteRead, Goto
  <2>6. QED
    BY <2>1, <2>2, <2>3, <2>4, <2>5 DEF OverlapInv
<1>9. ASSUME NEW r \in Req, ReuseUpdate(r)
      PROVE OverlapInv'
  <2>1. References'
    BY <1>9 DEF OverlapInv, References, TypeOK, ReuseUpdate, Goto, ActiveIn
  <2>2. ActiveSound'
    BY <1>9 DEF OverlapInv, ActiveSound, LoginSound, RotateSound, Captured, Sound, Revoking, References, TypeOK, ReuseUpdate, Goto, ActiveIn
  <2>3. LoginSound'
    BY <1>9 DEF OverlapInv, LoginSound, References, TypeOK, ReuseUpdate, Goto, ActiveIn
  <2>4. RotateSound'
    BY <1>9 DEF OverlapInv, RotateSound, ActiveSound, Sound, References, TypeOK, ReuseUpdate, Goto, ActiveIn
  <2>5. Captured'
    BY <1>9 DEF OverlapInv, Captured, Revoking, References, TypeOK, ReuseUpdate, Goto, ActiveIn
  <2>6. QED
    BY <2>1, <2>2, <2>3, <2>4, <2>5 DEF OverlapInv
<1>10. ASSUME NEW r \in Req, ReuseCommit(r)
      PROVE OverlapInv'
  <2>1. References'
    BY <1>10 DEF OverlapInv, References, TypeOK, ReuseCommit, FinishRevocation, Revoked, Idle
  <2>2. ActiveSound'
    BY <1>10 DEF OverlapInv, ActiveSound, LoginSound, RotateSound, Captured, Sound, Revoking, References, TypeOK, ReuseCommit, FinishRevocation, Revoked, Idle
  <2>3. LoginSound'
    BY <1>10 DEF OverlapInv, LoginSound, References, TypeOK, ReuseCommit, FinishRevocation, Revoked, Idle
  <2>4. RotateSound'
    BY <1>10 DEF OverlapInv, RotateSound, ActiveSound, Sound, References, TypeOK, ReuseCommit, FinishRevocation, Revoked, Idle
  <2>5. Captured'
    BY <1>10 DEF OverlapInv, Captured, Revoking, References, TypeOK, ReuseCommit, FinishRevocation, Revoked, Idle
  <2>6. QED
    BY <2>1, <2>2, <2>3, <2>4, <2>5 DEF OverlapInv
<1>11. ASSUME NEW r \in Req, LogoutCommit(r)
      PROVE OverlapInv'
  <2>1. References'
    BY <1>11 DEF OverlapInv, References, TypeOK, LogoutCommit, Finish, Revoked, Idle
  <2>2. ActiveSound'
    BY <1>11 DEF OverlapInv, ActiveSound, LoginSound, RotateSound, Captured, Sound, Revoking, References, TypeOK, LogoutCommit, Finish, Revoked, Idle
  <2>3. LoginSound'
    BY <1>11 DEF OverlapInv, LoginSound, References, TypeOK, LogoutCommit, Finish, Revoked, Idle
  <2>4. RotateSound'
    BY <1>11 DEF OverlapInv, RotateSound, ActiveSound, Sound, References, TypeOK, LogoutCommit, Finish, Revoked, Idle
  <2>5. Captured'
    BY <1>11 DEF OverlapInv, Captured, Revoking, References, TypeOK, LogoutCommit, Finish, Revoked, Idle
  <2>6. QED
    BY <2>1, <2>2, <2>3, <2>4, <2>5 DEF OverlapInv
<1>12. ASSUME NEW r \in Req, AccountUpdate(r)
      PROVE OverlapInv'
  <2>1. References'
    BY <1>12 DEF OverlapInv, References, TypeOK, AccountUpdate, Goto, ActiveOf
  <2>2. ActiveSound'
    BY <1>12 DEF OverlapInv, ActiveSound, LoginSound, RotateSound, Captured, Sound, Revoking, References, TypeOK, AccountUpdate, Goto, ActiveOf
  <2>3. LoginSound'
    BY <1>12 DEF OverlapInv, LoginSound, References, TypeOK, AccountUpdate, Goto, ActiveOf
  <2>4. RotateSound'
    BY <1>12 DEF OverlapInv, RotateSound, ActiveSound, Sound, References, TypeOK, AccountUpdate, Goto, ActiveOf
  <2>5. Captured'
    BY <1>12 DEF OverlapInv, Captured, Revoking, References, TypeOK, AccountUpdate, Goto, ActiveOf
  <2>6. QED
    BY <2>1, <2>2, <2>3, <2>4, <2>5 DEF OverlapInv
<1>13. ASSUME NEW r \in Req, PatchCommit(r)
      PROVE OverlapInv'
  <2>1. References'
    BY <1>13 DEF OverlapInv, References, TypeOK, PatchCommit, FinishRevocation, Revoked, Idle
  <2>2. ActiveSound'
    BY <1>13 DEF OverlapInv, ActiveSound, LoginSound, RotateSound, Captured, Sound, Revoking, References, TypeOK, PatchCommit, FinishRevocation, Revoked, Idle
  <2>3. LoginSound'
    BY <1>13 DEF OverlapInv, LoginSound, References, TypeOK, PatchCommit, FinishRevocation, Revoked, Idle
  <2>4. RotateSound'
    BY <1>13 DEF OverlapInv, RotateSound, ActiveSound, Sound, References, TypeOK, PatchCommit, FinishRevocation, Revoked, Idle
  <2>5. Captured'
    BY <1>13 DEF OverlapInv, Captured, Revoking, References, TypeOK, PatchCommit, FinishRevocation, Revoked, Idle
  <2>6. QED
    BY <2>1, <2>2, <2>3, <2>4, <2>5 DEF OverlapInv
<1>14. ASSUME NEW r \in Req, DeleteCommit(r)
      PROVE OverlapInv'
  <2>1. References'
    BY <1>14 DEF OverlapInv, References, TypeOK, DeleteCommit, FinishRevocation, Revoked, Idle
  <2>2. ActiveSound'
    BY <1>14 DEF OverlapInv, ActiveSound, LoginSound, RotateSound, Captured, Sound, Revoking, References, TypeOK, DeleteCommit, FinishRevocation, Revoked, Idle
  <2>3. LoginSound'
    BY <1>14 DEF OverlapInv, LoginSound, References, TypeOK, DeleteCommit, FinishRevocation, Revoked, Idle
  <2>4. RotateSound'
    BY <1>14 DEF OverlapInv, RotateSound, ActiveSound, Sound, References, TypeOK, DeleteCommit, FinishRevocation, Revoked, Idle
  <2>5. Captured'
    BY <1>14 DEF OverlapInv, Captured, Revoking, References, TypeOK, DeleteCommit, FinishRevocation, Revoked, Idle
  <2>6. QED
    BY <2>1, <2>2, <2>3, <2>4, <2>5 DEF OverlapInv
<1>15. ASSUME NEW r \in Req, Abort(r)
      PROVE OverlapInv'
  <2>1. References'
    BY <1>15 DEF OverlapInv, References, TypeOK, Abort, Finish, Idle
  <2>2. ActiveSound'
    BY <1>15 DEF OverlapInv, ActiveSound, LoginSound, RotateSound, Captured, Sound, Revoking, References, TypeOK, Abort, Finish, Idle
  <2>3. LoginSound'
    BY <1>15 DEF OverlapInv, LoginSound, References, TypeOK, Abort, Finish, Idle
  <2>4. RotateSound'
    BY <1>15 DEF OverlapInv, RotateSound, ActiveSound, Sound, References, TypeOK, Abort, Finish, Idle
  <2>5. Captured'
    BY <1>15 DEF OverlapInv, Captured, Revoking, References, TypeOK, Abort, Finish, Idle
  <2>6. QED
    BY <2>1, <2>2, <2>3, <2>4, <2>5 DEF OverlapInv
<1>16. ASSUME NEW j \in Jti, Age(j)
      PROVE OverlapInv'
  <2>1. References'
    BY <1>16 DEF OverlapInv, References, TypeOK, Age
  <2>2. ActiveSound'
    BY <1>16 DEF OverlapInv, ActiveSound, LoginSound, RotateSound, Captured, Sound, Revoking, References, TypeOK, Age
  <2>3. LoginSound'
    BY <1>16 DEF OverlapInv, LoginSound, References, TypeOK, Age
  <2>4. RotateSound'
    BY <1>16 DEF OverlapInv, RotateSound, ActiveSound, Sound, References, TypeOK, Age
  <2>5. Captured'
    BY <1>16 DEF OverlapInv, Captured, Revoking, References, TypeOK, Age
  <2>6. QED
    BY <2>1, <2>2, <2>3, <2>4, <2>5 DEF OverlapInv
<1>17. CASE Restart
  <2>1. References'
    BY <1>17 DEF OverlapInv, References, TypeOK, Restart, Idle, Row
  <2>2. ActiveSound'
    BY <1>17 DEF OverlapInv, ActiveSound, LoginSound, RotateSound, Captured, Sound, Revoking, References, TypeOK, Restart, Idle, Row
  <2>3. LoginSound'
    BY <1>17 DEF OverlapInv, LoginSound, References, TypeOK, Restart, Idle, Row
  <2>4. RotateSound'
    BY <1>17 DEF OverlapInv, RotateSound, ActiveSound, Sound, References, TypeOK, Restart, Idle, Row
  <2>5. Captured'
    BY <1>17 DEF OverlapInv, Captured, Revoking, References, TypeOK, Restart, Idle, Row
  <2>6. QED
    BY <2>1, <2>2, <2>3, <2>4, <2>5 DEF OverlapInv
<1>18. CASE UNCHANGED vars
  <2>1. References'
    BY <1>18 DEF OverlapInv, References, TypeOK, vars
  <2>2. ActiveSound'
    BY <1>18 DEF OverlapInv, ActiveSound, LoginSound, RotateSound, Captured, Sound, Revoking, References, TypeOK, vars
  <2>3. LoginSound'
    BY <1>18 DEF OverlapInv, LoginSound, References, TypeOK, vars
  <2>4. RotateSound'
    BY <1>18 DEF OverlapInv, RotateSound, ActiveSound, Sound, References, TypeOK, vars
  <2>5. Captured'
    BY <1>18 DEF OverlapInv, Captured, Revoking, References, TypeOK, vars
  <2>6. QED
    BY <2>1, <2>2, <2>3, <2>4, <2>5 DEF OverlapInv
<1>19. QED
  BY <1>1, <1>2, <1>3, <1>4, <1>5, <1>6, <1>7, <1>8, <1>9, <1>10, <1>11, <1>12, <1>13, <1>14, <1>15, <1>16, <1>17, <1>18 DEF Next

\* OverlapInv holds throughout.
THEOREM OverlapInvariant == Spec => []OverlapInv
<1>1. QED
  BY OverlapInit, OverlapStep, PTL DEF Spec

\* update_me and delete_me revoke every refresh token of the account but those
\* issued by requests that overlapped them (StaleOnlyByOverlap), whatever the
\* interleaving.
THEOREM SurvivorsOverlapped == Spec => []StaleOnlyByOverlap
<1>1. OverlapInv => StaleOnlyByOverlap
  BY DEF OverlapInv, ActiveSound, Sound, StaleOnlyByOverlap
<1>2. QED
  BY <1>1, OverlapInvariant, PTL

\* The reuse detection of refresh_tokens leaves no token of the family active
\* but those issued by requests that overlapped it (ReuseKillsFamily).
THEOREM ReuseInvalidatesFamily == Spec => []ReuseKillsFamily
<1>1. OverlapInv => ReuseKillsFamily
  BY DEF OverlapInv, ActiveSound, Sound, ReuseKillsFamily
<1>2. QED
  BY <1>1, OverlapInvariant, PTL
------------------------------------------------------------------------------
(***************************************************************************)
(* One request at a time.                                                  *)
(***************************************************************************)
SerialInv ==
  /\ tainted = {}
  /\ dirty = {}
  /\ OneActivePerFamily
  /\ \A r \in Req : req[r].pc = "rotate" => status[req[r].tok] = "active"

\* Nothing overlaps to begin with.
LEMMA SerialInit == Init => SerialInv
BY DEF Init, Idle, SerialInv, OneActivePerFamily

\* With one request slot, nothing comes between the read of a handler and its commit.
LEMMA SerialStep ==
  ASSUME NEW r0, Req = {r0}
  PROVE  OverlapInv /\ SerialInv /\ [Next]_vars => SerialInv'
<1> SUFFICES ASSUME OverlapInv, SerialInv, [Next]_vars PROVE SerialInv'
  OBVIOUS
<1>0. TypeOK /\ TypeOK'
  BY TypeStep DEF OverlapInv
<1> USE NoneAssumption, <1>0 DEF OverlapInv, SerialInv, OneActivePerFamily,
        References, TypeOK
<1>1. ASSUME NEW u \in User, NEW e \in Email, NEW pw \in Password, NEW k \in Jti, Signup(u, e, pw, k)
      PROVE SerialInv'
  BY <1>1 DEF Signup, Insert
<1>2. ASSUME NEW r \in Req, NEW u \in User, NEW e \in Email, NEW pw \in Password, LoginRead(r, u, e, pw)
      PROVE SerialInv'
  BY <1>2 DEF LoginRead, Goto
<1>3. ASSUME NEW r \in Req, NEW k \in Jti, LoginCommit(r, k)
      PROVE SerialInv'
  BY <1>3 DEF LoginCommit, Insert, Taint, Finish, Idle, Revoking
<1>4. ASSUME NEW r \in Req, NEW k \in Jti, RotateCommit(r, k)
      PROVE SerialInv'
  BY <1>4 DEF RotateCommit, Insert, Taint, Finish, Idle, Row, Revoking
<1>5. ASSUME NEW r \in Req, NEW j \in Jti, RefreshRead(r, j)
      PROVE SerialInv'
  BY <1>5 DEF RefreshRead, Goto, Presented, Row
<1>6. ASSUME NEW r \in Req, NEW j \in Jti, LogoutRead(r, j)
      PROVE SerialInv'
  BY <1>6 DEF LogoutRead, Goto
<1>7. ASSUME NEW r \in Req, NEW u \in User, NEW cur \in Password, NEW new \in Password, PatchRead(r, u, cur, new)
      PROVE SerialInv'
  BY <1>7 DEF PatchRead, Goto
<1>8. ASSUME NEW r \in Req, NEW u \in User, DeleteRead(r, u)
      PROVE SerialInv'
  BY <1>8 DEF DeleteRead, Goto
<1>9. ASSUME NEW r \in Req, ReuseUpdate(r)
      PROVE SerialInv'
  BY <1>9 DEF ReuseUpdate, Goto, ActiveIn
<1>10. ASSUME NEW r \in Req, ReuseCommit(r)
      PROVE SerialInv'
  BY <1>10 DEF ReuseCommit, FinishRevocation, Revoked, Idle
<1>11. ASSUME NEW r \in Req, LogoutCommit(r)
      PROVE SerialInv'
  BY <1>11 DEF LogoutCommit, Finish, Revoked, Idle
<1>12. ASSUME NEW r \in Req, AccountUpdate(r)
      PROVE SerialInv'
  BY <1>12 DEF AccountUpdate, Goto, ActiveOf
<1>13. ASSUME NEW r \in Req, PatchCommit(r)
      PROVE SerialInv'
  BY <1>13 DEF PatchCommit, FinishRevocation, Revoked, Idle
<1>14. ASSUME NEW r \in Req, DeleteCommit(r)
      PROVE SerialInv'
  BY <1>14 DEF DeleteCommit, FinishRevocation, Revoked, Idle
<1>15. ASSUME NEW r \in Req, Abort(r)
      PROVE SerialInv'
  BY <1>15 DEF Abort, Finish, Idle
<1>16. ASSUME NEW j \in Jti, Age(j)
      PROVE SerialInv'
  BY <1>16 DEF Age
<1>17. CASE Restart
  BY <1>17 DEF Restart, Idle, Row
<1>18. CASE UNCHANGED vars
  BY <1>18 DEF vars
<1>19. QED
  BY <1>1, <1>2, <1>3, <1>4, <1>5, <1>6, <1>7, <1>8, <1>9, <1>10, <1>11, <1>12, <1>13, <1>14, <1>15, <1>16, <1>17, <1>18 DEF Next

\* While requests do not overlap, docs/API.md is right about PATCH and DELETE
\* /me: no token outlives the password it was granted for.
THEOREM SerialSessions ==
  ASSUME NEW r0, Req = {r0}
  PROVE  Spec => []SessionsMatchPassword
<1>1. Spec => []SerialInv
  BY SerialInit, SerialStep, OverlapInvariant, PTL DEF Spec
<1>2. SerialInv /\ OverlapInv => SessionsMatchPassword
  BY DEF SerialInv, OverlapInv, ActiveSound, Sound, SessionsMatchPassword
<1>3. QED
  BY <1>1, <1>2, OverlapInvariant, PTL

\* While requests do not overlap, rotation leaves one active token per family.
THEOREM SerialRotation ==
  ASSUME NEW r0, Req = {r0}
  PROVE  Spec => []OneActivePerFamily
<1>1. Spec => []SerialInv
  BY SerialInit, SerialStep, OverlapInvariant, PTL DEF Spec
<1>2. SerialInv => OneActivePerFamily
  BY DEF SerialInv
<1>3. QED
  BY <1>1, <1>2, PTL
------------------------------------------------------------------------------
(***************************************************************************)
(* Deletions, with any number of requests at a time.                       *)
(***************************************************************************)
\* Nothing is deleted to begin with.
LEMMA DeletedInit == Init => DeletedInv
BY DEF Init, Idle, DeletedInv

\* A deletion's commit makes every other request in flight dirty and revokes what it has
\* captured, which is every active token of the account but the tainted ones; later
\* requests do not find the account.
LEMMA DeletedStep == OverlapInv /\ DeletedInv /\ [Next]_vars => DeletedInv'
<1> SUFFICES ASSUME OverlapInv, DeletedInv, [Next]_vars PROVE DeletedInv'
  OBVIOUS
<1>0. TypeOK /\ TypeOK' /\ References
  BY TypeStep DEF OverlapInv
<1> USE NoneAssumption, <1>0 DEF DeletedInv, References, TypeOK
<1>1. ASSUME NEW u \in User, NEW e \in Email, NEW pw \in Password, NEW k \in Jti, Signup(u, e, pw, k)
      PROVE DeletedInv'
  BY <1>1 DEF OverlapInv, Signup, Insert
<1>2. ASSUME NEW r \in Req, NEW u \in User, NEW e \in Email, NEW pw \in Password, LoginRead(r, u, e, pw)
      PROVE DeletedInv'
  BY <1>2 DEF OverlapInv, LoginRead, Goto
<1>3. ASSUME NEW r \in Req, NEW k \in Jti, LoginCommit(r, k)
      PROVE DeletedInv'
  BY <1>3 DEF OverlapInv, LoginCommit, Insert, Taint, Finish, Idle
<1>4. ASSUME NEW r \in Req, NEW k \in Jti, RotateCommit(r, k)
      PROVE DeletedInv'
  BY <1>4 DEF OverlapInv, RotateCommit, Insert, Taint, Finish, Idle, Row
<1>5. ASSUME NEW r \in Req, NEW j \in Jti, RefreshRead(r, j)
      PROVE DeletedInv'
  BY <1>5 DEF OverlapInv, RefreshRead, Goto, Presented, Row
<1>6. ASSUME NEW r \in Req, NEW j \in Jti, LogoutRead(r, j)
      PROVE DeletedInv'
  BY <1>6 DEF OverlapInv, LogoutRead, Goto
<1>7. ASSUME NEW r \in Req, NEW u \in User, NEW cur \in Password, NEW new \in Password, PatchRead(r, u, cur, new)
      PROVE DeletedInv'
  BY <1>7 DEF OverlapInv, PatchRead, Goto
<1>8. ASSUME NEW r \in Req, NEW u \in User, DeleteRead(r, u)
      PROVE DeletedInv'
  BY <1>8 DEF OverlapInv, DeleteRead, Goto
<1>9. ASSUME NEW r \in Req, ReuseUpdate(r)
      PROVE DeletedInv'
  BY <1>9 DEF OverlapInv, ReuseUpdate, Goto
<1>10. ASSUME NEW r \in Req, ReuseCommit(r)
      PROVE DeletedInv'
  BY <1>10 DEF OverlapInv, ReuseCommit, FinishRevocation, Revoked, Idle
<1>11. ASSUME NEW r \in Req, LogoutCommit(r)
      PROVE DeletedInv'
  BY <1>11 DEF OverlapInv, LogoutCommit, Finish, Revoked, Idle
<1>12. ASSUME NEW r \in Req, AccountUpdate(r)
      PROVE DeletedInv'
  BY <1>12 DEF OverlapInv, AccountUpdate, Goto
<1>13. ASSUME NEW r \in Req, PatchCommit(r)
      PROVE DeletedInv'
  BY <1>13 DEF OverlapInv, PatchCommit, FinishRevocation, Revoked, Idle
<1>14. ASSUME NEW r \in Req, DeleteCommit(r)
      PROVE DeletedInv'
  BY <1>14 DEF OverlapInv, DeleteCommit, FinishRevocation, Revoked, Idle, Captured, Revoking
<1>15. ASSUME NEW r \in Req, Abort(r)
      PROVE DeletedInv'
  BY <1>15 DEF OverlapInv, Abort, Finish, Idle
<1>16. ASSUME NEW j \in Jti, Age(j)
      PROVE DeletedInv'
  BY <1>16 DEF OverlapInv, Age
<1>17. CASE Restart
  BY <1>17 DEF Restart, Idle, Row
<1>18. CASE UNCHANGED vars
  BY <1>18 DEF vars
<1>19. QED
  BY <1>1, <1>2, <1>3, <1>4, <1>5, <1>6, <1>7, <1>8, <1>9, <1>10, <1>11, <1>12, <1>13, <1>14, <1>15, <1>16, <1>17, <1>18 DEF Next

\* The hash of a deleted account changes only by a PATCH that was in flight at a deletion.
LEMMA HashStep ==
  ASSUME OverlapInv, DeletedInv, Next, NEW u \in User, ustate'[u] = "deleted"
  PROVE  \/ passwd'[u] = None
         \/ ustate[u] = "deleted" /\ passwd'[u] = passwd[u]
         \/ \E r \in dirty : req[r].pc = "patchCommit" /\ req[r].user = u
<1>0. TypeOK
  BY DEF OverlapInv
<1>1. ASSUME NEW v \in User, NEW e \in Email, NEW pw \in Password, NEW k \in Jti, Signup(v, e, pw, k)
      PROVE  ustate[u] = "deleted" /\ passwd'[u] = passwd[u]
  BY <1>0, <1>1 DEF Signup, TypeOK
<1>2. ASSUME NEW r \in Req, PatchCommit(r)
      PROVE  \/ ustate[u] = "deleted" /\ passwd'[u] = passwd[u]
             \/ r \in dirty /\ req[r].pc = "patchCommit" /\ req[r].user = u
  BY <1>0, <1>2 DEF PatchCommit, TypeOK, DeletedInv
<1>3. ASSUME NEW r \in Req, DeleteCommit(r)
      PROVE  passwd'[u] = None \/ (ustate[u] = "deleted" /\ passwd'[u] = passwd[u])
  BY <1>0, <1>3 DEF DeleteCommit, TypeOK
<1>4. CASE UNCHANGED users
  BY <1>4
<1>5. dirty \subseteq Req
  BY <1>0 DEF TypeOK
<1>6. QED
  BY <1>1, <1>2, <1>3, <1>4, <1>5
  DEF Next, LoginRead, LoginCommit, RotateCommit, RefreshRead, LogoutRead, PatchRead, DeleteRead,
      ReuseUpdate, ReuseCommit, LogoutCommit, AccountUpdate, Abort, Age, Restart

\* delete_me holds under any interleaving: the address is gone for good, no token is active
\* but of requests that overlapped a deletion, and only a PATCH /me that had loaded
\* the account before writes a hash into its row.
THEOREM DeletionsHold == Spec => DeletionHolds
<1>1. OverlapInv /\ DeletedInv /\ DeletedInv' /\ TypeOK' /\ [Next]_vars =>
        [\A u \in User : ustate'[u] = "deleted" =>
           /\ email'[u] = None
           /\ \A j \in Jti : status'[j] = "active" /\ owner'[j] = u => j \in tainted'
           /\ \/ passwd'[u] = None
              \/ ustate[u] = "deleted" /\ passwd'[u] = passwd[u]
              \/ \E r \in dirty : req[r].pc = "patchCommit" /\ req[r].user = u]_vars
  <2> SUFFICES ASSUME OverlapInv, DeletedInv, DeletedInv', Next,
                      NEW u \in User, ustate'[u] = "deleted"
               PROVE  /\ email'[u] = None
                      /\ \A j \in Jti : status'[j] = "active" /\ owner'[j] = u => j \in tainted'
                      /\ \/ passwd'[u] = None
                         \/ ustate[u] = "deleted" /\ passwd'[u] = passwd[u]
                         \/ \E r \in dirty : req[r].pc = "patchCommit" /\ req[r].user = u
    OBVIOUS
  <2>1. email'[u] = None /\ \A j \in Jti : status'[j] = "active" /\ owner'[j] = u => j \in tainted'
    BY DEF DeletedInv
  <2>2. QED
    BY <2>1, HashStep
<1>2. Spec => []DeletedInv
  BY DeletedInit, DeletedStep, OverlapInvariant, PTL DEF Spec
<1>3. QED
  BY <1>1, <1>2, OverlapInvariant, TypeCorrect, PTL DEF Spec, DeletionHolds
------------------------------------------------------------------------------
(***************************************************************************)
(* The ledger: every step of a request is a step of TokenLedger, or none.  *)
(***************************************************************************)
\* An empty table is an empty ledger.
LEMMA LedgerInit == Init => Ledger!Init
BY DEF Init, Ledger!Init

\* Open, Rotate, Revoke, Expire and Purge, as each step's commit needs.
LEMMA LedgerStep == OverlapInv /\ [Next]_vars => [Ledger!Next]_(Ledger!ledger)
<1> SUFFICES ASSUME OverlapInv, [Next]_vars PROVE Ledger!Next \/ UNCHANGED Ledger!ledger
  OBVIOUS
<1>0. TypeOK /\ TypeOK'
  BY TypeStep DEF OverlapInv
<1>1. ASSUME NEW u \in User, NEW e \in Email, NEW pw \in Password, NEW k \in Jti, Signup(u, e, pw, k)
      PROVE Ledger!Next \/ UNCHANGED Ledger!ledger
  <2>1. Ledger!Open(k, u)
    BY <1>1 DEF Signup, Insert, Ledger!Open, Ledger!Record
  <2>2. QED
    BY <2>1 DEF Ledger!Next
<1>2. ASSUME NEW r \in Req, NEW u \in User, NEW e \in Email, NEW pw \in Password, LoginRead(r, u, e, pw)
      PROVE Ledger!Next \/ UNCHANGED Ledger!ledger
  BY <1>2 DEF LoginRead, Ledger!ledger
<1>3. ASSUME NEW r \in Req, NEW k \in Jti, LoginCommit(r, k)
      PROVE Ledger!Next \/ UNCHANGED Ledger!ledger
  <2>1. Ledger!Open(k, req[r].user) /\ req[r].user \in User
    BY <1>3, <1>0 DEF LoginCommit, Insert, TypeOK, Ledger!Open, Ledger!Record
  <2>2. QED
    BY <2>1 DEF Ledger!Next
<1>4. ASSUME NEW r \in Req, NEW k \in Jti, RotateCommit(r, k)
      PROVE Ledger!Next \/ UNCHANGED Ledger!ledger
  <2>1. Ledger!Rotate(req[r].tok, k) /\ req[r].tok \in Jti
    BY <1>4, <1>0 DEF RotateCommit, Insert, Row, TypeOK, Ledger!Rotate, Ledger!Record
  <2>2. QED
    BY <2>1 DEF Ledger!Next
<1>5. ASSUME NEW r \in Req, NEW j \in Jti, RefreshRead(r, j)
      PROVE Ledger!Next \/ UNCHANGED Ledger!ledger
  BY <1>5 DEF RefreshRead, Ledger!ledger
<1>6. ASSUME NEW r \in Req, NEW j \in Jti, LogoutRead(r, j)
      PROVE Ledger!Next \/ UNCHANGED Ledger!ledger
  BY <1>6 DEF LogoutRead, Ledger!ledger
<1>7. ASSUME NEW r \in Req, NEW u \in User, NEW cur \in Password, NEW new \in Password, PatchRead(r, u, cur, new)
      PROVE Ledger!Next \/ UNCHANGED Ledger!ledger
  BY <1>7 DEF PatchRead, Ledger!ledger
<1>8. ASSUME NEW r \in Req, NEW u \in User, DeleteRead(r, u)
      PROVE Ledger!Next \/ UNCHANGED Ledger!ledger
  BY <1>8 DEF DeleteRead, Ledger!ledger
<1>9. ASSUME NEW r \in Req, ReuseUpdate(r)
      PROVE Ledger!Next \/ UNCHANGED Ledger!ledger
  BY <1>9 DEF ReuseUpdate, Ledger!ledger
<1>10. ASSUME NEW r \in Req, ReuseCommit(r)
      PROVE Ledger!Next \/ UNCHANGED Ledger!ledger
  <2>1. Ledger!Revoke(req[r].seen)
    BY <1>10 DEF ReuseCommit, FinishRevocation, Revoked, Ledger!Revoke
  <2>2. req[r].seen \in SUBSET Jti
    BY <1>0 DEF TypeOK, Request
  <2>3. QED
    BY <2>1, <2>2 DEF Ledger!Next
<1>11. ASSUME NEW r \in Req, LogoutCommit(r)
      PROVE Ledger!Next \/ UNCHANGED Ledger!ledger
  <2>1. Ledger!Revoke({req[r].tok}) /\ req[r].tok \in Jti
    BY <1>11, <1>0 DEF LogoutCommit, Revoked, TypeOK, Ledger!Revoke
  <2>2. QED
    BY <2>1 DEF Ledger!Next
<1>12. ASSUME NEW r \in Req, AccountUpdate(r)
      PROVE Ledger!Next \/ UNCHANGED Ledger!ledger
  BY <1>12 DEF AccountUpdate, Ledger!ledger
<1>13. ASSUME NEW r \in Req, PatchCommit(r)
      PROVE Ledger!Next \/ UNCHANGED Ledger!ledger
  <2>1. Ledger!Revoke(req[r].seen)
    BY <1>13 DEF PatchCommit, FinishRevocation, Revoked, Ledger!Revoke
  <2>2. req[r].seen \in SUBSET Jti
    BY <1>0 DEF TypeOK, Request
  <2>3. QED
    BY <2>1, <2>2 DEF Ledger!Next
<1>14. ASSUME NEW r \in Req, DeleteCommit(r)
      PROVE Ledger!Next \/ UNCHANGED Ledger!ledger
  <2>1. Ledger!Revoke(req[r].seen)
    BY <1>14 DEF DeleteCommit, FinishRevocation, Revoked, Ledger!Revoke
  <2>2. req[r].seen \in SUBSET Jti
    BY <1>0 DEF TypeOK, Request
  <2>3. QED
    BY <2>1, <2>2 DEF Ledger!Next
<1>15. ASSUME NEW r \in Req, Abort(r)
      PROVE Ledger!Next \/ UNCHANGED Ledger!ledger
  BY <1>15 DEF Abort, Ledger!ledger
<1>16. ASSUME NEW j \in Jti, Age(j)
      PROVE Ledger!Next \/ UNCHANGED Ledger!ledger
  <2>1. CASE life[j] = 0
    <3>1. Ledger!Expire(j)
      BY <1>16, <1>0, <2>1 DEF Age, TypeOK, Ledger!Expire
    <3>2. QED
      BY <3>1 DEF Ledger!Next
  <2>2. CASE life[j] # 0
    BY <1>16, <1>0, <2>2 DEF Age, TypeOK, Ledger!ledger
  <2>3. QED
    BY <2>1, <2>2
<1>17. CASE Restart
  <2> DEFINE S == {j \in Jti : Row(j) /\ life[j] = 2}
  <2>1. CASE UNCHANGED status
    BY <1>17, <2>1 DEF Restart, Ledger!ledger
  <2>2. CASE status' = [j \in Jti |-> IF Row(j) /\ life[j] = 2 THEN "swept" ELSE status[j]]
    <3>1. Ledger!Purge(S)
      BY <1>17, <2>2 DEF Restart, Row, Ledger!Purge
    <3>2. QED
      BY <3>1 DEF Ledger!Next
  <2>3. QED
    BY <1>17, <2>1, <2>2 DEF Restart
<1>18. CASE UNCHANGED vars
  BY <1>18 DEF vars, Ledger!ledger
<1>19. QED
  BY <1>1, <1>2, <1>3, <1>4, <1>5, <1>6, <1>7, <1>8, <1>9, <1>10, <1>11, <1>12, <1>13, <1>14, <1>15, <1>16, <1>17, <1>18 DEF Next

\* The two services and the sweep implement TokenLedger: lineage is kept,
\* revocation is final, no row with a presentable JWT is swept.
THEOREM LedgerImplemented == Spec => LedgerSpec
<1>1. QED
  BY LedgerInit, LedgerStep, OverlapInvariant, PTL DEF Spec, LedgerSpec, Ledger!Spec

\* Lineage follows from the ledger's own steps.
LEMMA LineageKept == Ledger!Spec => [](Ledger!LedgerTypeOK /\ Ledger!Lineage)
<1> USE NoneAssumption DEF Ledger!LedgerTypeOK, Ledger!Lineage
<1>1. Ledger!Init => Ledger!LedgerTypeOK /\ Ledger!Lineage
  BY DEF Ledger!Init
<1>2. Ledger!LedgerTypeOK /\ Ledger!Lineage /\ [Ledger!Next]_(Ledger!ledger)
        => (Ledger!LedgerTypeOK /\ Ledger!Lineage)'
  <2> SUFFICES ASSUME Ledger!LedgerTypeOK, Ledger!Lineage, [Ledger!Next]_(Ledger!ledger)
               PROVE  (Ledger!LedgerTypeOK /\ Ledger!Lineage)'
    OBVIOUS
  <2>1. ASSUME NEW k \in Jti, NEW u \in User, Ledger!Open(k, u)
        PROVE  (Ledger!LedgerTypeOK /\ Ledger!Lineage)'
    BY <2>1 DEF Ledger!Open, Ledger!Record
  <2>2. ASSUME NEW j \in Jti, NEW k \in Jti, Ledger!Rotate(j, k)
        PROVE  (Ledger!LedgerTypeOK /\ Ledger!Lineage)'
    BY <2>2 DEF Ledger!Rotate, Ledger!Record
  <2>3. ASSUME NEW S \in SUBSET Jti, Ledger!Revoke(S)
        PROVE  (Ledger!LedgerTypeOK /\ Ledger!Lineage)'
    BY <2>3 DEF Ledger!Revoke
  <2>4. ASSUME NEW S \in SUBSET Jti, Ledger!Purge(S)
        PROVE  (Ledger!LedgerTypeOK /\ Ledger!Lineage)'
    BY <2>4 DEF Ledger!Purge
  <2>5. ASSUME NEW j \in Jti, Ledger!Expire(j)
        PROVE  (Ledger!LedgerTypeOK /\ Ledger!Lineage)'
    BY <2>5 DEF Ledger!Expire
  <2>6. CASE UNCHANGED Ledger!ledger
    BY <2>6 DEF Ledger!ledger
  <2>7. QED
    BY <2>1, <2>2, <2>3, <2>4, <2>5, <2>6 DEF Ledger!Next
<1>3. QED
  BY <1>1, <1>2, PTL DEF Ledger!Spec

\* Hence, of the rows of refresh_tokens: a token that was rotated is not active,
\* and its successor has its user and its family.
COROLLARY RotatedIsRevoked == Spec => []Ledger!Lineage
<1>1. LedgerSpec => [](Ledger!LedgerTypeOK /\ Ledger!Lineage)
  BY LineageKept DEF LedgerSpec
<1>2. QED
  BY <1>1, LedgerImplemented, PTL
------------------------------------------------------------------------------
(***************************************************************************)
(* How far a rotation can fork.                                            *)
(***************************************************************************)

\* The requests that are about to rotate j.
Rotating(j) == {r \in Req : req[r].pc = "rotate" /\ req[r].tok = j}

ForkInv ==
  /\ \A k \in Jti : status[k] = "none" => parent[k] = None
  /\ \A j, k \in Jti : parent[k] = j => status[j] \in {"revoked", "swept"}
  /\ \A j \in Jti : /\ IsFiniteSet(Children(j))
                    /\ Cardinality(Children(j)) + Cardinality(Rotating(j)) <= Cardinality(Req)

\* There are at most as many rotations in flight as request slots.
LEMMA RotatingFinite ==
  ASSUME NEW j
  PROVE  /\ IsFiniteSet(Rotating(j))
         /\ Cardinality(Rotating(j)) \in Nat
         /\ Cardinality(Rotating(j)) <= Cardinality(Req)
         /\ Cardinality(Req) \in Nat
BY ReqAssumption, FS_Subset, FS_CardinalityType DEF Rotating

\* No token has a successor yet.
LEMMA ForkInit == Init => ForkInv
<1> SUFFICES ASSUME Init PROVE ForkInv
  OBVIOUS
<1>1. ASSUME NEW j \in Jti PROVE Children(j) = {}
  BY NoneAssumption DEF Init, Children
<1>2. QED
  BY <1>1, RotatingFinite, FS_EmptySet, NoneAssumption DEF Init, ForkInv

\* A step that links no new token and starts no rotation can only shrink the sums.
LEMMA ForkQuiet ==
  ASSUME TypeOK, ForkInv, UNCHANGED parent,
         \A j \in Jti : status'[j] = "none" => status[j] = "none",
         \A j \in Jti : status[j] \in {"revoked", "swept"} => status'[j] \in {"revoked", "swept"},
         \A j \in Jti : Rotating(j)' \subseteq Rotating(j)
  PROVE  ForkInv'
<1>1. ASSUME NEW j \in Jti
      PROVE  /\ IsFiniteSet(Children(j)')
             /\ Cardinality(Children(j)') + Cardinality(Rotating(j)') <= Cardinality(Req)
  <2>1. Children(j)' = Children(j)
    BY DEF Children
  <2>2. IsFiniteSet(Children(j)) /\ Cardinality(Children(j)) \in Nat
    BY FS_CardinalityType DEF ForkInv
  <2>3. Cardinality(Rotating(j)') <= Cardinality(Rotating(j)) /\ Cardinality(Rotating(j)') \in Nat
    BY RotatingFinite, FS_Subset, FS_CardinalityType
  <2>4. Cardinality(Children(j)) + Cardinality(Rotating(j)) <= Cardinality(Req)
    BY DEF ForkInv
  <2>5. QED
    BY <2>1, <2>2, <2>3, <2>4, RotatingFinite
<1>2. QED
  BY <1>1 DEF ForkInv, TypeOK

\* A rotation moves one request from Rotating to one token in Children; a read
\* joins Rotating only while the token is active, hence without successors.
LEMMA ForkStep == OverlapInv /\ ForkInv /\ [Next]_vars => ForkInv'
<1> SUFFICES ASSUME OverlapInv, ForkInv, [Next]_vars PROVE ForkInv'
  OBVIOUS
<1>0. TypeOK /\ TypeOK' /\ References
  BY TypeStep DEF OverlapInv
<1> USE NoneAssumption, <1>0
<1>1. ASSUME NEW u \in User, NEW e \in Email, NEW pw \in Password, NEW k \in Jti, Signup(u, e, pw, k)
      PROVE ForkInv'
  <2>1. UNCHANGED parent
    BY <1>1 DEF Signup, Insert, ForkInv, TypeOK
  <2>2. \A j \in Jti : Rotating(j)' \subseteq Rotating(j)
    BY <1>1 DEF Signup, Finish, Idle, Rotating, TypeOK
  <2>3. QED
    BY <1>1, <2>1, <2>2, ForkQuiet DEF Signup, TypeOK
<1>2. ASSUME NEW r \in Req, NEW u \in User, NEW e \in Email, NEW pw \in Password, LoginRead(r, u, e, pw)
      PROVE ForkInv'
  <2>1. \A i \in Jti : Rotating(i)' \subseteq Rotating(i)
    BY <1>2 DEF LoginRead, Goto, Rotating, TypeOK
  <2>2. QED
    BY <1>2, <2>1, ForkQuiet DEF LoginRead, Goto, TypeOK
<1>3. ASSUME NEW r \in Req, NEW k \in Jti, LoginCommit(r, k)
      PROVE ForkInv'
  <2>1. UNCHANGED parent
    BY <1>3 DEF LoginCommit, Insert, ForkInv, TypeOK
  <2>2. \A j \in Jti : Rotating(j)' \subseteq Rotating(j)
    BY <1>3 DEF LoginCommit, Finish, Idle, Rotating, TypeOK
  <2>3. QED
    BY <1>3, <2>1, <2>2, ForkQuiet DEF LoginCommit, TypeOK
<1>4. ASSUME NEW r \in Req, NEW k \in Jti, RotateCommit(r, k)
      PROVE ForkInv'
  <2>0. PICK j \in Jti : j = req[r].tok
    BY <1>4 DEF RotateCommit, TypeOK
  <2>1. /\ j # k /\ status[j] # "none" /\ status[k] = "none"
        /\ parent[k] = None /\ r \in Rotating(j)
    BY <1>4, <2>0 DEF RotateCommit, Row, Rotating, TypeOK, ForkInv
  <2>2. /\ Children(j)' = Children(j) \cup {k}
        /\ k \notin Children(j)
        /\ Rotating(j)' \subseteq Rotating(j) \ {r}
    BY <1>4, <2>0, <2>1 DEF RotateCommit, Insert, Finish, Idle, Children, Rotating, TypeOK
  <2>3. ASSUME NEW i \in Jti, i # j
        PROVE  Rotating(i)' \subseteq Rotating(i) /\ Children(i)' = Children(i)
    BY <1>4, <2>0, <2>1, <2>3 DEF RotateCommit, Insert, Finish, Idle, Children, Rotating, TypeOK
  <2>4. ASSUME NEW i \in Jti
        PROVE  /\ IsFiniteSet(Children(i)')
               /\ Cardinality(Children(i)') + Cardinality(Rotating(i)') <= Cardinality(Req)
    <3>1. /\ IsFiniteSet(Children(i)) /\ Cardinality(Children(i)) \in Nat
          /\ Cardinality(Children(i)) + Cardinality(Rotating(i)) <= Cardinality(Req)
      BY FS_CardinalityType DEF ForkInv
    <3>2. CASE i = j
      <4>1. Cardinality(Children(j)') = Cardinality(Children(j)) + 1 /\ IsFiniteSet(Children(j)')
        BY <2>2, <3>1, <3>2, FS_AddElement
      <4>2. /\ IsFiniteSet(Rotating(j) \ {r})
            /\ Cardinality(Rotating(j) \ {r}) = Cardinality(Rotating(j)) - 1
        BY <2>1, RotatingFinite, FS_RemoveElement
      <4>3. /\ Cardinality(Rotating(j)') <= Cardinality(Rotating(j) \ {r})
            /\ Cardinality(Rotating(j)') \in Nat
        BY <2>2, <4>2, FS_Subset, FS_CardinalityType
      <4>4. QED
        BY <3>1, <3>2, <4>1, <4>2, <4>3, RotatingFinite
    <3>3. CASE i # j
      <4>1. Cardinality(Rotating(i)') <= Cardinality(Rotating(i)) /\ Cardinality(Rotating(i)') \in Nat
        BY <2>3, <3>3, RotatingFinite, FS_Subset, FS_CardinalityType
      <4>2. QED
        BY <2>3, <3>1, <3>3, <4>1, RotatingFinite
    <3>4. QED
      BY <3>2, <3>3
  <2>5. /\ \A x \in Jti : status'[x] = "none" => parent'[x] = None
        /\ \A y, x \in Jti : parent'[x] = y => status'[y] \in {"revoked", "swept"}
    BY <1>4, <2>0, <2>1 DEF RotateCommit, Insert, ForkInv, TypeOK
  <2>6. QED
    BY <2>4, <2>5 DEF ForkInv
<1>5. ASSUME NEW r \in Req, NEW j \in Jti, RefreshRead(r, j)
      PROVE ForkInv'
  <2>1. CASE status[j] = "revoked"
    <3>1. \A i \in Jti : Rotating(i)' \subseteq Rotating(i)
      BY <1>5, <2>1 DEF RefreshRead, Goto, Rotating, TypeOK
    <3>2. QED
      BY <1>5, <3>1, ForkQuiet DEF RefreshRead
  <2>2. CASE status[j] = "active"
    <3>1. Children(j) = {} /\ Children(j)' = {}
      BY <1>5, <2>2 DEF RefreshRead, ForkInv, Children
    <3>2. ASSUME NEW i \in Jti, i # j
          PROVE  Rotating(i)' \subseteq Rotating(i) /\ Children(i)' = Children(i)
      BY <1>5, <2>2, <3>2 DEF RefreshRead, Goto, Rotating, TypeOK, Children
    <3>3. /\ IsFiniteSet(Rotating(j)')
          /\ Cardinality(Rotating(j)') \in Nat
          /\ Cardinality(Rotating(j)') <= Cardinality(Req)
      BY ReqAssumption, FS_Subset, FS_CardinalityType DEF Rotating
    <3>4. ASSUME NEW i \in Jti
          PROVE  /\ IsFiniteSet(Children(i)')
                 /\ Cardinality(Children(i)') + Cardinality(Rotating(i)') <= Cardinality(Req)
      <4>1. CASE i = j
        BY <3>1, <3>3, <4>1, FS_EmptySet
      <4>2. CASE i # j
        <5>1. Cardinality(Rotating(i)') <= Cardinality(Rotating(i)) /\ Cardinality(Rotating(i)') \in Nat
          BY <3>2, <4>2, RotatingFinite, FS_Subset, FS_CardinalityType
        <5>2. /\ IsFiniteSet(Children(i)) /\ Cardinality(Children(i)) \in Nat
              /\ Cardinality(Children(i)) + Cardinality(Rotating(i)) <= Cardinality(Req)
          BY FS_CardinalityType DEF ForkInv
        <5>3. QED
          BY <3>2, <4>2, <5>1, <5>2, RotatingFinite
      <4>3. QED
        BY <4>1, <4>2
    <3>5. QED
      BY <1>5, <3>4 DEF RefreshRead, ForkInv
  <2>3. QED
    BY <1>5, <2>1, <2>2 DEF RefreshRead, Presented, Row
<1>6. ASSUME NEW r \in Req, NEW j \in Jti, LogoutRead(r, j)
      PROVE ForkInv'
  <2>1. \A i \in Jti : Rotating(i)' \subseteq Rotating(i)
    BY <1>6 DEF LogoutRead, Goto, Rotating, TypeOK
  <2>2. QED
    BY <1>6, <2>1, ForkQuiet DEF LogoutRead, Goto, TypeOK
<1>7. ASSUME NEW r \in Req, NEW u \in User, NEW cur \in Password, NEW new \in Password, PatchRead(r, u, cur, new)
      PROVE ForkInv'
  <2>1. \A i \in Jti : Rotating(i)' \subseteq Rotating(i)
    BY <1>7 DEF PatchRead, Goto, Rotating, TypeOK
  <2>2. QED
    BY <1>7, <2>1, ForkQuiet DEF PatchRead, Goto, TypeOK
<1>8. ASSUME NEW r \in Req, NEW u \in User, DeleteRead(r, u)
      PROVE ForkInv'
  <2>1. \A i \in Jti : Rotating(i)' \subseteq Rotating(i)
    BY <1>8 DEF DeleteRead, Goto, Rotating, TypeOK
  <2>2. QED
    BY <1>8, <2>1, ForkQuiet DEF DeleteRead, Goto, TypeOK
<1>9. ASSUME NEW r \in Req, ReuseUpdate(r)
      PROVE ForkInv'
  <2>1. \A i \in Jti : Rotating(i)' \subseteq Rotating(i)
    BY <1>9 DEF ReuseUpdate, Goto, ActiveIn, Rotating, TypeOK
  <2>2. QED
    BY <1>9, <2>1, ForkQuiet DEF ReuseUpdate, Goto, ActiveIn, TypeOK
<1>10. ASSUME NEW r \in Req, ReuseCommit(r)
      PROVE ForkInv'
  <2>1. \A i \in Jti : Rotating(i)' \subseteq Rotating(i)
    BY <1>10 DEF ReuseCommit, FinishRevocation, Revoked, Idle, Rotating, TypeOK
  <2>2. QED
    BY <1>10, <2>1, ForkQuiet DEF ReuseCommit, FinishRevocation, Revoked, Idle, TypeOK
<1>11. ASSUME NEW r \in Req, LogoutCommit(r)
      PROVE ForkInv'
  <2>1. \A i \in Jti : Rotating(i)' \subseteq Rotating(i)
    BY <1>11 DEF LogoutCommit, Finish, Revoked, Idle, Rotating, TypeOK
  <2>2. QED
    BY <1>11, <2>1, ForkQuiet DEF LogoutCommit, Finish, Revoked, Idle, TypeOK
<1>12. ASSUME NEW r \in Req, AccountUpdate(r)
      PROVE ForkInv'
  <2>1. \A i \in Jti : Rotating(i)' \subseteq Rotating(i)
    BY <1>12 DEF AccountUpdate, Goto, ActiveOf, Rotating, TypeOK
  <2>2. QED
    BY <1>12, <2>1, ForkQuiet DEF AccountUpdate, Goto, ActiveOf, TypeOK
<1>13. ASSUME NEW r \in Req, PatchCommit(r)
      PROVE ForkInv'
  <2>1. \A i \in Jti : Rotating(i)' \subseteq Rotating(i)
    BY <1>13 DEF PatchCommit, FinishRevocation, Revoked, Idle, Rotating, TypeOK
  <2>2. QED
    BY <1>13, <2>1, ForkQuiet DEF PatchCommit, FinishRevocation, Revoked, Idle, TypeOK
<1>14. ASSUME NEW r \in Req, DeleteCommit(r)
      PROVE ForkInv'
  <2>1. \A i \in Jti : Rotating(i)' \subseteq Rotating(i)
    BY <1>14 DEF DeleteCommit, FinishRevocation, Revoked, Idle, Rotating, TypeOK
  <2>2. QED
    BY <1>14, <2>1, ForkQuiet DEF DeleteCommit, FinishRevocation, Revoked, Idle, TypeOK
<1>15. ASSUME NEW r \in Req, Abort(r)
      PROVE ForkInv'
  <2>1. \A i \in Jti : Rotating(i)' \subseteq Rotating(i)
    BY <1>15 DEF Abort, Finish, Idle, Rotating, TypeOK
  <2>2. QED
    BY <1>15, <2>1, ForkQuiet DEF Abort, Finish, Idle, TypeOK
<1>16. ASSUME NEW j \in Jti, Age(j)
      PROVE ForkInv'
  <2>1. \A i \in Jti : Rotating(i)' \subseteq Rotating(i)
    BY <1>16 DEF Age, Rotating
  <2>2. QED
    BY <1>16, <2>1, ForkQuiet DEF Age
<1>17. CASE Restart
  <2>1. \A i \in Jti : Rotating(i)' \subseteq Rotating(i)
    BY <1>17 DEF Restart, Idle, Row, Rotating, TypeOK
  <2>2. QED
    BY <1>17, <2>1, ForkQuiet DEF Restart, Idle, Row, TypeOK
<1>18. CASE UNCHANGED vars
  <2>1. \A i \in Jti : Rotating(i)' \subseteq Rotating(i)
    BY <1>18 DEF vars, Rotating
  <2>2. QED
    BY <1>18, <2>1, ForkQuiet DEF vars
<1>19. QED
  BY <1>1, <1>2, <1>3, <1>4, <1>5, <1>6, <1>7, <1>8, <1>9, <1>10, <1>11, <1>12, <1>13, <1>14, <1>15, <1>16, <1>17, <1>18 DEF Next

\* A token never has more successors than there are requests in flight: once it
\* is revoked, only the requests that had read it before can still rotate it.
THEOREM ForksBounded == Spec => []ForkBound
<1>1. Spec => []ForkInv
  BY ForkInit, ForkStep, OverlapInvariant, PTL DEF Spec
<1>2. ForkInv => ForkBound
  <2> SUFFICES ASSUME ForkInv, NEW j \in Jti
               PROVE  Cardinality(Children(j)) <= Cardinality(Req)
    BY DEF ForkBound
  <2>1. /\ IsFiniteSet(Children(j))
        /\ Cardinality(Children(j)) + Cardinality(Rotating(j)) <= Cardinality(Req)
    BY DEF ForkInv
  <2>2. QED
    BY <2>1, RotatingFinite, FS_CardinalityType
<1>3. QED
  BY <1>1, <1>2, PTL
==============================================================================
