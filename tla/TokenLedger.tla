----------------------------- MODULE TokenLedger -----------------------------
(***************************************************************************)
(* What the refresh_tokens table promises to the rest of the server, with  *)
(* no requests, statements or transactions in sight.                       *)
(*                                                                         *)
(* A refresh token is opened once, as the head of a family of its own or   *)
(* as the successor of an older token of the same user and family.  From   *)
(* the moment it has a successor it is revoked; revocation is final; and   *)
(* its row is only purged once no client can present its JWT any more, so  *)
(* that a replayed token is always recognised as revoked rather than as    *)
(* unknown.  AuthTokens, the detailed specification, implements this one.  *)
(***************************************************************************)

CONSTANTS
  User,   \* users.user_id values
  Jti,    \* refresh_tokens.jti values; a family is named after its first jti
  None    \* no user, no token

VARIABLES
  status,       \* "none", "active" (revoked_at NULL), "revoked" or "swept"
  owner,        \* the token's user
  family,       \* the token's family
  parent,       \* the token it was rotated from, None for the head of a family
  presentable   \* tokens whose JWT has not expired: a client may still send it

ledger == <<status, owner, family, parent, presentable>>

Init ==
  /\ status = [j \in Jti |-> "none"]
  /\ owner = [j \in Jti |-> None]
  /\ family = [j \in Jti |-> None]
  /\ parent = [j \in Jti |-> None]
  /\ presentable = Jti

Record(k, u, f, p) ==
  /\ owner' = [owner EXCEPT ![k] = u]
  /\ family' = [family EXCEPT ![k] = f]
  /\ parent' = [parent EXCEPT ![k] = p]

\* Signup and login: a token at the head of a new family.
Open(k, u) ==
  /\ status[k] = "none"
  /\ status' = [status EXCEPT ![k] = "active"]
  /\ Record(k, u, k, None)
  /\ UNCHANGED presentable

\* Rotation.  The ledger does not promise that j was still active: two
\* overlapping rotations of one token both succeed (AuthTokens!ForkBound).
Rotate(j, k) ==
  /\ status[j] \in {"active", "revoked"}
  /\ status[k] = "none"
  /\ status' = [status EXCEPT ![j] = "revoked", ![k] = "active"]
  /\ Record(k, owner[j], family[j], j)
  /\ UNCHANGED presentable

\* Logout, reuse detection, password change, account deletion.
Revoke(S) ==
  /\ status' = [j \in Jti |-> IF j \in S /\ status[j] = "active" THEN "revoked" ELSE status[j]]
  /\ UNCHANGED <<owner, family, parent, presentable>>

\* The JWT's exp passes.
Expire(j) ==
  /\ presentable' = presentable \ {j}
  /\ UNCHANGED <<status, owner, family, parent>>

\* The start-up sweep.
Purge(S) ==
  /\ S \cap presentable = {}
  /\ status' = [j \in Jti |-> IF j \in S /\ status[j] # "none" THEN "swept" ELSE status[j]]
  /\ UNCHANGED <<owner, family, parent, presentable>>

Next ==
  \/ \E k \in Jti, u \in User : Open(k, u)
  \/ \E j, k \in Jti : Rotate(j, k)
  \/ \E S \in SUBSET Jti : Revoke(S) \/ Purge(S)
  \/ \E j \in Jti : Expire(j)

Spec == Init /\ [][Next]_ledger
------------------------------------------------------------------------------
(***************************************************************************)
(* The ledger's typing, and its lineage: a token that has a successor is   *)
(* no longer active, and the successor has its user and its family         *)
(* (auth_service.refresh_tokens revokes the old jti in the transaction     *)
(* that inserts the new one, under the old family_id).                     *)
(***************************************************************************)
LedgerTypeOK ==
  /\ status \in [Jti -> {"none", "active", "revoked", "swept"}]
  /\ owner \in [Jti -> User \cup {None}]
  /\ family \in [Jti -> Jti \cup {None}]
  /\ parent \in [Jti -> Jti \cup {None}]
  /\ presentable \subseteq Jti

\* Unissued tokens have no parent and no successor; the head of a family is
\* never its own parent.
Lineage ==
  /\ \A k \in Jti : status[k] = "none" => parent[k] = None
  /\ \A j, k \in Jti : parent[k] = j =>
       /\ status[j] \in {"revoked", "swept"}
       /\ owner[k] = owner[j]
       /\ family[k] = family[j]
==============================================================================
