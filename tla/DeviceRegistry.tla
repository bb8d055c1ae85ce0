---------------------------- MODULE DeviceRegistry ----------------------------
(***************************************************************************)
(* What the table device_tokens is to the accounts, with no request, no    *)
(* transaction and no sending job in sight: each registration, removal and *)
(* revocation happens at once.                                             *)
(*                                                                         *)
(* A token has one holder.  A registration makes its user the holder and   *)
(* the token active, under a device_id never given out before unless the   *)
(* user holds the token already; no other step changes the holder, but a   *)
(* removal, which leaves none.  A registration a job's revocation came     *)
(* across (Touch) promises nothing of the token's activity.                *)
(* PushDelivery, the detailed specification, implements this one.          *)
(***************************************************************************)
CONSTANTS
  User,   \* users.user_id values
  Token,  \* FCM tokens of app instances
  Id,     \* device_id values
  None    \* no holder, no registration

VARIABLES
  held,    \* held[t]: None, or device_id, holder and revocation of token t
  given,   \* device_id values given out so far
  claim    \* claim[t]: whose registration of t holds as it was acknowledged

registry == <<held, given, claim>>

Init ==
  /\ held = [t \in Token |-> None]
  /\ given = {}
  /\ claim = [t \in Token |-> None]

\* A token new to the table, or one that leaves another user's account.
Enter(t, u, i) ==
  /\ held[t] = None \/ held[t].user # u
  /\ i \notin given
  /\ held' = [held EXCEPT ![t] = [id |-> i, user |-> u, revoked |-> FALSE]]
  /\ given' = given \cup {i}
  /\ claim' = [claim EXCEPT ![t] = u]

\* The holder registers again.
Renew(t) ==
  /\ held[t] # None
  /\ held' = [held EXCEPT ![t].revoked = FALSE]
  /\ claim' = [claim EXCEPT ![t] = held[t].user]
  /\ UNCHANGED given

\* The holder registers again while a job revokes the token.
Touch(t) ==
  /\ held[t] # None
  /\ \/ UNCHANGED held
     \/ held' = [held EXCEPT ![t].revoked = FALSE]
  /\ claim' = [claim EXCEPT ![t] = None]
  /\ UNCHANGED given

Leave(t) ==
  /\ held[t] # None
  /\ held' = [held EXCEPT ![t] = None]
  /\ claim' = [claim EXCEPT ![t] = None]
  /\ UNCHANGED given

Revoke(t) ==
  /\ held[t] # None
  /\ held' = [held EXCEPT ![t].revoked = TRUE]
  /\ claim' = [claim EXCEPT ![t] = None]
  /\ UNCHANGED given

Next ==
  \E t \in Token :
    \/ \E u \in User, i \in Id : Enter(t, u, i)
    \/ Renew(t) \/ Touch(t) \/ Leave(t) \/ Revoke(t)

Spec == Init /\ [][Next]_registry
==============================================================================
