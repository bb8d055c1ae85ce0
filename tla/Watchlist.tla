------------------------------ MODULE Watchlist ------------------------------
(***************************************************************************)
(* A user's watchlist and its cap: app/services/watchlist_service.py over  *)
(* the table watchlist, primary key (user_id, ticker).                     *)
(*                                                                         *)
(* POST /watchlist validates and then inserts, without a lock: the SELECTs *)
(* of the validation are snapshots of their own (READ COMMITTED) and the   *)
(* INSERT commits later, so the requests of one user (several tabs, a      *)
(* retry) validate against a count that others are about to change.        *)
(*                                                                         *)
(* Ticker holds the active tickers; a request for any other is rejected    *)
(* before it looks at the watchlist.  Left out: the order and the fields   *)
(* of the listing, and the rejections that leave the table as it was.      *)
(***************************************************************************)
EXTENDS Naturals, FiniteSets

CONSTANTS
  User,    \* users.user_id values
  Ticker,  \* active tickers
  Req,     \* request slots: how many requests may be in flight at once
  Limit,   \* WATCHLIST_LIMIT
  None     \* no user, no ticker

ASSUME SlotAssumption == IsFiniteSet(Req) /\ Req # {}

ASSUME TickerAssumption == IsFiniteSet(Ticker)

ASSUME LimitAssumption == Limit \in Nat

ASSUME NoneAssumption == None \notin User \cup Ticker

VARIABLES
  rows,    \* rows[u]: the tickers on u's list
  req      \* what each add request in flight has validated

listVars == <<rows, req>>

Idle == [pc |-> "idle", user |-> None, ticker |-> None]

ListInit ==
  /\ rows = [u \in User |-> {}]
  /\ req = [r \in Req |-> Idle]

\* add_watchlist, phase 1: the row is not there yet.
AddCheck(r, u, t) ==
  /\ req[r].pc = "idle"
  /\ t \notin rows[u]
  /\ req' = [req EXCEPT ![r] = [pc |-> "unique", user |-> u, ticker |-> t]]
  /\ UNCHANGED rows

\* Mutation: > for >= in the comparison with the cap.
AddCountLate(r) ==
  /\ req[r].pc = "unique"
  /\ Cardinality(rows[req[r].user]) <= Limit
  /\ req' = [req EXCEPT ![r].pc = "counted"]
  /\ UNCHANGED rows

\* The count is below the cap (at the cap or above: Reject).
AddCount(r) ==
  /\ req[r].pc = "unique"
  /\ Cardinality(rows[req[r].user]) < Limit
  /\ req' = [req EXCEPT ![r].pc = "counted"]
  /\ UNCHANGED rows

\* Phase 2: INSERT and COMMIT.  A row that another request has inserted
\* meanwhile is an IntegrityError, rolled back and answered as a duplicate.
AddCommit(r) ==
  /\ req[r].pc = "counted"
  /\ rows' = [rows EXCEPT ![req[r].user] = @ \cup {req[r].ticker}]
  /\ req' = [req EXCEPT ![r] = Idle]

\* The cap is reached, or the request fails before its commit.
Reject(r) ==
  /\ req[r].pc # "idle"
  /\ req' = [req EXCEPT ![r] = Idle]
  /\ UNCHANGED rows

\* remove_watchlist: one DELETE, committed; a ticker that is not there is fine.
Remove(u, t) ==
  /\ rows' = [rows EXCEPT ![u] = @ \ {t}]
  /\ UNCHANGED req

ListNext ==
  \/ \E r \in Req, u \in User, t \in Ticker : AddCheck(r, u, t)
  \/ \E r \in Req : AddCount(r) \/ AddCommit(r) \/ Reject(r)
  \/ \E u \in User, t \in Ticker : Remove(u, t)

ListSpec == ListInit /\ [][ListNext]_listVars
------------------------------------------------------------------------------
(* Properties *)

TypeOK ==
  /\ rows \in [User -> SUBSET Ticker]
  /\ req \in [Req -> [pc : {"idle", "unique", "counted"},
                      user : User \cup {None}, ticker : Ticker \cup {None}]]
  /\ \A r \in Req : req[r].pc # "idle" => req[r].user \in User /\ req[r].ticker \in Ticker

\* Adds for u that have passed the cap and will insert.
Pending(u) == {r \in Req : req[r].pc = "counted" /\ req[r].user = u}

\* add_watchlist validates without a lock, so a list can exceed the cap; it
\* never exceeds it by more than the requests that validate together, less
\* one (the comment at the comparison speaks of one, "race로 +1 등록될 수 있으나"),
\* however many adds and removes follow each other.
Overshoot == \A u \in User : Cardinality(rows[u]) <= Limit + Cardinality(Req) - 1

\* What makes Overshoot inductive: rows and inserts to come, together.
OvershootInv ==
  /\ TypeOK
  /\ \A u \in User : Cardinality(rows[u]) + Cardinality(Pending(u)) <= Limit + Cardinality(Req) - 1
==============================================================================
