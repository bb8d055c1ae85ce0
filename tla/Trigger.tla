------------------------------- MODULE Trigger -------------------------------
(***************************************************************************)
(* Finding and announcing changes of grade: run_watchlist_trigger of       *)
(* app/services/notification_trigger_service.py, with the loads of         *)
(* risk_ingest_service that it looks at, over the tables predictions       *)
(* (unique per ticker, base_date and horizon_days), risk_grades and        *)
(* watchlist.                                                              *)
(*                                                                         *)
(* A run reads the users once (any set of them may have an account that is *)
(* not deleted at that moment), then for each the watchlist, and           *)
(* for each ticker on it the two newest predictions, each in a statement   *)
(* of its own; then it sends.  Loads, lists and consents change between    *)
(* any two of these.  Nothing records what has been announced.             *)
(*                                                                         *)
(* PushDelivery models how one message is sent; here a user is within      *)
(* reach (opted in, with an active device) or send_to_user skips.  Left    *)
(* out: worst_case_pct is nullable, but no load writes NULL; the texts of  *)
(* the messages, and what Firebase makes of them.                          *)
(***************************************************************************)
EXTENDS GradeRank

CONSTANTS
  User,      \* users.user_id values
  Ticker,    \* tickers
  MaxDate,   \* bound on base_date: trading days 1..MaxDate
  Horizon,   \* values of horizon_days that are loaded
  Worst,     \* values of worst_case_pct, in 0.0001
  Run,       \* slots for runs of POST /notifications/run-watchlist-trigger
  MaxMsg,    \* _MAX_NOTIFICATIONS_PER_USER (5)
  MaxLoad,   \* bound on the number of loads
  None       \* no row, no user

ASSUME TriggerWorst == Worst \subseteq Int

ASSUME TriggerNumbers == MaxDate \in Nat /\ MaxMsg \in Nat \ {0} /\ MaxLoad \in Nat

ASSUME TriggerNone ==
  None \notin User /\ None \notin Worst /\ None \notin Grades

VARIABLES
  pred,    \* pred[t][k]: None, or the worst case of the prediction with key k
  grade,   \* grade[t]: None, or the grade in the row of risk_grades
  loads,   \* loads so far
  watch,   \* watch[u]: tickers on u's list
  reach,   \* users send_to_user does not skip
  run,     \* runs in progress
  \* history, read by no action
  due,     \* due[r]: <<u, t>> that run r has to announce
  still    \* still[r]: tickers that no load has touched since run r began

store == <<pred, grade, loads>>
people == <<watch, reach>>
vars == <<store, people, run, due, still>>

Key == (1..MaxDate) \X Horizon

NoRun == [pc |-> "idle", users |-> {}, user |-> None, todo |-> {}, found |-> {}, sent |-> 0]

Init ==
  /\ pred = [t \in Ticker |-> [k \in Key |-> None]]
  /\ grade = [t \in Ticker |-> None]
  /\ loads = 0
  /\ watch = [u \in User |-> {}]
  /\ reach = {}
  /\ run = [r \in Run |-> NoRun]
  /\ due = [r \in Run |-> {}]
  /\ still = [r \in Run |-> {}]
------------------------------------------------------------------------------
(* Loads, lists and consents *)

\* One load: the predictions with key k of the tickers S, and their grades.
Load(S, k, w, p) ==
  /\ loads < MaxLoad
  /\ loads' = loads + 1
  /\ pred' = [t \in Ticker |-> IF t \in S THEN [pred[t] EXCEPT ![k] = w[t]] ELSE pred[t]]
  /\ grade' = [t \in Ticker |-> IF t \in S THEN Reassign(S, w, p)[t] ELSE grade[t]]
  /\ due' = [r \in Run |-> {d \in due[r] : d[2] \notin S}]
  /\ still' = [r \in Run |-> still[r] \ S]
  /\ UNCHANGED <<people, run>>

Watch(u, t) ==
  /\ watch' = [watch EXCEPT ![u] = @ \cup {t}]
  /\ UNCHANGED <<store, reach, run, due, still>>

Unwatch(u, t) ==
  /\ watch' = [watch EXCEPT ![u] = @ \ {t}]
  /\ due' = [r \in Run |-> due[r] \ {<<u, t>>}]
  /\ UNCHANGED <<store, reach, run, still>>

\* The user opts in and has a device, or no longer.
Gain(u) ==
  /\ reach' = reach \cup {u}
  /\ UNCHANGED <<store, watch, run, due, still>>

Lose(u) ==
  /\ reach' = reach \ {u}
  /\ due' = [r \in Run |-> {d \in due[r] : d[1] # u}]
  /\ UNCHANGED <<store, watch, run, still>>
------------------------------------------------------------------------------
(* A run of the trigger *)

Stored(t) == {k \in Key : pred[t][k] # None}

\* ORDER BY base_date DESC LIMIT 2: the newest and the one before.  Horizons of
\* one date come in any order.
NewestTwo(t) ==
  {p \in Stored(t) \X Stored(t) :
     /\ p[1] # p[2]
     /\ \A k \in Stored(t) : k[1] <= p[1][1] /\ (k # p[1] => k[1] <= p[2][1])}

\* Mutation: latest and previous swapped.
ChangeBackwards(t, p) == [ticker |-> t, from |-> Derive(pred[t][p[1]]), to |-> Derive(pred[t][p[2]])]

Change(t, p) == [ticker |-> t, from |-> Derive(pred[t][p[2]]), to |-> Derive(pred[t][p[1]])]

Changes(t) == {Change(t, p) : p \in NewestTwo(t)}

\* Whatever order the database returns them in, the grades differ.
Changed(t) == Changes(t) # {} /\ \A c \in Changes(t) : c.from # c.to

Go(r, g) == run' = [run EXCEPT ![r] = g]

\* The run begins with the accounts U that are not deleted by then.
StartRun(r, U) ==
  /\ run[r].pc = "idle"
  /\ Go(r, [NoRun EXCEPT !.pc = "users", !.users = U])
  /\ due' = [due EXCEPT ![r] =
       {d \in (U \cap reach) \X Ticker : d[2] \in watch[d[1]] /\ Changed(d[2])}]
  /\ still' = [still EXCEPT ![r] = Ticker]
  /\ UNCHANGED <<store, people>>

NextUser(r) ==
  /\ run[r].pc = "users"
  /\ \E u \in run[r].users :
       Go(r, [NoRun EXCEPT !.pc = "list", !.users = run[r].users \ {u}, !.user = u])
  /\ UNCHANGED <<store, people, due, still>>

\* _detect_changes_for_user: the list, then each ticker on it.
ReadList(r) ==
  /\ run[r].pc = "list"
  /\ Go(r, [run[r] EXCEPT !.pc = "detect", !.todo = watch[run[r].user]])
  /\ UNCHANGED <<store, people, due, still>>

\* A ticker with fewer than two predictions has none to compare.
Detect(r) ==
  /\ run[r].pc = "detect"
  /\ \E t \in run[r].todo :
       LET rest == [run[r] EXCEPT !.todo = @ \ {t}] IN
       IF Changes(t) = {} THEN Go(r, rest)
       ELSE \E c \in Changes(t) :
              Go(r, IF c.from = c.to THEN rest ELSE [rest EXCEPT !.found = @ \cup {c}])
  /\ UNCHANGED <<store, people, due, still>>

\* The next user, after this one has found nothing or has been served.
OnToNext(r) == Go(r, [NoRun EXCEPT !.pc = "users", !.users = run[r].users])

\* How to send: one message for each change, or, above the maximum, a summary.
Found(r) == run[r].pc = "detect" /\ run[r].todo = {}

\* Mutation: break for continue.
DecideBreaks(r) ==
  /\ Found(r)
  /\ IF run[r].found = {} THEN Go(r, [NoRun EXCEPT !.pc = "users"])
     ELSE Go(r, [run[r] EXCEPT !.pc = IF Cardinality(run[r].found) > MaxMsg THEN "summary" ELSE "single"])
  /\ UNCHANGED <<store, people, due, still>>

\* Mutation: off by one in the comparison with the maximum.
DecideLate(r) ==
  /\ Found(r)
  /\ IF run[r].found = {} THEN OnToNext(r)
     ELSE Go(r, [run[r] EXCEPT !.pc = IF Cardinality(run[r].found) > MaxMsg + 1 THEN "summary" ELSE "single"])
  /\ UNCHANGED <<store, people, due, still>>

Decide(r) ==
  /\ Found(r)
  /\ IF run[r].found = {} THEN OnToNext(r)
     ELSE Go(r, [run[r] EXCEPT !.pc = IF Cardinality(run[r].found) > MaxMsg THEN "summary" ELSE "single"])
  /\ UNCHANGED <<store, people, due, still>>

\* Changes D are announced to the user in one message.
Announce(r, D) ==
  /\ run[r].user \in reach
  /\ Go(r, [run[r] EXCEPT !.found = @ \ D, !.sent = @ + 1])
  /\ due' = [due EXCEPT ![r] = @ \ ({run[r].user} \X {c.ticker : c \in D})]
  /\ UNCHANGED <<store, people, still>>

SendSummary(r) ==
  /\ run[r].pc = "summary" /\ run[r].found # {}
  /\ Announce(r, run[r].found)

\* Consent and devices are asked anew for each.
SendSingle(r) ==
  /\ run[r].pc = "single"
  /\ \E c \in run[r].found : Announce(r, {c})

\* All is sent; or send_to_user has skipped a message, and the rest are not tried.
UserDone(r) ==
  /\ run[r].pc \in {"summary", "single"}
  /\ run[r].found = {} \/ run[r].user \notin reach
  /\ OnToNext(r)
  /\ UNCHANGED <<store, people, due, still>>

\* The run returns its counts.
Finish(r) ==
  /\ run[r].pc = "users" /\ run[r].users = {}
  /\ Go(r, NoRun)
  /\ still' = [still EXCEPT ![r] = {}]
  /\ UNCHANGED <<store, people, due>>

\* The process or the connection fails, or a device row was gone
\* (PushDelivery!MarkCommit).
AbortRun(r) ==
  /\ run[r].pc # "idle"
  /\ Go(r, NoRun)
  /\ due' = [due EXCEPT ![r] = {}]
  /\ still' = [still EXCEPT ![r] = {}]
  /\ UNCHANGED <<store, people>>

Next ==
  \/ \E S \in (SUBSET Ticker) \ {{}}, k \in Key : \E w \in [S -> Worst] : \E p \in Places(S, w) :
       Load(S, k, w, p)
  \/ \E u \in User, t \in Ticker : Watch(u, t) \/ Unwatch(u, t)
  \/ \E u \in User : Gain(u) \/ Lose(u)
  \/ \E r \in Run, U \in SUBSET User : StartRun(r, U)
  \/ \E r \in Run :
       \/ NextUser(r) \/ ReadList(r) \/ Detect(r) \/ Decide(r)
       \/ SendSummary(r) \/ SendSingle(r) \/ UserDone(r) \/ Finish(r) \/ AbortRun(r)

Spec == Init /\ [][Next]_vars
------------------------------------------------------------------------------
(* Properties *)

News == [ticker : Ticker, from : Grades, to : Grades]

Progress ==
  {g \in [pc : {"idle", "users", "list", "detect", "summary", "single"}, users : SUBSET User,
          user : User \cup {None}, todo : SUBSET Ticker, found : SUBSET News, sent : Nat] :
     g.pc = "list" => g.user \in User}

TypeOK ==
  /\ pred \in [Ticker -> [Key -> Worst \cup {None}]]
  /\ grade \in [Ticker -> Grades \cup {None}]
  /\ loads \in 0..MaxLoad
  /\ watch \in [User -> SUBSET Ticker]
  /\ reach \subseteq User
  /\ run \in [Run -> Progress]
  /\ due \in [Run -> SUBSET (User \X Ticker)]
  /\ still \in [Run -> SUBSET Ticker]

\* A run that comes to its end has announced everything it had to: each ticker
\* on the list of a user within reach whose grade differed between its last two
\* dates when the run began, and has not been loaded, taken off the list or out
\* of reach since.
NothingMissed ==
  \A r \in Run : run[r].pc = "users" /\ run[r].users = {} => due[r] = {}

\* What is about to be announced is so: from the grade of a prediction to another
\* one of the prediction that came next, of which none is newer; unless the
\* ticker was loaded since the run began.
Happened(c) ==
  \E old, new \in Stored(c.ticker) :
    /\ old # new /\ old[1] <= new[1]
    /\ \A k \in Stored(c.ticker) \ {old, new} : k[1] <= old[1]
    /\ c.from = Derive(pred[c.ticker][old])
    /\ c.to = Derive(pred[c.ticker][new])
    /\ c.from # c.to

NewsTrue ==
  \A r \in Run : \A c \in run[r].found : c.ticker \in still[r] => Happened(c)

\* A user gets no more than _MAX_NOTIFICATIONS_PER_USER messages from one run, and a summary
\* only of changes that single messages would have exceeded it with.
MessageCap ==
  \A r \in Run :
    /\ run[r].sent <= MaxMsg
    /\ run[r].pc = "summary" => run[r].found = {} \/ Cardinality(run[r].found) > MaxMsg

\* "임계값 / 라벨 한 곳에서 관리 (single source of truth)" (docstring of the
\* trigger's module): the grade a message announces is the grade of the ticker.
GradeShown ==
  \A r \in Run : \A c \in run[r].found : c.ticker \in still[r] => c.to = grade[c.ticker]
------------------------------------------------------------------------------
(* The inductive invariant behind them. *)

\* Why a run has to announce d still: nothing has changed since it began.
Valid(r, d) ==
  d[1] \in reach /\ d[2] \in watch[d[1]] /\ d[2] \in still[r] /\ Changed(d[2])

\* A run with progress g comes to d later: the user is to come, or is being
\* served and the ticker is to come or has been found.
Ahead(g, d) ==
  \/ d[1] \in g.users
  \/ /\ d[1] = g.user
     /\ \/ g.pc = "list"
        \/ g.pc = "detect" /\ d[2] \in g.todo
        \/ g.pc \in {"detect", "summary", "single"} /\ \E c \in g.found : c.ticker = d[2]

\* What a run still has to announce is still ahead of it.
DueAhead == \A r \in Run : \A d \in due[r] : Valid(r, d) /\ Ahead(run[r], d)

\* Messages sent to a user and messages to come are within the maximum.
CapAhead ==
  \A r \in Run :
    /\ IsFiniteSet(run[r].found)
    /\ run[r].pc \in {"idle", "users", "list", "detect"} => run[r].sent = 0
    /\ run[r].pc = "single" => run[r].sent + Cardinality(run[r].found) <= MaxMsg
    /\ run[r].pc = "summary" =>
         /\ run[r].sent <= 1 /\ (run[r].sent = 1 => run[r].found = {})
         /\ run[r].found = {} \/ Cardinality(run[r].found) > MaxMsg

TriggerInv == TypeOK /\ DueAhead /\ NewsTrue /\ CapAhead
==============================================================================
