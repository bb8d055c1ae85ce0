------------------------------ MODULE BulkWrites ------------------------------
(***************************************************************************)
(* The requests that write many rows with INSERT ... ON CONFLICT DO        *)
(* UPDATE, and the row locks between them: the syncs of prices, macro      *)
(* series and tickers (app/api/v1/endpoints/prices.py, macro.py,           *)
(* tickers.py) and the loads of predictions                                *)
(* (app/services/risk_ingest_service.py, xai_ingest_service.py).           *)
(*                                                                         *)
(* PostgreSQL locks the rows of a statement in the order of its VALUES and *)
(* keeps them until the transaction ends.  A request that needs a row of   *)
(* another waits; requests that wait for one another in a circle lose one  *)
(* of them, which answers 500 (nothing here tries again).  The order of    *)
(* the rows is therefore part of what the code does: prices and macro      *)
(* series come sorted, predictions in the order of the request or of the   *)
(* file, grades in the order of the ranking.                               *)
(*                                                                         *)
(* A symbol, a date, a series is its place in its order (a symbol's place  *)
(* in the seed list, in the rows of tickers).  Left out: the contents of   *)
(* rows, statements that only read, one-row upserts.                       *)
(***************************************************************************)
EXTENDS Naturals, Sequences

CONSTANTS
  NTicker,  \* symbols, 1 .. NTicker in the order of their letters
  NDay,     \* trade dates and base dates
  NCode,    \* macro series, in the order of MACRO_CODES
  Job,      \* requests
  NoJob     \* nobody has written the row (or it was there before)

ASSUME BulkNumbers == NTicker \in Nat /\ NDay \in Nat /\ NCode \in Nat \ {0}

ASSUME BulkJobs == NoJob \notin Job

VARIABLES
  job,   \* the requests
  saved  \* saved[r]: whose version of the row is committed, and its base_date or as_of

vars == <<job, saved>>

Ticker == 1 .. NTicker
Day == 1 .. NDay
Code == 1 .. NCode

Row == ({"pred", "xai", "price"} \X Ticker \X Day) \cup ({"grade", "ticker"} \X Ticker \X {0})
         \cup ({"macro"} \X Code \X Day)

\* Lists without repetition, the empty one included, of at most n members of S.
Lists(S, n) ==
  {s \in UNION {[1 .. k -> S] : k \in 0 .. n} : \A i, j \in DOMAIN s : s[i] = s[j] => i = j}

Ascending(s) == \A i, j \in DOMAIN s : i < j => s[i] < s[j]

Values(s) == {s[i] : i \in DOMAIN s}
------------------------------------------------------------------------------
(* What a request writes: a sequence of transactions, each a sequence of rows *)

\* Mutation: the symbols in the order of the set.
PricePlansUnsorted ==
  {<<[i \in DOMAIN s |-> <<"price", s[i][1], s[i][2]>>]>> : s \in Lists(Ticker \X Day, NTicker * NDay)}

\* What yfinance returns of prices: symbol by symbol as asked for (sorted), the dates of each
\* oldest first; symbols or dates may be missing, and the live price is one date of each.
Prices ==
  {l \in Lists(Ticker \X Day, NTicker * NDay) :
     \A i, j \in DOMAIN l : i < j => l[i][1] < l[j][1] \/ (l[i][1] = l[j][1] /\ l[i][2] < l[j][2])}

\* sync_history, get_prices: one transaction.
PricePlans == {<<[i \in DOMAIN s |-> <<"price", s[i][1], s[i][2]>>]>> : s \in Prices}

\* What FRED returns of one series: some dates in order; none if it fails.
Observations == {s \in Lists(Day, NDay) : Ascending(s)}

\* sync_macro: a transaction for each series.
MacroPlans ==
  {[c \in Code |-> [i \in DOMAIN f[c] |-> <<"macro", c, f[c][i]>>]] : f \in [Code -> Observations]}

\* The symbols yfinance knows, in the order of the seed list.
Known == {s \in Lists(Ticker, NTicker) : Ascending(s)}

\* sync_tickers: one transaction.
TickerPlans == {<<[i \in DOMAIN s |-> <<"ticker", s[i], 0>>]>> : s \in Known}

\* Predictions in the order of the items, grades in that of reassign_grades_by_rank, features.
LoadRows(d, items, ranks, story) ==
  LET n == Len(items) IN
  [i \in 1 .. 2 * n + Len(story) |->
     IF i <= n THEN <<"pred", items[i], d>>
     ELSE IF i <= 2 * n THEN <<"grade", ranks[i - n], 0>>
     ELSE <<"xai", story[i - 2 * n], d>>]

\* A load: its date, its items, their ranking, and the items that come with features.
Loads ==
  {l \in [date : Day, items : Lists(Ticker, NTicker), ranks : Lists(Ticker, NTicker),
          story : Lists(Ticker, NTicker)] :
     /\ Len(l.items) > 0
     /\ Len(l.ranks) = Len(l.items) /\ Values(l.ranks) = Values(l.items)
     /\ Values(l.story) \subseteq Values(l.items)}

\* Mutation: a commit after each of the statements.
JsonPlanThree(l) ==
  <<[i \in DOMAIN l.items |-> <<"pred", l.items[i], l.date>>],
    [i \in DOMAIN l.ranks |-> <<"grade", l.ranks[i], 0>>],
    [i \in DOMAIN l.story |-> <<"xai", l.story[i], l.date>>]>>

\* ingest_predictions_from_json: one transaction.
JsonPlan(l) == <<LoadRows(l.date, l.items, l.ranks, l.story)>>

\* ingest_predictions_from_csv commits; ingest_xai_from_csv is a second transaction.
CsvPlan(l) ==
  <<LoadRows(l.date, l.items, l.ranks, <<>>), [i \in DOMAIN l.story |-> <<"xai", l.story[i], l.date>>]>>

\* The features of the JSON load are in the order of its items.
InItemOrder(l) ==
  \A i, j \in DOMAIN l.story, p, q \in DOMAIN l.items :
    l.story[i] = l.items[p] /\ l.story[j] = l.items[q] /\ i < j => p < q
------------------------------------------------------------------------------
(* The requests *)

\* load: <<l>> for a load, <<>> for a sync.  Before it starts a request has no transaction.
NewJob == [pc |-> "new", load |-> <<>>, plan |-> <<>>, tx |-> 1, pos |-> 0]

Init == job = [j \in Job |-> NewJob] /\ saved = [r \in Row |-> [by |-> NoJob, asOf |-> 0]]

\* The rows of a request's transaction, and how many of them it has locked.
Rows(j) == job[j].plan[job[j].tx]

\* Mutation: the last transaction stays open after the answer.
HeldOpen(j) == IF job[j].pc \in {"run", "done"} THEN {Rows(j)[p] : p \in 1 .. job[j].pos} ELSE {}

Held(j) == IF job[j].pc = "run" THEN {Rows(j)[p] : p \in 1 .. job[j].pos} ELSE {}

StartSync(j, plan) ==
  /\ job[j].pc = "new"
  /\ job' = [job EXCEPT ![j] = [pc |-> "run", load |-> <<>>, plan |-> plan, tx |-> 1, pos |-> 0]]
  /\ UNCHANGED saved

StartLoad(j, l, plan) ==
  /\ job[j].pc = "new"
  /\ job' = [job EXCEPT ![j] = [pc |-> "run", load |-> <<l>>, plan |-> plan, tx |-> 1, pos |-> 0]]
  /\ UNCHANGED saved

More(j) == job[j].pc = "run" /\ job[j].pos < Len(Rows(j))

Wanted(j) == Rows(j)[job[j].pos + 1]

\* The next row of the statement: inserted or updated, and locked.
Take(j) ==
  /\ More(j) /\ \A h \in Job \ {j} : Wanted(j) \notin Held(h)
  /\ job' = [job EXCEPT ![j].pos = @ + 1]
  /\ UNCHANGED saved

DateOf(j) == IF job[j].load = <<>> THEN 0 ELSE job[j].load[1].date

Commit(j) ==
  /\ job[j].pc = "run" /\ job[j].pos = Len(Rows(j))
  /\ saved' = [r \in Row |-> IF r \in Held(j) THEN [by |-> j, asOf |-> DateOf(j)] ELSE saved[r]]
  /\ job' = [job EXCEPT ![j] =
       IF job[j].tx < Len(job[j].plan) THEN [job[j] EXCEPT !.tx = job[j].tx + 1, !.pos = 0]
       ELSE [job[j] EXCEPT !.pc = "done", !.load = <<>>]]

\* Requests that wait for one another.
Stuck(D) == D # {} /\ \A j \in D : More(j) /\ \E h \in D \ {j} : Wanted(j) \in Held(h)

\* PostgreSQL finds a circle and cancels a statement of it.
Victim(j) ==
  /\ \E D \in SUBSET Job : j \in D /\ Stuck(D)
  /\ job' = [job EXCEPT ![j] = [NewJob EXCEPT !.pc = "failed"]]
  /\ UNCHANGED saved

\* The connection or the server goes down, or a row is refused.
Fail(j) ==
  /\ job[j].pc = "run"
  /\ job' = [job EXCEPT ![j] = [NewJob EXCEPT !.pc = "failed"]]
  /\ UNCHANGED saved

Next ==
  \E j \in Job :
    \/ \E plan \in PricePlans \cup MacroPlans \cup TickerPlans : StartSync(j, plan)
    \/ \E l \in Loads :
         \/ InItemOrder(l) /\ StartLoad(j, l, JsonPlan(l))
         \/ StartLoad(j, l, CsvPlan(l))
    \/ Take(j) \/ Commit(j) \/ Victim(j) \/ Fail(j)

Spec == Init /\ [][Next]_vars

\* The database serves every statement, and its detector runs.
Fairness == \A j \in Job : WF_vars(Take(j)) /\ WF_vars(Commit(j)) /\ WF_vars(Victim(j))

FairSpec == Spec /\ Fairness
------------------------------------------------------------------------------
(* Properties *)

\* Types, and no row is locked by two requests.
LocksInv ==
  /\ saved \in [Row -> [by : Job \cup {NoJob}, asOf : 0 .. NDay]]
  /\ \A j \in Job :
       /\ job[j].pc \in {"new", "run", "done", "failed"}
       /\ job[j].pc = "run" =>
            /\ job[j].tx \in DOMAIN job[j].plan
            /\ job[j].pos \in 0 .. Len(Rows(j))
            /\ \A p \in DOMAIN Rows(j) : Rows(j)[p] \in Row
  /\ \A j, h \in Job : j # h => Held(j) \cap Held(h) = {}

\* A load whose items, or features of a CSV, are not in the order of their symbols.
Disordered(j) == job[j].load # <<>> /\ ~ (Ascending(job[j].load[1].items) /\ Ascending(job[j].load[1].story))

\* Requests lose one of them to a deadlock only if a load among them has its items out of order,
\* or two of them load different dates: their grades, which have no date, are locked in the
\* order of each ranking.  The syncs, in whatever number, and loads of one date in order never
\* do, since the predictions are locked first.
DeadlockNeedsDisorder ==
  \A D \in SUBSET Job : Stuck(D) =>
    \/ \E j \in D : Disordered(j)
    \/ \E j, h \in D : job[j].load # <<>> /\ job[h].load # <<>> /\ job[j].load[1].date # job[h].load[1].date

\* Overlapping loads are as good as one after the other: the grade of a ticker and the
\* prediction it was derived from are always of one load.
LoadsAsOne ==
  \A t \in Ticker :
    LET g == saved[<<"grade", t, 0>>]
    IN  g.by # NoJob => saved[<<"pred", t, g.asOf>>] = g

\* The CSV loads between their two transactions, and what each has loaded.
Between(j) == job[j].pc = "run" /\ job[j].load # <<>> /\ job[j].tx = 2

LoadOf(j) == [by |-> j, tickers |-> Values(job[j].load[1].items), date |-> job[j].load[1].date]

\* Loads that write row by row and wait for each other, in any number and order, that lose a
\* deadlock or fail, leave what loads done one at a time, each in a single step, would leave:
\* the steps RiskStore has for them.
Store == INSTANCE AtomicLoads WITH
  pred <- [t \in Ticker |-> [d \in Day |-> saved[<<"pred", t, d>>].by]],
  grade <- [t \in Ticker |-> saved[<<"grade", t, 0>>]],
  feat <- [t \in Ticker |-> [d \in Day |-> saved[<<"xai", t, d>>].by]],
  open <- {LoadOf(j) : j \in {h \in Job : Between(h)}}

StoreSpec == Store!Spec

\* Every request ends: waits are for requests that end, and circles are broken.
RequestsEnd == \A j \in Job : job[j].pc = "run" ~> job[j].pc \in {"done", "failed"}
==============================================================================
