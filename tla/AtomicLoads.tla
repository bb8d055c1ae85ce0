----------------------------- MODULE AtomicLoads -----------------------------
(***************************************************************************)
(* What a load of predictions is to whoever reads the tables: one step, at *)
(* its COMMIT.  These are the loads of RiskStore, with each row known by   *)
(* the request that wrote it instead of by what it wrote: a JSON load      *)
(* leaves predictions, grades and features of all its tickers at once; a   *)
(* CSV load leaves predictions and grades, and later, unless it fails,     *)
(* features for some of its tickers.                                       *)
(* BulkWrites, which writes row by row under locks, implements this one.   *)
(***************************************************************************)
CONSTANTS
  Ticker,  \* symbols
  Day,     \* base dates
  Job,     \* requests
  NoJob    \* nobody has written the row

VARIABLES
  pred,   \* pred[t][d]: who wrote the prediction
  grade,  \* grade[t]: who wrote the grade, and the date of the prediction it points to
  feat,   \* feat[t][d]: who wrote the features of the prediction
  open    \* CSV loads before their second transaction: by whom, of which tickers and date

store == <<pred, grade, feat, open>>

Init ==
  /\ pred = [t \in Ticker |-> [d \in Day |-> NoJob]]
  /\ grade = [t \in Ticker |-> [by |-> NoJob, asOf |-> 0]]
  /\ feat = [t \in Ticker |-> [d \in Day |-> NoJob]]
  /\ open = {}

\* The predictions of S at d, and the grades derived from them; a load of none is refused.
Publish(j, S, d) ==
  /\ \A o \in open : o.by # j
  /\ pred' = [t \in Ticker |-> [e \in Day |-> IF t \in S /\ e = d THEN j ELSE pred[t][e]]]
  /\ grade' = [t \in Ticker |-> IF t \in S THEN [by |-> j, asOf |-> d] ELSE grade[t]]

Explain(j, X, d) ==
  feat' = [t \in Ticker |-> [e \in Day |-> IF t \in X /\ e = d THEN j ELSE feat[t][e]]]

LoadJson(j, S, d, X) ==
  /\ Publish(j, S, d)
  /\ Explain(j, X, d)
  /\ UNCHANGED open

LoadCsv(j, S, d) ==
  /\ Publish(j, S, d)
  /\ open' = open \cup {[by |-> j, tickers |-> S, date |-> d]}
  /\ UNCHANGED feat

LoadFeatures(o, X) ==
  /\ Explain(o.by, X, o.date)
  /\ open' = open \ {o}
  /\ UNCHANGED <<pred, grade>>

\* The request fails between its transactions.
Drop(o) ==
  /\ open' = open \ {o}
  /\ UNCHANGED <<pred, grade, feat>>

Next ==
  \/ \E j \in Job, S \in (SUBSET Ticker) \ {{}}, d \in Day :
       \/ \E X \in SUBSET S : LoadJson(j, S, d, X)
       \/ LoadCsv(j, S, d)
  \/ \E o \in open : Drop(o) \/ \E X \in SUBSET o.tickers : LoadFeatures(o, X)

Spec == Init /\ [][Next]_store
==============================================================================
