------------------------------ MODULE RiskStore ------------------------------
(***************************************************************************)
(* Loading predictions and reading them: app/services/                     *)
(* risk_ingest_service.py, xai_ingest_service.py, risk_query_service.py    *)
(* (the verdict) and llm_explanation_service.py, over the tables           *)
(* predictions (unique per ticker and base_date; one horizon),             *)
(* risk_grades, xai_explanations and llm_explanations (one row per ticker  *)
(* each but for xai_explanations, one per prediction).                     *)
(*                                                                         *)
(* A load is one transaction of blind upserts: rows stay locked up to the  *)
(* COMMIT, two loads of one row follow each other, and two that lock each  *)
(* other out lose one of them; so a load is one step, at its COMMIT.  The  *)
(* CSV endpoints load the explanations in a second transaction.  A reader  *)
(* runs a statement per table, and loads commit between its statements.    *)
(*                                                                         *)
(* A prediction is known by its worst case alone: two runs of the model    *)
(* for one ticker and date differ in it.  Left out: the grade (a label     *)
(* computed from the rank of the worst case in the load), current_price,   *)
(* the features of an explanation, the texts, and tickers the table        *)
(* tickers does not have (a load skips them).                              *)
(***************************************************************************)
EXTENDS Naturals, FiniteSets

CONSTANTS
  Ticker,       \* active tickers
  MaxDate,      \* bound on base_date: trading days 1..MaxDate
  Worst,        \* values of worst_case_pct
  Csv,          \* slots for CSV loads between their two transactions
  Reader,       \* slots for GET /risk/{ticker}/verdict
  Batch,        \* slots for runs of POST /risk/sync/run-llm-explanations
  Concurrency,  \* semaphore of a run (5)
  None          \* no row, SQL NULL

Date == 1..MaxDate

ASSUME DateAssumption == MaxDate \in Nat

ASSUME BatchAssumption == Concurrency \in Nat \ {0} /\ IsFiniteSet(Ticker)

ASSUME NullAssumption ==
  /\ None \notin Worst \cup Ticker
  /\ None \notin [worst : Worst, paths : Worst \cup {None}]
  /\ None \notin [date : Date, worst : Worst]
  /\ None \notin [tickers : SUBSET Ticker, date : Date]

VARIABLES
  pred,   \* pred[t][d]: None, or the row: worst case (with q05/q15/q50) and quantile_paths
  grade,  \* grade[t]: None, or the row of risk_grades: date of its prediction, worst case
  feat,   \* feat[t]: dates of the predictions that have an explanation
  story,  \* story[t]: None, or the row of llm_explanations: base_date, worst case it tells of
  csv,    \* a CSV load that has committed its predictions: tickers and date
  ask,    \* verdicts in progress
  gen,    \* gen[b][t]: generation of the text for t in run b
  \* history, read by no action
  stale   \* tickers whose text does not tell of the grade, as far as the writers know

vars == <<pred, grade, feat, story, csv, ask, gen, stale>>

NoAsk == [pc |-> "idle", ticker |-> None, date |-> 0, worst |-> None, shown |-> None, hit |-> FALSE]
NoGen == [pc |-> "none", date |-> 0, worst |-> None, hit |-> FALSE]

Init ==
  /\ pred = [t \in Ticker |-> [d \in Date |-> None]]
  /\ grade = [t \in Ticker |-> None]
  /\ feat = [t \in Ticker |-> {}]
  /\ story = [t \in Ticker |-> None]
  /\ csv = [c \in Csv |-> None]
  /\ ask = [r \in Reader |-> NoAsk]
  /\ gen = [b \in Batch |-> [t \in Ticker |-> NoGen]]
  /\ stale = {}
------------------------------------------------------------------------------
(* Loads *)

\* The date of the prediction that get_path and the trigger take as the latest.
Latest(t) == CHOOSE d \in Date : /\ pred[t][d] # None
                                 /\ \A e \in Date : pred[t][e] # None => e <= d

\* Whoever is between two statements and has read what a load of S at d replaces.
Overtake(S, d) ==
  /\ ask' = [r \in Reader |-> IF ask[r].ticker \in S /\ ask[r].date = d
                              THEN [ask[r] EXCEPT !.hit = TRUE] ELSE ask[r]]
  /\ gen' = [b \in Batch |-> [t \in Ticker |->
               IF t \in S /\ gen[b][t].pc \in {"graded", "asking"}
               THEN [gen[b][t] EXCEPT !.hit = TRUE] ELSE gen[b][t]]]
  /\ stale' = stale \cup S

\* risk_grades: one row per ticker, whatever date it had.
GradeRows(S, d, w) ==
  grade' = [t \in Ticker |-> IF t \in S THEN [date |-> d, worst |-> w[t]] ELSE grade[t]]

\* Mutation: worst_case_pct is missing in the set_ of the upsert.
LoadJsonKeepsWorst(S, d, w, X) ==
  /\ pred' = [t \in Ticker |->
       IF t \in S
       THEN [pred[t] EXCEPT ![d] = [worst |-> IF @ = None THEN w[t] ELSE @.worst, paths |-> w[t]]]
       ELSE pred[t]]
  /\ GradeRows(S, d, w)
  /\ feat' = [t \in Ticker |-> IF t \in X THEN feat[t] \cup {d} ELSE feat[t]]
  /\ Overtake(S, d)
  /\ UNCHANGED <<story, csv>>

\* Mutation: quantile_paths is missing in the set_ of the upsert.
LoadJsonKeepsPaths(S, d, w, X) ==
  /\ pred' = [t \in Ticker |->
       IF t \in S
       THEN [pred[t] EXCEPT ![d] = [worst |-> w[t], paths |-> IF @ = None THEN w[t] ELSE @.paths]]
       ELSE pred[t]]
  /\ GradeRows(S, d, w)
  /\ feat' = [t \in Ticker |-> IF t \in X THEN feat[t] \cup {d} ELSE feat[t]]
  /\ Overtake(S, d)
  /\ UNCHANGED <<story, csv>>

\* ingest_predictions_from_json, for the tickers S, those of X with features.
LoadJson(S, d, w, X) ==
  /\ pred' = [t \in Ticker |->
       IF t \in S THEN [pred[t] EXCEPT ![d] = [worst |-> w[t], paths |-> w[t]]] ELSE pred[t]]
  /\ GradeRows(S, d, w)
  /\ feat' = [t \in Ticker |-> IF t \in X THEN feat[t] \cup {d} ELSE feat[t]]
  /\ Overtake(S, d)
  /\ UNCHANGED <<story, csv>>

\* ingest_predictions_from_csv: the upsert has no quantile_paths.
LoadCsv(c, S, d, w) ==
  /\ csv[c] = None
  /\ pred' = [t \in Ticker |->
       IF t \in S
       THEN [pred[t] EXCEPT ![d] = [worst |-> w[t], paths |-> IF @ = None THEN None ELSE @.paths]]
       ELSE pred[t]]
  /\ GradeRows(S, d, w)
  /\ csv' = [csv EXCEPT ![c] = [tickers |-> S, date |-> d]]
  /\ Overtake(S, d)
  /\ UNCHANGED <<feat, story>>

\* ingest_xai_from_csv, for the tickers X of the file; none if there is no file,
\* it cannot be read, or the request fails.
LoadFeatures(c, X) ==
  /\ csv[c] # None
  /\ feat' = [t \in Ticker |-> IF t \in X \cap csv[c].tickers THEN feat[t] \cup {csv[c].date}
                                ELSE feat[t]]
  /\ csv' = [csv EXCEPT ![c] = None]
  /\ UNCHANGED <<pred, grade, story, ask, gen, stale>>
------------------------------------------------------------------------------
(* GET /risk/{ticker}/verdict *)

\* get_verdict: the grade's row.
VerdictGrade(r, t) ==
  /\ ask[r].pc = "idle"
  /\ grade[t] # None
  /\ ask' = [ask EXCEPT ![r] = [pc |-> "graded", ticker |-> t, date |-> grade[t].date,
                                worst |-> grade[t].worst, shown |-> None, hit |-> FALSE]]
  /\ UNCHANGED <<pred, grade, feat, story, csv, gen, stale>>

\* Mutation: the latest prediction, as in get_path.
VerdictPredictionLatest(r) ==
  LET t == ask[r].ticker IN
  /\ ask[r].pc = "graded"
  /\ ask' = [ask EXCEPT ![r].pc = "answer", ![r].shown = pred[t][Latest(t)].worst]
  /\ UNCHANGED <<pred, grade, feat, story, csv, gen, stale>>

\* The prediction of the grade, by prediction_id.
VerdictPrediction(r) ==
  LET t == ask[r].ticker IN
  /\ ask[r].pc = "graded"
  /\ ask' = [ask EXCEPT ![r].pc = "answer", ![r].shown = pred[t][ask[r].date].worst]
  /\ UNCHANGED <<pred, grade, feat, story, csv, gen, stale>>

\* The explanation and the text are read, the analysis_history row is written
\* from the grade's row and the prediction, and the answer goes out.
VerdictAnswer(r) ==
  /\ ask[r].pc = "answer"
  /\ ask' = [ask EXCEPT ![r] = NoAsk]
  /\ UNCHANGED <<pred, grade, feat, story, csv, gen, stale>>
------------------------------------------------------------------------------
(* POST /risk/sync/run-llm-explanations *)

Step(b, t, g) == gen' = [gen EXCEPT ![b][t] = g]
Done == [NoGen EXCEPT !.pc = "done"]

\* generate_for_active_tickers, for the tickers T.
StartBatch(b, T) ==
  /\ \A t \in Ticker : gen[b][t].pc = "none"
  /\ T # {}
  /\ gen' = [gen EXCEPT ![b] = [t \in Ticker |-> IF t \in T THEN [NoGen EXCEPT !.pc = "waiting"]
                                                 ELSE NoGen]]
  /\ UNCHANGED <<pred, grade, feat, story, csv, ask, stale>>

\* Slots of the semaphore taken in run b.
Held(b) == {t \in Ticker : gen[b][t].pc \in {"graded", "asking"}}

\* Mutation: the inputs come from the latest prediction.
GenGradeLatest(b, t) ==
  /\ gen[b][t].pc = "waiting"
  /\ Cardinality(Held(b)) < Concurrency
  /\ Step(b, t, IF grade[t] = None THEN Done
                ELSE [pc |-> "graded", date |-> Latest(t), worst |-> pred[t][Latest(t)].worst, hit |-> FALSE])
  /\ UNCHANGED <<pred, grade, feat, story, csv, ask, stale>>

\* _load_ticker_inputs: the grade's row; without one the ticker is skipped.
GenGrade(b, t) ==
  /\ gen[b][t].pc = "waiting"
  /\ Cardinality(Held(b)) < Concurrency
  /\ Step(b, t, IF grade[t] = None THEN Done
                ELSE [pc |-> "graded", date |-> grade[t].date, worst |-> grade[t].worst, hit |-> FALSE])
  /\ UNCHANGED <<pred, grade, feat, story, csv, ask, stale>>

\* The explanation of its prediction; without one the ticker is skipped.
GenFeatures(b, t) ==
  /\ gen[b][t].pc = "graded"
  /\ Step(b, t, IF gen[b][t].date \in feat[t] THEN [gen[b][t] EXCEPT !.pc = "asking"] ELSE Done)
  /\ UNCHANGED <<pred, grade, feat, story, csv, ask, stale>>

\* The LLM has answered or failed (then the template's text is stored): upsert
\* by ticker and COMMIT.
GenStore(b, t) ==
  LET g == gen[b][t] IN
  /\ g.pc = "asking"
  /\ story' = [story EXCEPT ![t] = [date |-> g.date, worst |-> g.worst]]
  /\ stale' = IF g.hit THEN stale \cup {t} ELSE stale \ {t}
  /\ Step(b, t, Done)
  /\ UNCHANGED <<pred, grade, feat, csv, ask>>

\* Anything else that goes wrong for one ticker is logged, and ends it alone.
GenCrash(b, t) ==
  /\ gen[b][t].pc \in {"graded", "asking"}
  /\ Step(b, t, Done)
  /\ UNCHANGED <<pred, grade, feat, story, csv, ask, stale>>

\* gather has all results.
EndBatch(b) ==
  /\ \E t \in Ticker : gen[b][t].pc = "done"
  /\ \A t \in Ticker : gen[b][t].pc \in {"none", "done"}
  /\ gen' = [gen EXCEPT ![b] = [t \in Ticker |-> NoGen]]
  /\ UNCHANGED <<pred, grade, feat, story, csv, ask, stale>>

Next ==
  \/ \E S \in (SUBSET Ticker) \ {{}}, d \in Date : \E w \in [S -> Worst] :
       \/ \E X \in SUBSET S : LoadJson(S, d, w, X)
       \/ \E c \in Csv : LoadCsv(c, S, d, w)
  \/ \E c \in Csv, X \in SUBSET Ticker : LoadFeatures(c, X)
  \/ \E r \in Reader, t \in Ticker : VerdictGrade(r, t)
  \/ \E r \in Reader : VerdictPrediction(r) \/ VerdictAnswer(r)
  \/ \E b \in Batch, T \in SUBSET Ticker : StartBatch(b, T)
  \/ \E b \in Batch : EndBatch(b)
  \/ \E b \in Batch, t \in Ticker :
       GenGrade(b, t) \/ GenFeatures(b, t) \/ GenStore(b, t) \/ GenCrash(b, t)

Spec == Init /\ [][Next]_vars
------------------------------------------------------------------------------
(* Properties *)

Rows     == [worst : Worst, paths : Worst \cup {None}]
Snapshot == [date : Date, worst : Worst]

TypeOK ==
  /\ pred \in [Ticker -> [Date -> Rows \cup {None}]]
  /\ grade \in [Ticker -> Snapshot \cup {None}]
  /\ feat \in [Ticker -> SUBSET Date]
  /\ story \in [Ticker -> Snapshot \cup {None}]
  /\ csv \in [Csv -> [tickers : SUBSET Ticker, date : Date] \cup {None}]
  /\ ask \in [Reader -> [pc : {"idle", "graded", "answer"}, ticker : Ticker \cup {None},
                         date : Date \cup {0}, worst : Worst \cup {None},
                         shown : Worst \cup {None}, hit : BOOLEAN]]
  /\ gen \in [Batch -> [Ticker -> [pc : {"none", "waiting", "graded", "asking", "done"},
                                   date : Date \cup {0}, worst : Worst \cup {None}, hit : BOOLEAN]]]
  /\ stale \subseteq Ticker
  /\ \A r \in Reader : ask[r].pc # "idle" => ask[r].ticker \in Ticker /\ ask[r].date \in Date
  /\ \A b \in Batch, t \in Ticker :
       gen[b][t].pc \in {"graded", "asking"} => gen[b][t].date \in Date /\ gen[b][t].worst \in Worst

\* Whatever loads follow each other, of any dates, by either path, a ticker's
\* grade is backed by the prediction it points to: the row is there and has the
\* worst case the grade was given for.
GradeBacked ==
  \A t \in Ticker : grade[t] # None =>
    /\ pred[t][grade[t].date] # None
    /\ pred[t][grade[t].date].worst = grade[t].worst

\* A verdict shows a prediction with the worst case of the grade it shows and
\* records, unless that very prediction was loaded anew between get_verdict's
\* two statements.
VerdictAgrees ==
  \A r \in Reader : ask[r].pc = "answer" /\ ~ask[r].hit => ask[r].shown = ask[r].worst

\* A text that was stored by a run no load overlapped tells of the ticker's
\* grade until the next load, whichever runs raced for the row before it.
StoryFollows ==
  \A t \in Ticker : story[t] # None /\ t \notin stale => story[t] = grade[t]

\* The paths of a prediction, cached from its quantile_paths ("와 동일한 값을
\* 캐시", models/prediction.py), part from them only when a CSV load replaces the
\* paths of a row that has quantile_paths; a JSON load of the row mends it.
Part(t, d) == pred[t][d] # None /\ pred[t][d].paths \notin {None, pred[t][d].worst}

PathsPart ==
  [][\A t \in Ticker, d \in Date : Part(t, d)' =>
       \/ pred'[t][d] = pred[t][d]
       \/ \E c \in Csv : /\ csv[c] = None /\ csv'[c] # None
                        /\ t \in csv'[c].tickers /\ csv'[c].date = d]_vars
------------------------------------------------------------------------------
(* The inductive invariant behind GradeBacked, VerdictAgrees and StoryFollows. *)

\* A verdict that has read its grade will find it in the prediction.
AskInv ==
  \A r \in Reader : ask[r].pc = "graded" =>
    LET p == pred[ask[r].ticker][ask[r].date] IN
    /\ p # None
    /\ ask[r].hit \/ p.worst = ask[r].worst

\* A generation that no load has overtaken holds the grade.
GenInv ==
  \A b \in Batch, t \in Ticker : gen[b][t].pc \in {"graded", "asking"} /\ ~gen[b][t].hit =>
    grade[t] = [date |-> gen[b][t].date, worst |-> gen[b][t].worst]

StoreInv ==
  TypeOK /\ GradeBacked /\ VerdictAgrees /\ StoryFollows /\ AskInv /\ GenInv
==============================================================================
