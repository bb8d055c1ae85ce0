------------------------------ MODULE Pipeline ------------------------------
(***************************************************************************)
(* From prices to a notification: the workflow                             *)
(* .github/workflows/daily-batch.yml and the requests it makes, one after  *)
(* another, of the server: POST /prices/sync-history/all, /macro/sync/all, *)
(* /risk/sync/run-tft-m3 (app/services/tft_m4_inference.py over            *)
(* feature_engineering.py), /risk/sync/run-llm-explanations and            *)
(* /notifications/run-watchlist-trigger; with the requests others make     *)
(* meanwhile: GET /prices/{target}, which stores what it shows, syncs and  *)
(* inferences of an operator, and POST /risk/sync/run-inference, which     *)
(* runs a script of another project and loads the file it leaves           *)
(* (app/services/risk_inference_runner.py).                                *)
(*                                                                         *)
(* A request goes on when its client has given up on it.  A run that a     *)
(* schedule or an operator asks for while one is in progress waits for it. *)
(* Everything the script does is external: it writes its file or not and   *)
(* ends when it likes.                                                     *)
(*                                                                         *)
(* Left out: what the macro series and the model compute (a prediction is  *)
(* any grade), the texts of the LLM (RiskStore), row locks (BulkWrites),   *)
(* users, consents and messages (Trigger, PushDelivery): a follower of all *)
(* tickers stands for them.                                                *)
(***************************************************************************)
EXTENDS Naturals, FiniteSets

CONSTANTS
  Ticker,   \* tickers with predictions
  Index,    \* market indices: prices, no predictions (^VIX, ^IXIC)
  MaxDate,  \* bound on the trading days, 1..MaxDate
  Grade,    \* grades derive_grade gives
  Req,      \* slots for requests in progress
  MaxOther, \* bound on the requests made by others than the workflow
  None      \* no row, no request

ASSUME PipelineNumbers == MaxDate \in Nat \ {0} /\ MaxOther \in Nat

ASSUME PipelineNone ==
  /\ None \notin Req \cup Grade \cup [grade : Grade, final : BOOLEAN]
  /\ Ticker \cap Index = {}

VARIABLES
  day,    \* the last trading day whose session is over
  open,   \* whether the session of the next one is on, and its row not final
  price,  \* price[s][d]: whether the row is there, and final
  long,   \* tickers with a year of prices
  pred,   \* pred[t][d]: None, or the prediction with base_date d
  file,   \* whether the script's result file exists
  alive,  \* requests whose script runs
  req,    \* requests in progress
  others, \* requests others have made so far
  batch,  \* the run of the workflow
  \* history, read by no action
  view,   \* view[t]: the grade the follower knows: the first, then the last announced
  caught, \* tickers a trigger has looked at since their last load
  odd     \* tickers loaded out of turn since the follower was last told of them

market == <<day, open>>
prices == <<price, long>>
requests == <<req, others>>
script == <<file, alive>>
follower == <<view, caught, odd>>
vars == <<market, prices, pred, script, requests, batch, follower>>

Symbol == Ticker \cup Index
Date == 1 .. MaxDate

\* got: symbols yfinance returned, tickers of the panel, or tickers the trigger has to look at;
\* base: the last closed day when prices were fetched, or the base_date;
\* final: tickers whose row of base_date was final; mark: for a script's request, "shared" if
\* another was in progress with it, else "alone", "own" once the file is that of its script, "lost"
\* when it no longer is.
NoReq == [kind |-> "none", at |-> "idle", got |-> {}, base |-> 0, part |-> FALSE, final |-> {},
          mark |-> "none"]

\* due: its predictions are loaded, and the trigger is neither skipped nor failed;
\* clean: no step has failed and nothing has come between since it began.
NoBatch == [step |-> "off", call |-> None, due |-> FALSE, clean |-> FALSE]

Init ==
  /\ day = 1 /\ open = FALSE
  /\ price = [s \in Symbol |-> [d \in Date |-> "none"]]
  /\ long = {}
  /\ pred = [t \in Ticker |-> [d \in Date |-> None]]
  /\ file = FALSE /\ alive = {}
  /\ req = [q \in Req |-> NoReq] /\ others = 0
  /\ batch = NoBatch
  /\ view = [t \in Ticker |-> None] /\ caught = Ticker /\ odd = {}
------------------------------------------------------------------------------
(* The steps of the workflow *)

\* The order of the steps; the texts come after the inference, the trigger after them.
Following(step) ==
  IF step = "prices" THEN "macro" ELSE IF step = "macro" THEN "inference"
  ELSE IF step = "inference" THEN "llm" ELSE IF step = "llm" THEN "trigger" ELSE "upload"

\* Mutation: without always(), the trigger is skipped like any other step.
AfterNoAlways(step, ok) == IF ok THEN Following(step) ELSE "upload"

\* The step that comes next.  A step that fails skips those after it, but for the
\* trigger and the upload, which have always().
After(step, ok) == IF ok \/ step = "trigger" THEN Following(step) ELSE "trigger"

\* The step in progress ends.
StepEnds(ok) ==
  [batch EXCEPT !.step = After(batch.step, ok), !.call = None, !.clean = @ /\ ok,
                !.due = IF batch.step = "inference" THEN ok
                        ELSE IF batch.step = "trigger" THEN @ /\ ok ELSE @]

\* The secrets and the health check come first.
StartRun(ok) ==
  /\ batch.step = "off"
  /\ batch' = [step |-> IF ok THEN "prices" ELSE "trigger", call |-> None, due |-> FALSE,
               clean |-> ok /\ ~open /\ \A q \in Req : req[q].kind = "none"]
  /\ UNCHANGED <<market, prices, pred, script, requests, follower>>

\* The macro series and the texts, of which nothing is kept here; a series FRED
\* does not have, or a text the LLM does not write, does not fail its step.
PassStep(ok) ==
  /\ batch.step \in {"macro", "llm"}
  /\ batch' = StepEnds(ok)
  /\ UNCHANGED <<market, prices, pred, script, requests, follower>>

\* skip_inference (which skips the rest), skip_llm, skip_trigger.
SkipStep ==
  /\ batch.step \in {"inference", "llm", "trigger"} /\ batch.call = None
  /\ batch' = [batch EXCEPT !.step = IF @ = "llm" THEN "trigger" ELSE "upload",
                            !.due = @ /\ batch.step = "llm", !.clean = @ /\ batch.step = "llm"]
  /\ UNCHANGED <<market, prices, pred, script, requests, follower>>

\* curl --max-time, or no connection at all: the server may go on.
GiveUp ==
  /\ batch.step \in {"prices", "inference", "trigger"}
  /\ batch' = StepEnds(FALSE)
  /\ UNCHANGED <<market, prices, pred, script, requests, follower>>

\* timeout-minutes of the job: the step in progress is cancelled, and those with always()
\* still run, unless the runner stops before the trigger.
JobTimeout ==
  /\ batch.step \notin {"off", "upload"}
  /\ \/ batch' = StepEnds(FALSE)
     \/ batch' = [batch EXCEPT !.step = "upload", !.call = None, !.due = FALSE, !.clean = FALSE]
  /\ UNCHANGED <<market, prices, pred, script, requests, follower>>

EndRun ==
  /\ batch.step = "upload"
  /\ batch' = NoBatch
  /\ UNCHANGED <<market, prices, pred, script, requests, follower>>

\* A request begins: the call of the workflow's step, or (own = FALSE) somebody else's.
Begin(q, own, step, r) ==
  /\ req[q].kind = "none" /\ q \notin alive
  /\ IF own THEN batch.step = step /\ batch.call = None ELSE others < MaxOther
  /\ others' = IF own THEN others ELSE others + 1
  /\ req' = [req EXCEPT ![q] = r]

\* Mutation: the step goes on to the next with its call.
ReplyKeepsCall(q, ok) ==
  /\ req' = [req EXCEPT ![q] = NoReq]
  /\ batch' = IF batch.call = q THEN [StepEnds(ok) EXCEPT !.call = q] ELSE batch

\* A request of the workflow ends with its step.
Reply(q, ok) ==
  /\ req' = [req EXCEPT ![q] = NoReq]
  /\ batch' = IF batch.call = q THEN StepEnds(ok) ELSE batch

\* A request that fails before it has written anything (more), for whatever reason.
Fail(q) ==
  /\ req[q].kind # "none" /\ req[q].at # "running"
  /\ Reply(q, FALSE)
  /\ UNCHANGED <<market, prices, pred, script, others, follower>>
------------------------------------------------------------------------------
(* The market, and prices *)

OpenMarket ==
  /\ ~open /\ day < MaxDate
  /\ open' = TRUE
  /\ batch' = [batch EXCEPT !.clean = FALSE]
  /\ UNCHANGED <<day, prices, pred, script, requests, follower>>

CloseMarket ==
  /\ open
  /\ open' = FALSE /\ day' = day + 1
  /\ UNCHANGED <<prices, pred, script, requests, batch, follower>>

\* What a request has fetched at this moment: of the symbols S, up to today.
Fetching(kind, S) ==
  [kind |-> kind, at |-> "fetched", got |-> S, base |-> day, part |-> open, final |-> {}, mark |-> "none"]

\* fetch_history_prices, or fetch_latest_prices: yfinance returns the symbols S.
StartPrices(q, own, kind, S) ==
  /\ IF own THEN kind = "history" ELSE S # {}
  /\ Begin(q, own, "prices", Fetching(kind, S))
  /\ batch' = IF own THEN [batch EXCEPT !.call = q, !.clean = @ /\ S = Symbol] ELSE batch
  /\ UNCHANGED <<market, prices, pred, script, follower>>

\* What a request has fetched of symbol s for date d: the history, or the last row of
\* it.  Of an index only the date matters here.
Fetched(r, s, d) ==
  IF s \notin r.got THEN "none"
  ELSE IF r.part /\ d = r.base + 1 THEN (IF s \in Index THEN "final" ELSE "part")
  ELSE IF d <= r.base /\ (r.kind = "history" \/ (d = r.base /\ ~r.part)) THEN "final"
  ELSE "none"

\* Mutation: ON CONFLICT DO NOTHING.
UpsertedNothing(r, s, d) == IF price[s][d] = "none" THEN Fetched(r, s, d) ELSE price[s][d]

Upserted(r, s, d) == IF Fetched(r, s, d) = "none" THEN price[s][d] ELSE Fetched(r, s, d)

\* _upsert_prices: one transaction, whatever has been stored since the fetch.
StorePrices(q) ==
  /\ req[q].kind \in {"history", "live"}
  /\ price' = [s \in Symbol |-> [d \in Date |-> Upserted(req[q], s, d)]]
  /\ long' = IF req[q].kind = "history" THEN long \cup (req[q].got \cap Ticker) ELSE long
  /\ Reply(q, TRUE)
  /\ UNCHANGED <<market, pred, script, others, follower>>
------------------------------------------------------------------------------
(* Predictions *)

Stored(t) == {d \in Date : pred[t][d] # None}

Newest(t) == CHOOSE d \in Stored(t) : \A e \in Stored(t) : e <= d

\* A load that comes in turn: the first, one newer than all when the trigger has
\* looked at those, or one that leaves the grade as it is.
InTurn(t, d, g) ==
  \/ Stored(t) = {}
  \/ d > Newest(t) /\ t \in caught
  \/ d \in Stored(t) /\ pred[t][d].grade = g

\* The predictions with grades g (a function on the loaded tickers) for base_date d.
Load(q, d, g, final) ==
  LET S == DOMAIN g IN
  /\ pred' = [t \in Ticker |->
       IF t \in S THEN [pred[t] EXCEPT ![d] = [grade |-> g[t], final |-> t \in final]] ELSE pred[t]]
  /\ view' = [t \in Ticker |-> IF t \in S /\ Stored(t) = {} THEN g[t] ELSE view[t]]
  /\ odd' = odd \cup {t \in S : ~InTurn(t, d, g[t])}
  /\ caught' = {t \in caught : t \in S => Stored(t) = {}}
  /\ req' = [req EXCEPT ![q] = NoReq]
  /\ batch' = IF batch.call = q THEN StepEnds(TRUE) ELSE [batch EXCEPT !.due = FALSE]

\* The newest trade_date of any symbol; 0 if there is none.
LastRow ==
  LET D == {d \in 1 .. MaxDate : \E s \in Symbol : price[s][d] # "none"} IN
  IF D = {} THEN 0 ELSE CHOOSE d \in D : \A e \in D : e <= d

\* run_tft_m4_inference, run-db-inference: base_date is given, or that of the last row.
StartInference(q, own, d) ==
  /\ IF own THEN d = LastRow ELSE d # 0
  /\ Begin(q, own, "inference", [NoReq EXCEPT !.kind = "inference", !.at = "dated", !.base = d])
  /\ batch' = IF own THEN [batch EXCEPT !.call = q] ELSE [batch EXCEPT !.clean = FALSE]
  /\ UNCHANGED <<market, prices, pred, script, follower>>

\* build_inference_panel: the rows up to base_date d of the tickers that have the history
\* the indicators need; of those, the tickers whose row of d is final.
FinalOn(d) == {t \in long : price[t][d] = "final"}

\* The panel of a request; without any ticker the request fails (Fail).  The baseline forecasts
\* from the row of base_date.  The TFT drops the last five rows of each ticker, whose return
\* over five days is not known yet: the row of base_date is in its panel as the return of
\* the row five days before, and in the volatility fitted to all of them.
ReadPanel(q) ==
  /\ req[q].at = "dated" /\ req[q].base # 0 /\ long # {}
  /\ req' = [req EXCEPT ![q].at = "panel", ![q].got = long, ![q].final = FinalOn(req[q].base)]
  /\ UNCHANGED <<market, prices, pred, script, others, batch, follower>>

\* What a model, the TFT or the statistical baseline, may say of the tickers of its panel.
Forecasts(S) == [S -> Grade]

\* The model's answer, and ingest_predictions_from_json.
Infer(q) ==
  /\ req[q].at = "panel"
  /\ \E g \in Forecasts(req[q].got) : Load(q, req[q].base, g, req[q].final)
  /\ UNCHANGED <<market, prices, script, others>>
------------------------------------------------------------------------------
(* The script of POST /risk/sync/run-inference *)

Scripts == {q \in Req : req[q].kind = "script"}

StartScript(q) ==
  /\ req[q].kind = "none" /\ q \notin alive
  /\ others < MaxOther /\ others' = others + 1
  /\ req' = [p \in Req |->
       IF p = q THEN [NoReq EXCEPT !.kind = "script", !.at = "running",
                                   !.mark = IF Scripts = {} THEN "alone" ELSE "shared"]
       ELSE IF p \in Scripts THEN [req[p] EXCEPT !.mark = "shared"] ELSE req[p]]
  /\ alive' = alive \cup {q}
  /\ batch' = [batch EXCEPT !.clean = FALSE]
  /\ UNCHANGED <<market, prices, pred, file, follower>>

\* The script writes its file, which every request of the backend shares.
ScriptWrites(q) ==
  /\ q \in alive
  /\ file' = TRUE
  /\ req' = [p \in Req |->
       IF p = q /\ req[p].mark \in {"alone", "lost"} THEN [req[p] EXCEPT !.mark = "own"]
       ELSE IF p # q /\ req[p].mark = "own" THEN [req[p] EXCEPT !.mark = "lost"]
       ELSE req[p]]
  /\ UNCHANGED <<market, prices, pred, alive, others, batch, follower>>

ScriptExits(q) ==
  /\ req[q].at = "running" /\ q \in alive
  /\ alive' = alive \ {q}
  /\ req' = [req EXCEPT ![q].at = "exited"]
  /\ UNCHANGED <<market, prices, pred, file, others, batch, follower>>

\* Mutation: no kill() at the timeout.
StopScriptNoKill(q) ==
  /\ req[q].at = "running"
  /\ req' = [req EXCEPT ![q] = NoReq]
  /\ UNCHANGED <<market, prices, pred, script, others, batch, follower>>

\* The timeout of run_inference: the script is killed, and waited for; or it has failed.
StopScript(q) ==
  /\ req[q].at = "running"
  /\ alive' = alive \ {q}
  /\ req' = [req EXCEPT ![q] = NoReq]
  /\ UNCHANGED <<market, prices, pred, file, others, batch, follower>>

\* exists(), and ingest_predictions_from_csv of the file as it is now, under the given
\* base_date or that of the file; without a file, or a row it can use, the request fails (Fail).
LoadFile(q) ==
  /\ req[q].at = "exited" /\ file
  /\ \E d \in Date, S \in (SUBSET Ticker) \ {{}} : \E g \in [S -> Grade] : Load(q, d, g, {})
  /\ UNCHANGED <<market, prices, script, others>>
------------------------------------------------------------------------------
(* The trigger *)

StartTrigger(q, own) ==
  /\ Begin(q, own, "trigger", [NoReq EXCEPT !.kind = "trigger", !.at = "looking", !.got = Ticker])
  /\ batch' = IF own THEN [batch EXCEPT !.call = q] ELSE batch
  /\ UNCHANGED <<market, prices, pred, script, follower>>

Previous(t) ==
  CHOOSE d \in Stored(t) \ {Newest(t)} : \A e \in Stored(t) \ {Newest(t)} : e <= d

\* What the follower knows once the trigger has looked at t: it compares the
\* newest two predictions and announces the newer grade if they differ.
Told(t) ==
  IF Cardinality(Stored(t)) > 1 /\ pred[t][Newest(t)].grade # pred[t][Previous(t)].grade
  THEN pred[t][Newest(t)].grade ELSE view[t]

Look(q) ==
  /\ req[q].at = "looking"
  /\ \E t \in req[q].got :
       /\ req' = [req EXCEPT ![q].got = @ \ {t}]
       /\ view' = [view EXCEPT ![t] = Told(t)]
       /\ caught' = caught \cup {t}
       /\ odd' = IF Stored(t) # {} /\ Told(t) # pred[t][Newest(t)].grade THEN odd ELSE odd \ {t}
  /\ UNCHANGED <<market, prices, pred, script, others, batch>>

Looked(q) ==
  /\ req[q].at = "looking" /\ req[q].got = {}
  /\ Reply(q, TRUE)
  /\ UNCHANGED <<market, prices, pred, script, others, follower>>

Next ==
  \/ \E ok \in BOOLEAN : StartRun(ok) \/ PassStep(ok)
  \/ SkipStep \/ GiveUp \/ JobTimeout \/ EndRun
  \/ OpenMarket \/ CloseMarket
  \/ \E q \in Req, own \in BOOLEAN :
       \/ \E S \in SUBSET Symbol, kind \in {"history", "live"} : StartPrices(q, own, kind, S)
       \/ \E d \in 0 .. MaxDate : StartInference(q, own, d)
       \/ StartTrigger(q, own)
  \/ \E q \in Req :
       \/ Fail(q) \/ StorePrices(q) \/ ReadPanel(q) \/ Infer(q)
       \/ StartScript(q) \/ ScriptWrites(q) \/ ScriptExits(q) \/ StopScript(q)
       \/ LoadFile(q)
       \/ Look(q) \/ Looked(q)

Spec == Init /\ [][Next]_vars
------------------------------------------------------------------------------
(* Properties *)

Requests ==
  [kind : {"none", "history", "live", "inference", "script", "trigger"},
   at : {"idle", "fetched", "dated", "panel", "running", "exited", "looking"},
   got : SUBSET Symbol, base : 0 .. MaxDate, part : BOOLEAN, final : SUBSET Ticker,
   mark : {"none", "shared", "alone", "own", "lost"}]

Runs ==
  [step : {"off", "prices", "macro", "inference", "llm", "trigger", "upload"},
   call : Req \cup {None}, due : BOOLEAN, clean : BOOLEAN]

\* Types; and only the steps that make a request wait for one, the request they made.
TypeOK ==
  /\ day \in Date /\ open \in BOOLEAN /\ (open => day < MaxDate)
  /\ price \in [Symbol -> [Date -> {"none", "part", "final"}]] /\ long \subseteq Ticker
  /\ pred \in [Ticker -> [Date -> [grade : Grade, final : BOOLEAN] \cup {None}]]
  /\ file \in BOOLEAN /\ alive \subseteq Req
  /\ req \in [Req -> Requests] /\ others \in 0 .. MaxOther
  /\ batch \in Runs
  /\ view \in [Ticker -> Grade \cup {None}] /\ caught \subseteq Ticker /\ odd \subseteq Ticker
  /\ batch.call # None =>
       /\ batch.step \in {"prices", "inference", "trigger"}
       /\ req[batch.call].kind = IF batch.step = "prices" THEN "history" ELSE batch.step

\* A run all of whose steps have been green comes to the trigger with predictions
\* of the last trading day, from rows that include its final one, for every ticker: if it began
\* when the market was closed and no request was in progress, the market stayed
\* closed, yfinance knew all symbols, and nobody else began an inference or a script.
FreshGrades ==
  batch.step = "trigger" /\ batch.clean =>
    \A t \in Ticker : pred[t][day] # None /\ pred[t][day].final

\* A run that has loaded predictions and been through the trigger leaves a
\* follower with the newest grade of every ticker, whatever other steps have
\* failed ("알림은 발송", the comment on always()), unless the ticker had been
\* loaded out of turn: a date loaded anew with another grade, a date skipped by
\* the trigger, or somebody else's load since.
FollowersKnow ==
  batch.step = "upload" /\ batch.due =>
    \A t \in Ticker \ odd : Stored(t) # {} => view[t] = pred[t][Newest(t)].grade

\* A request about to load the file finds the one its own script wrote, unless its script wrote none
\* or another such request was in progress with it: a script its request has given
\* up on writes no more.
OwnFile ==
  \A q \in Req : req[q].at = "exited" => req[q].mark # "lost"
==============================================================================
