--------------------------- MODULE PipelineProofs ---------------------------
(***************************************************************************)
(* Proofs about Pipeline, for any number of tickers, indices, trading      *)
(* days, grades and requests.                                              *)
(*                                                                         *)
(* OwnFile rests on who runs a script (ScriptInv), FreshGrades on what a   *)
(* run that is still green has achieved at each of its steps (CleanInv),   *)
(* FollowersKnow on what the trigger would tell of each ticker (ViewInv)   *)
(* and on what the run's trigger has looked at (DueInv).                   *)
(***************************************************************************)
EXTENDS Pipeline, FiniteSetTheorems, WellFoundedInduction, NaturalsInduction, TLAPS

\* What a request does, where it is, and the tickers it is about.
ShapeInv ==
  \A q \in Req :
    /\ <<req[q].kind, req[q].at>> \in
         {<<"none", "idle">>, <<"history", "fetched">>, <<"live", "fetched">>,
          <<"inference", "dated">>, <<"inference", "panel">>,
          <<"script", "running">>, <<"script", "exited">>, <<"trigger", "looking">>}
    /\ req[q].at \in {"panel", "looking"} => req[q].got \subseteq Ticker
    /\ req[q].at = "panel" => req[q].base # 0

\* The scripts that run are those of the requests that wait for one, and a request
\* marked alone, or own, is the only one with a script.
ScriptInv ==
  /\ alive = {q \in Req : req[q].at = "running"}
  /\ \A p \in Req :
       /\ req[p].mark # "lost"
       /\ req[p].mark \in {"alone", "own"} => \A q \in Req : req[q].kind = "script" <=> q = p

\* Prices are of days that are over, or of the one in session.
MarketInv ==
  /\ \A s \in Symbol, d \in Date : price[s][d] # "none" => d <= day \/ (open /\ d = day + 1)
  /\ \A q \in Req : req[q].at = "fetched" =>
       req[q].base <= day /\ (req[q].part => req[q].base < day \/ open)

\* What a request may be while a run is green and undisturbed.
Harmless(q) ==
  /\ req[q].kind # "script"
  /\ req[q].at = "fetched" => req[q].base = day /\ ~req[q].part
  /\ req[q].kind = "history" /\ batch.call = q => req[q].got = Symbol
  /\ req[q].kind = "inference" =>
       /\ batch.call = q /\ batch.step = "inference" /\ req[q].base = day
       /\ req[q].at = "panel" => req[q].got = Ticker /\ req[q].final = Ticker

\* What a run that is green and undisturbed has achieved.
CleanInv ==
  batch.clean /\ Ticker # {} =>
    /\ batch.step # "off" /\ ~open
    /\ \A q \in Req : Harmless(q)
    /\ batch.step # "prices" => long = Ticker /\ \A t \in Ticker : price[t][day] = "final"
    /\ batch.step \in {"llm", "trigger", "upload"} =>
         \A t \in Ticker : pred[t][day] # None /\ pred[t][day].final

\* Of a ticker loaded in turn the trigger tells the newest grade, and the follower
\* knows it once the trigger has looked.
Known(t) ==
  Stored(t) # {} /\ t \notin odd =>
    /\ Told(t) = pred[t][Newest(t)].grade
    /\ t \in caught => view[t] = pred[t][Newest(t)].grade

ViewInv == \A t \in Ticker : Known(t)

\* What the trigger of a run that has loaded predictions has looked at.
DueInv ==
  batch.due =>
    /\ batch.step \in {"llm", "trigger", "upload"}
    /\ batch.step = "trigger" /\ batch.call # None => Ticker \ req[batch.call].got \subseteq caught
    /\ batch.step = "upload" => Ticker \subseteq caught

PipelineInv ==
  /\ TypeOK /\ ShapeInv /\ ScriptInv /\ MarketInv /\ CleanInv /\ ViewInv /\ DueInv
------------------------------------------------------------------------------
(* Frames *)

\* What the trigger would tell depends on the predictions and on what it has told.
LEMMA ViewFrame ==
  ASSUME ViewInv, UNCHANGED <<pred, follower>>
  PROVE  ViewInv'
<1>1. ASSUME NEW t \in Ticker PROVE Stored(t)' = Stored(t) /\ Newest(t)' = Newest(t) /\ Previous(t)' = Previous(t)
  BY DEF Newest, Previous, Stored, Date
<1>2. ASSUME NEW t \in Ticker PROVE Told(t)' = Told(t)
  BY <1>1 DEF Told, follower
<1> QED BY <1>1, <1>2 DEF ViewInv, Known, follower

\* Prices that have been fetched stay as they are.
LEMMA MarketFrame ==
  ASSUME MarketInv, UNCHANGED <<market, price>>,
         \A q \in Req : req'[q].at = "fetched" => req'[q] = req[q]
  PROVE  MarketInv'
BY DEF MarketInv, market, Date

\* No script begins or ends.
LEMMA ScriptFrame ==
  ASSUME ScriptInv, UNCHANGED alive,
         \A q \in Req : /\ req'[q].at = "running" <=> req[q].at = "running"
                        /\ req'[q].kind = "script" => req[q].kind = "script"
                        /\ req'[q].mark # "none" => req'[q].mark = req[q].mark /\ req'[q].kind = req[q].kind
  PROVE  ScriptInv'
<1>1. alive' = {q \in Req : req'[q].at = "running"}
  BY DEF ScriptInv
<1>2. ASSUME NEW p \in Req
      PROVE  /\ req'[p].mark # "lost"
             /\ req'[p].mark \in {"alone", "own"} => \A q \in Req : req'[q].kind = "script" <=> q = p
  BY DEF ScriptInv
<1> QED BY <1>1, <1>2 DEF ScriptInv

\* No request is an idle one.
LEMMA NoReqFacts ==
  /\ NoReq \in Requests
  /\ NoReq.kind = "none" /\ NoReq.at = "idle" /\ NoReq.mark = "none" /\ NoReq.got = {}
BY PipelineNumbers DEF NoReq, Requests, Symbol

\* What the end of a step makes of the run.
LEMMA StepFacts ==
  ASSUME batch \in Runs, NEW ok \in BOOLEAN, batch.step \notin {"off", "upload"}
  PROVE  /\ StepEnds(ok) \in Runs
         /\ StepEnds(ok).step = After(batch.step, ok) /\ StepEnds(ok).call = None
         /\ StepEnds(ok).clean = (batch.clean /\ ok)
         /\ StepEnds(ok).due = (IF batch.step = "inference" THEN ok
                                ELSE IF batch.step = "trigger" THEN batch.due /\ ok ELSE batch.due)
<1>1. After(batch.step, ok) \in {"macro", "inference", "llm", "trigger", "upload"}
  BY DEF After, Following, Runs
<1> QED BY <1>1 DEF StepEnds, Runs
------------------------------------------------------------------------------
(* The newest prediction *)

\* A nonempty set of numbers has a least element,
LEMMA Least ==
  ASSUME NEW S \in SUBSET Nat, S # {}
  PROVE  \E m \in S : \A x \in S : m <= x
<1>1. PICK y \in S : \A z \in S : ~ (<<z, y>> \in OpToRel(<, Nat))
  BY NatLessThanWellFounded, WFMin
<1>2. ASSUME NEW x \in S PROVE ~(x < y)
  <2>1. x < y => <<x, y>> \in OpToRel(<, Nat)
    BY DEF OpToRel
  <2> QED BY <2>1, <1>1
<1> QED BY <1>2

\* and a set of trading days a last one.
LEMMA LastDay ==
  ASSUME NEW S \in SUBSET Date, S # {}
  PROVE  \E m \in S : \A x \in S : x <= m
<1> DEFINE T == {y \in 0 .. MaxDate : MaxDate - y \in S}
<1>1. PICK x0 \in S : TRUE
  OBVIOUS
<1>2. MaxDate - x0 \in T /\ T \in SUBSET Nat
  BY PipelineNumbers DEF Date
<1>3. PICK y \in T : \A z \in T : y <= z
  <2> HIDE DEF T
  <2> QED BY <1>2, Least
<1>4. ASSUME NEW x \in S PROVE x <= MaxDate - y
  <2>1. MaxDate - x \in T
    BY PipelineNumbers DEF Date
  <2>2. y <= MaxDate - x
    BY <2>1, <1>3
  <2> QED BY <2>2, PipelineNumbers DEF Date
<1> QED BY <1>4

LEMMA NewestFacts ==
  ASSUME NEW t \in Ticker, Stored(t) # {}
  PROVE  Newest(t) \in Stored(t) /\ \A e \in Stored(t) : e <= Newest(t)
<1>1. Stored(t) \in SUBSET Date
  BY DEF Stored
<1>2. \E m \in Stored(t) : \A x \in Stored(t) : x <= m
  BY <1>1, LastDay
<1> QED BY <1>2 DEF Newest
------------------------------------------------------------------------------
(* The steps of the workflow that make no request *)

LEMMA RunStep ==
  ASSUME PipelineInv,
         (\E ok \in BOOLEAN : StartRun(ok) \/ PassStep(ok)) \/ SkipStep \/ GiveUp \/ JobTimeout \/ EndRun
  PROVE  PipelineInv'
<1>0. TypeOK /\ ShapeInv /\ ScriptInv /\ MarketInv /\ CleanInv /\ ViewInv /\ DueInv /\ batch \in Runs
  BY DEF PipelineInv, TypeOK
<1>1. UNCHANGED <<market, prices, pred, script, requests, follower>>
  BY DEF StartRun, PassStep, SkipStep, GiveUp, JobTimeout, EndRun
<1> DEFINE Outcome ==
      /\ batch' \in Runs /\ batch'.call = None
      /\ batch'.clean => \/ /\ batch'.step = "prices" /\ ~open /\ \A q \in Req : req[q].kind = "none"
                         \/ batch.clean /\ batch.step = "macro" /\ batch'.step = "inference"
                         \/ batch.clean /\ batch.step = "llm" /\ batch'.step = "trigger"
      /\ batch'.due => batch.due /\ batch.step = "llm" /\ batch'.step = "trigger"
<1>2. Outcome
  <2>1. ASSUME NEW ok \in BOOLEAN, StartRun(ok) PROVE Outcome
    BY <1>0, <2>1 DEF StartRun, Runs
  <2>2. ASSUME NEW ok \in BOOLEAN, PassStep(ok) PROVE Outcome
    <3>1. batch.step \in {"macro", "llm"} /\ batch' = StepEnds(ok)
      BY <2>2 DEF PassStep
    <3>2. batch.due => batch.step = "llm"
      BY <1>0, <3>1 DEF DueInv
    <3> QED BY <1>0, <3>1, <3>2, StepFacts DEF After, Following
  <2>3. CASE SkipStep
    <3>1. batch.due => batch.step # "inference"
      BY <1>0 DEF DueInv
    <3> QED BY <1>0, <2>3, <3>1 DEF SkipStep, Runs
  <2>4. CASE GiveUp
    <3>1. batch.step \in {"prices", "inference", "trigger"} /\ batch' = StepEnds(FALSE)
      BY <2>4 DEF GiveUp
    <3>2. batch.due => batch.step # "prices"
      BY <1>0 DEF DueInv
    <3> QED BY <1>0, <3>1, <3>2, StepFacts
  <2>5. CASE JobTimeout
    <3>1. CASE batch' = StepEnds(FALSE)
      <4>1. batch.step \notin {"off", "upload"}
        BY <2>5 DEF JobTimeout
      <4>2. batch.due => batch.step \notin {"prices", "macro", "inference"}
        BY <1>0 DEF DueInv
      <4>3. /\ batch' \in Runs /\ batch'.call = None /\ ~batch'.clean
            /\ batch'.step = After(batch.step, FALSE)
            /\ batch'.due => batch.due /\ batch.step # "trigger"
        BY <1>0, <3>1, <4>1, StepFacts
      <4>4. batch'.due => batch.step = "llm"
        BY <1>0, <4>1, <4>2, <4>3 DEF Runs
      <4> QED BY <4>3, <4>4 DEF After, Following
    <3>2. CASE batch' = [batch EXCEPT !.step = "upload", !.call = None, !.due = FALSE, !.clean = FALSE]
      BY <1>0, <3>2 DEF Runs
    <3> QED BY <2>5, <3>1, <3>2 DEF JobTimeout
  <2>6. CASE EndRun
    BY <1>0, <2>6 DEF EndRun, NoBatch, Runs
  <2> QED BY <2>1, <2>2, <2>3, <2>4, <2>5, <2>6
<1>3. TypeOK' /\ ShapeInv' /\ ScriptInv' /\ MarketInv' /\ ViewInv'
  <2>1. TypeOK'
    BY <1>0, <1>1, <1>2 DEF TypeOK, market, prices, script, requests, follower, Date
  <2>2. ShapeInv' /\ MarketInv' /\ ScriptInv'
    BY <1>0, <1>1, MarketFrame, ScriptFrame DEF ShapeInv, market, prices, script, requests
  <2>3. ViewInv'
    BY <1>0, <1>1, ViewFrame
  <2> QED BY <2>1, <2>2, <2>3
<1>4. CleanInv'
  <2> SUFFICES ASSUME batch'.clean, Ticker # {} PROVE CleanInv'
    BY DEF CleanInv
  <2>1. CASE batch'.step = "prices" /\ ~open /\ \A q \in Req : req[q].kind = "none"
    <3>1. \A q \in Req : req[q].at = "idle"
      BY <1>0, <2>1 DEF ShapeInv
    <3> QED BY <1>1, <1>2, <2>1, <3>1 DEF CleanInv, Harmless, market, prices, requests
  <2>2. CASE batch.clean /\ batch.step = "macro" /\ batch'.step = "inference"
    BY <1>0, <1>1, <1>2, <2>2, PipelineNone DEF CleanInv, Harmless, market, prices, requests
  <2>3. CASE batch.clean /\ batch.step = "llm" /\ batch'.step = "trigger"
    BY <1>0, <1>1, <1>2, <2>3, PipelineNone DEF CleanInv, Harmless, market, prices, requests
  <2> QED BY <1>2, <2>1, <2>2, <2>3
<1>5. DueInv'
  BY <1>2 DEF DueInv
<1> QED BY <1>3, <1>4, <1>5 DEF PipelineInv
------------------------------------------------------------------------------
(* Requests that begin, go on and end *)

\* The call of the run, of TypeOK.
CallOK ==
  batch.call # None =>
    /\ batch.call \in Req
    /\ batch.step \in {"prices", "inference", "trigger"}
    /\ req[batch.call].kind = IF batch.step = "prices" THEN "history" ELSE batch.step

\* A request that is in order: of its kind, where it may be, about tickers.
Proper(r) ==
  /\ <<r.kind, r.at>> \in
       {<<"none", "idle">>, <<"history", "fetched">>, <<"live", "fetched">>,
        <<"inference", "dated">>, <<"inference", "panel">>,
        <<"script", "running">>, <<"script", "exited">>, <<"trigger", "looking">>}
  /\ r.at \in {"panel", "looking"} => r.got \subseteq Ticker
  /\ r.at = "panel" => r.base # 0

\* A request that is not a script begins.
LEMMA BeginKeeps ==
  ASSUME TypeOK, ShapeInv, ScriptInv, NEW q \in Req, NEW own \in BOOLEAN,
         NEW step \in {"prices", "inference", "trigger"}, NEW r \in Requests,
         Begin(q, own, step, r), Proper(r), r.kind # "script", r.mark = "none",
         own => r.kind = IF step = "prices" THEN "history" ELSE step,
         UNCHANGED alive,
         batch' \in Runs, batch'.step = batch.step, batch'.call = IF own THEN q ELSE batch.call
  PROVE  /\ req' \in [Req -> Requests] /\ others' \in 0 .. MaxOther /\ CallOK'
         /\ ShapeInv' /\ ScriptInv'
         /\ \A p \in Req : req'[p] = IF p = q THEN r ELSE req[p]
<1>1. req \in [Req -> Requests] /\ others \in 0 .. MaxOther /\ CallOK
  BY DEF TypeOK, CallOK, Runs
<1>2. req' = [req EXCEPT ![q] = r] /\ req[q].kind = "none"
  BY DEF Begin
<1>3. req' \in [Req -> Requests] /\ \A p \in Req : req'[p] = IF p = q THEN r ELSE req[p]
  BY <1>1, <1>2
<1>4. others' \in 0 .. MaxOther
  BY <1>1, PipelineNumbers DEF Begin
<1>5. CallOK'
  <2>1. CASE own
    BY <2>1, <1>3 DEF Begin, CallOK
  <2>2. CASE ~own
    BY <2>2, <1>1, <1>2, <1>3 DEF CallOK
  <2> QED BY <2>1, <2>2
<1>6. ShapeInv'
  BY <1>3 DEF ShapeInv, Proper
<1>7. ScriptInv'
  BY <1>2, <1>3, ScriptFrame DEF Proper, ShapeInv
<1> QED BY <1>3, <1>4, <1>5, <1>6, <1>7

\* A request whose script does not run ends, and with it the step that waits for it.
LEMMA EndKeeps ==
  ASSUME TypeOK, ShapeInv, ScriptInv, NEW q \in Req, NEW ok \in BOOLEAN, NEW due \in BOOLEAN,
         req[q].kind # "none", req[q].at # "running",
         req' = [req EXCEPT ![q] = NoReq], UNCHANGED alive,
         batch' = IF batch.call = q THEN StepEnds(ok) ELSE [batch EXCEPT !.due = due]
  PROVE  /\ req' \in [Req -> Requests] /\ batch' \in Runs /\ CallOK'
         /\ ShapeInv' /\ ScriptInv'
         /\ \A p \in Req : req'[p] = IF p = q THEN NoReq ELSE req[p]
         /\ batch.call = q =>
              /\ batch'.step = After(batch.step, ok) /\ batch'.call = None
              /\ batch'.clean = (batch.clean /\ ok)
              /\ batch'.due = (IF batch.step = "inference" THEN ok
                               ELSE IF batch.step = "trigger" THEN batch.due /\ ok ELSE batch.due)
         /\ batch.call # q =>
              /\ batch'.step = batch.step /\ batch'.call = batch.call
              /\ batch'.clean = batch.clean /\ batch'.due = due
<1>1. req \in [Req -> Requests] /\ CallOK /\ batch \in Runs
  BY DEF TypeOK, CallOK, Runs
<1>2. req' \in [Req -> Requests] /\ \A p \in Req : req'[p] = IF p = q THEN NoReq ELSE req[p]
  BY <1>1, NoReqFacts
<1>3. ShapeInv'
  BY <1>2, NoReqFacts DEF ShapeInv
<1>4. ScriptInv'
  BY <1>2, NoReqFacts, ScriptFrame
<1>5. CASE batch.call = q
  <2>1. batch.call # None
    BY <1>5, PipelineNone
  <2>2. batch.step \notin {"off", "upload"}
    BY <1>1, <2>1 DEF CallOK
  <2> QED BY <1>1, <1>2, <1>3, <1>4, <1>5, <2>2, StepFacts DEF CallOK
<1>6. CASE batch.call # q
  <2>1. batch' \in Runs /\ batch'.step = batch.step /\ batch'.call = batch.call
        /\ batch'.clean = batch.clean /\ batch'.due = due
    BY <1>1, <1>6 DEF Runs
  <2>2. CallOK'
    BY <1>1, <1>2, <1>6, <2>1 DEF CallOK
  <2> QED BY <1>2, <1>3, <1>4, <1>6, <2>1, <2>2
<1> QED BY <1>5, <1>6

\* A request goes on: its kind stays, and what marks a script.
LEMMA AdvanceKeeps ==
  ASSUME TypeOK, ShapeInv, ScriptInv, NEW q \in Req, NEW r \in Requests,
         req' = [req EXCEPT ![q] = r], Proper(r), r.kind = req[q].kind, r.mark = req[q].mark,
         r.at = "running" <=> req[q].at = "running", UNCHANGED <<alive, batch>>
  PROVE  /\ req' \in [Req -> Requests] /\ CallOK' /\ ShapeInv' /\ ScriptInv'
         /\ \A p \in Req : req'[p] = IF p = q THEN r ELSE req[p]
<1>1. req \in [Req -> Requests] /\ CallOK
  BY DEF TypeOK, CallOK, Runs
<1>2. req' \in [Req -> Requests] /\ \A p \in Req : req'[p] = IF p = q THEN r ELSE req[p]
  BY <1>1
<1>3. ShapeInv'
  BY <1>2 DEF ShapeInv, Proper
<1>4. ScriptInv'
  BY <1>2, ScriptFrame
<1>5. CallOK'
  BY <1>1, <1>2 DEF CallOK
<1> QED BY <1>2, <1>3, <1>4, <1>5

------------------------------------------------------------------------------
(* The market *)

LEMMA OpenStep ==
  ASSUME PipelineInv, OpenMarket
  PROVE  PipelineInv'
<1>0. TypeOK /\ ShapeInv /\ ScriptInv /\ MarketInv /\ ViewInv /\ DueInv /\ batch \in Runs
  BY DEF PipelineInv, TypeOK
<1>1. /\ ~open /\ open' = TRUE /\ day < MaxDate
      /\ UNCHANGED <<day, prices, pred, script, requests, follower>>
  BY DEF OpenMarket
<1>2. batch' \in Runs /\ batch'.step = batch.step /\ batch'.call = batch.call
      /\ batch'.clean = FALSE /\ batch'.due = batch.due
  BY <1>0 DEF OpenMarket, Runs
<1>3. TypeOK'
  BY <1>0, <1>1, <1>2 DEF TypeOK, prices, script, requests, follower, Date
<1>4. ShapeInv' /\ ScriptInv'
  BY <1>0, <1>1, ScriptFrame DEF ShapeInv, script, requests
<1>5. MarketInv'
  BY <1>0, <1>1 DEF MarketInv, prices, requests, Date
<1>6. ViewInv'
  BY <1>0, <1>1, ViewFrame
<1>7. CleanInv' /\ DueInv'
  BY <1>0, <1>1, <1>2 DEF CleanInv, DueInv, requests, follower
<1> QED BY <1>3, <1>4, <1>5, <1>6, <1>7 DEF PipelineInv

LEMMA CloseStep ==
  ASSUME PipelineInv, CloseMarket
  PROVE  PipelineInv'
<1>0. TypeOK /\ ShapeInv /\ ScriptInv /\ MarketInv /\ CleanInv /\ ViewInv /\ DueInv
  BY DEF PipelineInv
<1>1. /\ open /\ open' = FALSE /\ day' = day + 1
      /\ UNCHANGED <<prices, pred, script, requests, batch, follower>>
  BY DEF CloseMarket
<1>2. day \in Nat /\ day < MaxDate /\ day + 1 \in Date
  BY <1>0, <1>1, PipelineNumbers DEF TypeOK, Date
<1>3. TypeOK'
  BY <1>0, <1>1, <1>2 DEF TypeOK, prices, script, requests, follower, Date
<1>4. ShapeInv' /\ ScriptInv'
  BY <1>0, <1>1, ScriptFrame DEF ShapeInv, script, requests
<1>5. MarketInv'
  <2>1. \A q \in Req : req[q].base \in Nat
    BY <1>0, PipelineNumbers DEF TypeOK, Requests
  <2>2. \A s \in Symbol, d \in Date : price'[s][d] # "none" => d <= day'
    BY <1>0, <1>1, <1>2 DEF MarketInv, prices, Date
  <2>3. \A q \in Req : req'[q].at = "fetched" => req'[q].base < day'
    BY <1>0, <1>1, <1>2, <2>1 DEF MarketInv, requests
  <2>4. \A q \in Req : req'[q].at = "fetched" => req'[q].base <= day'
    BY <1>1, <1>2, <2>1, <2>3 DEF requests
  <2> QED BY <2>2, <2>3, <2>4 DEF MarketInv
<1>6. ViewInv'
  BY <1>0, <1>1, ViewFrame
<1>7. CleanInv' /\ DueInv'
  BY <1>0, <1>1 DEF CleanInv, DueInv, requests, follower
<1> QED BY <1>3, <1>4, <1>5, <1>6, <1>7 DEF PipelineInv
------------------------------------------------------------------------------
(* Prices *)

\* A request for prices begins; a run that stays green has asked for all symbols.
LEMMA StartPricesStep ==
  ASSUME PipelineInv, NEW q \in Req, NEW own \in BOOLEAN, NEW S \in SUBSET Symbol,
         NEW kind \in {"history", "live"}, StartPrices(q, own, kind, S)
  PROVE  PipelineInv'
<1> DEFINE r == Fetching(kind, S)
<1>0. /\ TypeOK /\ ShapeInv /\ ScriptInv /\ MarketInv /\ CleanInv /\ ViewInv /\ DueInv
      /\ batch \in Runs /\ day \in Date /\ open \in BOOLEAN
  BY DEF PipelineInv, TypeOK
<1>1. /\ Begin(q, own, "prices", r) /\ (own => kind = "history")
      /\ UNCHANGED <<market, prices, pred, script, follower>>
      /\ batch' = IF own THEN [batch EXCEPT !.call = q, !.clean = @ /\ S = Symbol] ELSE batch
  BY DEF StartPrices
<1>2. /\ r \in Requests /\ r.kind = kind /\ r.at = "fetched" /\ r.got = S /\ r.base = day
      /\ r.part = open /\ r.mark = "none"
  BY <1>0, PipelineNumbers DEF Fetching, Requests, Date
<1> HIDE DEF r
<1>3. /\ batch' \in Runs /\ batch'.step = batch.step
      /\ batch'.call = (IF own THEN q ELSE batch.call)
      /\ batch'.due = batch.due /\ (batch'.clean => batch.clean /\ (own => S = Symbol))
  <2>1. CASE own
    <3>1. PICK c \in BOOLEAN : c = (batch.clean /\ S = Symbol)
      OBVIOUS
    <3>2. batch' = [batch EXCEPT !.call = q, !.clean = c]
      BY <1>1, <2>1, <3>1, Zenon
    <3> QED BY <1>0, <2>1, <3>1, <3>2 DEF Runs
  <2>2. CASE ~own
    BY <1>0, <1>1, <2>2 DEF Runs
  <2> QED BY <2>1, <2>2
<1>4. Proper(r)
  BY <1>2 DEF Proper
<1>5. /\ req' \in [Req -> Requests] /\ others' \in 0 .. MaxOther /\ CallOK' /\ ShapeInv' /\ ScriptInv'
      /\ \A p \in Req : req'[p] = IF p = q THEN r ELSE req[p]
  BY <1>0, <1>1, <1>2, <1>3, <1>4, BeginKeeps DEF script
<1>6. TypeOK'
  BY <1>0, <1>1, <1>3, <1>5 DEF TypeOK, CallOK, market, prices, script, follower, Date
<1>7. MarketInv'
  <2>1. day <= day /\ (open => day < day \/ open)
    BY <1>0 DEF Date
  <2> QED BY <1>0, <1>1, <1>2, <1>5, <2>1 DEF MarketInv, market, prices, Date
<1>8. ViewInv'
  BY <1>0, <1>1, ViewFrame
<1>9. CleanInv'
  <2> SUFFICES ASSUME batch'.clean, Ticker # {} PROVE CleanInv'
    BY DEF CleanInv
  <2>1. batch.clean /\ (own => S = Symbol) /\ ~open
    BY <1>0, <1>3 DEF CleanInv
  <2>2. own => batch.step = "prices"
    BY <1>1 DEF Begin
  <2>3. ASSUME NEW p \in Req PROVE Harmless(p)'
    <3>1. CASE p = q
      <4>1. ~own => batch'.call # q
        <5>1. req[q].kind = "none" /\ q # None
          BY <1>1, PipelineNone DEF Begin
        <5>2. batch.call # q
          BY <1>0, <5>1 DEF TypeOK
        <5> QED BY <1>3, <5>2
      <4> QED BY <1>1, <1>2, <1>5, <2>1, <3>1, <4>1 DEF Harmless, market
    <3>2. CASE p # q
      <4>1. Harmless(p) /\ req'[p] = req[p] /\ (batch'.call = p => batch.call = p)
        BY <1>0, <1>3, <1>5, <2>1, <3>2 DEF CleanInv
      <4>2. req[p].kind = "inference" => ~own
        BY <2>2, <4>1 DEF Harmless
      <4> QED BY <1>1, <1>3, <4>1, <4>2 DEF Harmless, market
    <3> QED BY <3>1, <3>2
  <2> QED BY <1>0, <1>1, <1>3, <2>1, <2>3 DEF CleanInv, market, prices
<1>10. DueInv'
  <2>1. batch.due => ~own
    BY <1>0, <1>1 DEF DueInv, Begin
  <2>2. batch.due /\ batch.call # None => batch.call \in Req /\ batch.call # q
    BY <1>0, <1>1 DEF TypeOK, Begin, Runs
  <2> QED BY <1>0, <1>1, <1>3, <1>5, <2>1, <2>2 DEF DueInv, follower
<1> QED BY <1>5, <1>6, <1>7, <1>8, <1>9, <1>10 DEF PipelineInv

\* What is stored is of days that are over or in session.
LEMMA UpsertFacts ==
  ASSUME TypeOK, MarketInv, NEW q \in Req, req[q].kind \in {"history", "live"}, req[q].at = "fetched",
         NEW s \in Symbol, NEW d \in Date
  PROVE  /\ Upserted(req[q], s, d) \in {"none", "part", "final"}
         /\ Upserted(req[q], s, d) # "none" => d <= day \/ (open /\ d = day + 1)
         /\ ~req[q].part => Upserted(req[q], s, d) \in {price[s][d], "final"}
         /\ ~req[q].part /\ req[q].base = day /\ req[q].kind = "history" /\ s \in req[q].got /\ d = day
              => Upserted(req[q], s, d) = "final"
<1>1. /\ price[s][d] \in {"none", "part", "final"} /\ req[q].base \in Nat /\ day \in Nat /\ d \in Nat
      /\ req[q].base <= day /\ (req[q].part => req[q].base < day \/ open)
      /\ (price[s][d] # "none" => d <= day \/ (open /\ d = day + 1))
  BY PipelineNumbers DEF TypeOK, MarketInv, Requests, Date
<1>2. Fetched(req[q], s, d) \in {"none", "part", "final"}
  BY DEF Fetched
<1>3. Fetched(req[q], s, d) # "none" => d <= req[q].base \/ (req[q].part /\ d = req[q].base + 1)
  BY <1>1 DEF Fetched
<1>4. ~req[q].part => Fetched(req[q], s, d) \in {"none", "final"}
  BY DEF Fetched
<1>5. ~req[q].part /\ req[q].base = day /\ req[q].kind = "history" /\ s \in req[q].got /\ d = day
        => Fetched(req[q], s, d) = "final"
  BY <1>1 DEF Fetched
<1>6. Fetched(req[q], s, d) # "none" => d <= day \/ (open /\ d = day + 1)
  BY <1>1, <1>3
<1> QED BY <1>1, <1>2, <1>4, <1>5, <1>6 DEF Upserted
------------------------------------------------------------------------------
(* Requests that end or go on *)

\* When a request ends, the others stay as harmless to a green run as they were.
LEMMA HarmlessEnd ==
  ASSUME CleanInv, batch.clean, Ticker # {}, NEW q \in Req, UNCHANGED day,
         \A p \in Req : req'[p] = IF p = q THEN NoReq ELSE req[p],
         batch.call = q => batch'.call = None,
         batch.call # q => batch'.step = batch.step /\ batch'.call = batch.call
  PROVE  \A p \in Req : Harmless(p)'
<1> SUFFICES ASSUME NEW p \in Req PROVE Harmless(p)'
  OBVIOUS
<1>1. CASE p = q
  BY <1>1, NoReqFacts DEF Harmless
<1>2. CASE p # q
  <2>1. Harmless(p) /\ req'[p] = req[p]
    BY <1>2 DEF CleanInv
  <2>2. batch'.call = p => batch.call = p
    BY PipelineNone
  <2>3. req[p].kind = "inference" => batch'.step = batch.step /\ batch'.call = batch.call
    BY <1>2, <2>1 DEF Harmless
  <2> QED BY <2>1, <2>2, <2>3 DEF Harmless
<1> QED BY <1>1, <1>2

\* Prices are stored, and a green run has its final ones.
LEMMA StorePricesStep ==
  ASSUME PipelineInv, NEW q \in Req, StorePrices(q)
  PROVE  PipelineInv'
<1>0. /\ TypeOK /\ ShapeInv /\ ScriptInv /\ MarketInv /\ CleanInv /\ ViewInv /\ DueInv
      /\ batch \in Runs /\ batch.due \in BOOLEAN
  BY DEF PipelineInv, TypeOK, Runs
<1>1. /\ req[q].kind \in {"history", "live"}
      /\ price' = [s \in Symbol |-> [d \in Date |-> Upserted(req[q], s, d)]]
      /\ long' = IF req[q].kind = "history" THEN long \cup (req[q].got \cap Ticker) ELSE long
      /\ req' = [req EXCEPT ![q] = NoReq]
      /\ batch' = IF batch.call = q THEN StepEnds(TRUE) ELSE batch
      /\ UNCHANGED <<market, pred, script, others, follower>>
  BY DEF StorePrices, Reply
<1>2. req[q].at = "fetched"
  BY <1>0, <1>1 DEF ShapeInv
<1>3. batch = [batch EXCEPT !.due = batch.due]
  BY <1>0 DEF Runs
<1>4. /\ req' \in [Req -> Requests] /\ batch' \in Runs /\ CallOK' /\ ShapeInv' /\ ScriptInv'
      /\ \A p \in Req : req'[p] = IF p = q THEN NoReq ELSE req[p]
      /\ batch.call = q =>
           /\ batch'.step = After(batch.step, TRUE) /\ batch'.call = None
           /\ batch'.clean = (batch.clean /\ TRUE)
           /\ batch'.due = (IF batch.step = "inference" THEN TRUE
                            ELSE IF batch.step = "trigger" THEN batch.due /\ TRUE ELSE batch.due)
      /\ batch.call # q =>
           /\ batch'.step = batch.step /\ batch'.call = batch.call
           /\ batch'.clean = batch.clean /\ batch'.due = batch.due
  BY <1>0, <1>1, <1>2, <1>3, EndKeeps DEF script
<1>5. batch.call = q => /\ batch.step = "prices" /\ req[q].kind = "history" /\ batch'.step = "macro"
                        /\ batch'.due = batch.due
  <2>1. batch.call = q => batch.step = "prices" /\ req[q].kind = "history"
    BY <1>0, <1>1, PipelineNone DEF TypeOK
  <2> QED BY <1>4, <2>1 DEF After, Following
<1>6. \A s \in Symbol, d \in Date : price'[s][d] = Upserted(req[q], s, d)
  BY <1>1
<1>7. TypeOK'
  <2>1. price' \in [Symbol -> [Date -> {"none", "part", "final"}]]
    BY <1>0, <1>1, <1>2, UpsertFacts
  <2>2. long' \subseteq Ticker
    BY <1>0, <1>1 DEF TypeOK
  <2> QED BY <1>0, <1>1, <1>4, <2>1, <2>2 DEF TypeOK, CallOK, market, script, follower, Date
<1>8. MarketInv'
  <2>1. \A s \in Symbol, d \in Date : price'[s][d] # "none" => d <= day \/ (open /\ d = day + 1)
    BY <1>0, <1>1, <1>2, <1>6, UpsertFacts
  <2>2. \A p \in Req : req'[p].at = "fetched" => req'[p] = req[p]
    BY <1>4, NoReqFacts
  <2> QED BY <1>0, <1>1, <2>1, <2>2 DEF MarketInv, market
<1>9. ViewInv'
  BY <1>0, <1>1, ViewFrame
<1>10. CleanInv'
  <2> SUFFICES ASSUME batch'.clean, Ticker # {} PROVE CleanInv'
    BY DEF CleanInv
  <2>1. /\ batch.clean /\ ~open /\ Harmless(q) /\ ~req[q].part /\ req[q].base = day
        /\ day \in Date /\ Ticker \subseteq Symbol
    BY <1>0, <1>2, <1>4 DEF CleanInv, Harmless, TypeOK, Symbol
  <2>2. \A p \in Req : Harmless(p)'
    BY <1>0, <1>1, <1>4, <2>1, HarmlessEnd DEF market
  <2>3. \A t \in Ticker : price'[t][day] \in {price[t][day], "final"}
    BY <1>0, <1>2, <1>1, <1>6, <2>1, UpsertFacts
  <2>4. CASE batch.call = q
    <3>1. req[q].got = Symbol
      BY <1>1, <1>5, <2>1, <2>4 DEF Harmless
    <3>2. \A t \in Ticker : price'[t][day] = "final"
      BY <1>0, <1>1, <1>2, <1>5, <1>6, <2>1, <2>4, <3>1, UpsertFacts
    <3>3. long' = Ticker
      BY <1>0, <1>1, <1>5, <2>1, <2>4, <3>1 DEF TypeOK
    <3> QED BY <1>1, <1>5, <2>1, <2>2, <2>4, <3>2, <3>3 DEF CleanInv, market
  <2>5. CASE batch.call # q
    <3>1. long = Ticker => long' = Ticker
      BY <1>1
    <3> QED BY <1>0, <1>1, <1>4, <2>1, <2>2, <2>3, <2>5, <3>1 DEF CleanInv, market
  <2> QED BY <2>4, <2>5
<1>11. DueInv'
  BY <1>0, <1>1, <1>4, <1>5 DEF DueInv, follower, CallOK
<1> QED BY <1>4, <1>7, <1>8, <1>9, <1>10, <1>11 DEF PipelineInv

\* A request fails: the run is no longer green, nor has it loaded anything new.
LEMMA FailStep ==
  ASSUME PipelineInv, NEW q \in Req, Fail(q)
  PROVE  PipelineInv'
<1>0. /\ TypeOK /\ ShapeInv /\ ScriptInv /\ MarketInv /\ CleanInv /\ ViewInv /\ DueInv
      /\ batch \in Runs /\ batch.due \in BOOLEAN
  BY DEF PipelineInv, TypeOK, Runs
<1>1. /\ req[q].kind # "none" /\ req[q].at # "running"
      /\ req' = [req EXCEPT ![q] = NoReq]
      /\ batch' = IF batch.call = q THEN StepEnds(FALSE) ELSE batch
      /\ UNCHANGED <<market, prices, pred, script, others, follower>>
  BY DEF Fail, Reply
<1>2. batch = [batch EXCEPT !.due = batch.due]
  BY <1>0 DEF Runs
<1>3. /\ req' \in [Req -> Requests] /\ batch' \in Runs /\ CallOK' /\ ShapeInv' /\ ScriptInv'
      /\ \A p \in Req : req'[p] = IF p = q THEN NoReq ELSE req[p]
      /\ batch.call = q =>
           /\ batch'.call = None /\ batch'.clean = (batch.clean /\ FALSE)
           /\ batch'.due = (IF batch.step = "inference" THEN FALSE
                            ELSE IF batch.step = "trigger" THEN batch.due /\ FALSE ELSE batch.due)
      /\ batch.call # q =>
           /\ batch'.step = batch.step /\ batch'.call = batch.call
           /\ batch'.clean = batch.clean /\ batch'.due = batch.due
  BY <1>0, <1>1, <1>2, EndKeeps DEF script
<1>4. TypeOK'
  BY <1>0, <1>1, <1>3 DEF TypeOK, CallOK, market, prices, script, follower, Date
<1>5. MarketInv'
  BY <1>0, <1>1, <1>3, NoReqFacts, MarketFrame DEF prices
<1>6. ViewInv'
  BY <1>0, <1>1, ViewFrame
<1>7. CleanInv'
  <2> SUFFICES ASSUME batch'.clean, Ticker # {} PROVE CleanInv'
    BY DEF CleanInv
  <2>1. batch.call # q /\ batch.clean
    BY <1>3
  <2>2. \A p \in Req : Harmless(p)'
    BY <1>0, <1>1, <1>3, <2>1, HarmlessEnd DEF market
  <2> QED BY <1>0, <1>1, <1>3, <2>1, <2>2 DEF CleanInv, market, prices
<1>8. DueInv'
  <2>1. batch.call = q => batch.step \in {"prices", "inference", "trigger"}
    BY <1>0, PipelineNone DEF TypeOK
  <2>2. batch.call = q => ~batch'.due
    BY <1>0, <1>3, <2>1 DEF DueInv
  <2> QED BY <1>0, <1>1, <1>3, <2>2 DEF DueInv, follower, CallOK
<1> QED BY <1>3, <1>4, <1>5, <1>6, <1>7, <1>8 DEF PipelineInv

\* The trigger has looked at all tickers.
LEMMA LookedStep ==
  ASSUME PipelineInv, NEW q \in Req, Looked(q)
  PROVE  PipelineInv'
<1>0. /\ TypeOK /\ ShapeInv /\ ScriptInv /\ MarketInv /\ CleanInv /\ ViewInv /\ DueInv
      /\ batch \in Runs /\ batch.due \in BOOLEAN
  BY DEF PipelineInv, TypeOK, Runs
<1>1. /\ req[q].at = "looking" /\ req[q].got = {}
      /\ req' = [req EXCEPT ![q] = NoReq]
      /\ batch' = IF batch.call = q THEN StepEnds(TRUE) ELSE batch
      /\ UNCHANGED <<market, prices, pred, script, others, follower>>
  BY DEF Looked, Reply
<1>2. batch = [batch EXCEPT !.due = batch.due] /\ req[q].kind = "trigger"
  BY <1>0, <1>1 DEF Runs, ShapeInv
<1>3. /\ req' \in [Req -> Requests] /\ batch' \in Runs /\ CallOK' /\ ShapeInv' /\ ScriptInv'
      /\ \A p \in Req : req'[p] = IF p = q THEN NoReq ELSE req[p]
      /\ batch.call = q =>
           /\ batch'.step = After(batch.step, TRUE) /\ batch'.call = None
           /\ batch'.clean = (batch.clean /\ TRUE)
           /\ batch'.due = (IF batch.step = "inference" THEN TRUE
                            ELSE IF batch.step = "trigger" THEN batch.due /\ TRUE ELSE batch.due)
      /\ batch.call # q =>
           /\ batch'.step = batch.step /\ batch'.call = batch.call
           /\ batch'.clean = batch.clean /\ batch'.due = batch.due
  BY <1>0, <1>1, <1>2, EndKeeps DEF script
<1>4. batch.call = q => batch.step = "trigger" /\ batch'.step = "upload" /\ (batch'.due => batch.due)
  <2>1. batch.call = q => batch.step = "trigger"
    BY <1>0, <1>2, PipelineNone DEF TypeOK
  <2> QED BY <1>0, <1>3, <2>1 DEF After, Following
<1>5. TypeOK'
  BY <1>0, <1>1, <1>3 DEF TypeOK, CallOK, market, prices, script, follower, Date
<1>6. MarketInv'
  BY <1>0, <1>1, <1>3, NoReqFacts, MarketFrame DEF prices
<1>7. ViewInv'
  BY <1>0, <1>1, ViewFrame
<1>8. CleanInv'
  <2> SUFFICES ASSUME batch'.clean, Ticker # {} PROVE CleanInv'
    BY DEF CleanInv
  <2>1. batch.clean
    BY <1>3
  <2>2. \A p \in Req : Harmless(p)'
    BY <1>0, <1>1, <1>3, <2>1, HarmlessEnd DEF market
  <2> QED BY <1>0, <1>1, <1>3, <1>4, <2>1, <2>2 DEF CleanInv, market, prices
<1>9. DueInv'
  <2>1. CASE batch.call = q
    <3>1. q # None
      BY PipelineNone
    <3> QED BY <1>0, <1>1, <1>3, <1>4, <2>1, <3>1 DEF DueInv, follower
  <2>2. CASE batch.call # q
    BY <1>0, <1>1, <1>3, <2>2 DEF DueInv, follower, CallOK
  <2> QED BY <2>1, <2>2
<1> QED BY <1>3, <1>5, <1>6, <1>7, <1>8, <1>9 DEF PipelineInv
------------------------------------------------------------------------------
(* The inference *)

\* A green run begins its inference with the day whose final prices it has stored.
LEMMA StartInferenceStep ==
  ASSUME PipelineInv, NEW q \in Req, NEW own \in BOOLEAN, NEW d \in 0 .. MaxDate,
         StartInference(q, own, d)
  PROVE  PipelineInv'
<1> DEFINE r == [NoReq EXCEPT !.kind = "inference", !.at = "dated", !.base = d]
<1>0. /\ TypeOK /\ ShapeInv /\ ScriptInv /\ MarketInv /\ CleanInv /\ ViewInv /\ DueInv
      /\ batch \in Runs /\ day \in Date /\ open \in BOOLEAN
  BY DEF PipelineInv, TypeOK
<1>1. /\ Begin(q, own, "inference", r) /\ (own => d = LastRow)
      /\ UNCHANGED <<market, prices, pred, script, follower>>
      /\ batch' = IF own THEN [batch EXCEPT !.call = q] ELSE [batch EXCEPT !.clean = FALSE]
  BY DEF StartInference
<1>2. /\ r \in Requests /\ r.kind = "inference" /\ r.at = "dated" /\ r.base = d /\ r.mark = "none"
  BY DEF NoReq, Requests, Symbol
<1> HIDE DEF r
<1>3. /\ batch' \in Runs /\ batch'.step = batch.step
      /\ batch'.call = (IF own THEN q ELSE batch.call)
      /\ batch'.due = batch.due /\ (batch'.clean => batch.clean /\ own)
  <2>1. CASE own
    BY <1>0, <1>1, <2>1 DEF Runs
  <2>2. CASE ~own
    BY <1>0, <1>1, <2>2 DEF Runs
  <2> QED BY <2>1, <2>2
<1>4. Proper(r)
  BY <1>2 DEF Proper
<1>5. /\ req' \in [Req -> Requests] /\ others' \in 0 .. MaxOther /\ CallOK' /\ ShapeInv' /\ ScriptInv'
      /\ \A p \in Req : req'[p] = IF p = q THEN r ELSE req[p]
  <2>1. Begin(q, own, "inference", r) /\ UNCHANGED alive
    BY <1>1 DEF script
  <2>2. own => r.kind = IF "inference" = "prices" THEN "history" ELSE "inference"
    BY <1>2
  <2> QED BY <1>0, <1>2, <1>3, <1>4, <2>1, <2>2, BeginKeeps
<1>6. TypeOK'
  BY <1>0, <1>1, <1>3, <1>5 DEF TypeOK, CallOK, market, prices, script, follower, Date
<1>7. MarketInv'
  BY <1>0, <1>1, <1>2, <1>5, MarketFrame DEF prices
<1>8. ViewInv'
  BY <1>0, <1>1, ViewFrame
<1>9. CleanInv'
  <2> SUFFICES ASSUME batch'.clean, Ticker # {} PROVE CleanInv'
    BY DEF CleanInv
  <2>1. /\ batch.clean /\ own /\ ~open /\ batch.step = "inference" /\ batch.call = None
        /\ \A t \in Ticker : price[t][day] = "final"
    BY <1>0, <1>1, <1>3 DEF CleanInv, Begin
  <2>2. d = day
    <3> DEFINE D == {e \in 1 .. MaxDate : \E s \in Symbol : price[s][e] # "none"}
    <3>1. \A e \in D : e \in Nat /\ e <= day
      BY <1>0, <2>1, PipelineNumbers DEF MarketInv, Date
    <3>2. day \in D /\ day \in Nat
      BY <1>0, <2>1, PipelineNumbers DEF Date, Symbol
    <3>3. LastRow = CHOOSE e \in D : \A f \in D : f <= e
      BY <3>2 DEF LastRow
    <3> HIDE DEF D
    <3>4. LastRow \in D /\ \A f \in D : f <= LastRow
      BY <3>1, <3>2, <3>3
    <3> QED BY <1>1, <2>1, <3>1, <3>2, <3>4
  <2>3. ASSUME NEW p \in Req PROVE Harmless(p)'
    <3>1. CASE p = q
      BY <1>1, <1>2, <1>3, <1>5, <2>1, <2>2, <3>1 DEF Harmless, market
    <3>2. CASE p # q
      <4>1. Harmless(p) /\ req'[p] = req[p] /\ batch'.call # p /\ batch.call # p
        BY <1>0, <1>3, <1>5, <2>1, <3>2, PipelineNone DEF CleanInv
      <4> QED BY <1>1, <4>1 DEF Harmless, market
    <3> QED BY <3>1, <3>2
  <2> QED BY <1>0, <1>1, <1>3, <2>1, <2>3 DEF CleanInv, market, prices
<1>10. DueInv'
  <2>1. batch.due => ~own
    BY <1>0, <1>1 DEF DueInv, Begin
  <2>2. batch.due /\ batch.call # None => batch.call \in Req /\ batch.call # q
    BY <1>0, <1>1 DEF TypeOK, Begin, Runs
  <2> QED BY <1>0, <1>1, <1>3, <1>5, <2>1, <2>2 DEF DueInv, follower
<1> QED BY <1>5, <1>6, <1>7, <1>8, <1>9, <1>10 DEF PipelineInv

\* A green run reads a panel of all tickers, with final prices.
LEMMA ReadPanelStep ==
  ASSUME PipelineInv, NEW q \in Req, ReadPanel(q)
  PROVE  PipelineInv'
<1> DEFINE f == {t \in long : price[t][req[q].base] = "final"}
           r == [req[q] EXCEPT !.at = "panel", !.got = long, !.final = f]
<1>0. /\ TypeOK /\ ShapeInv /\ ScriptInv /\ MarketInv /\ CleanInv /\ ViewInv /\ DueInv
      /\ req \in [Req -> Requests] /\ long \subseteq Ticker
  BY DEF PipelineInv, TypeOK
<1>1. /\ req[q].at = "dated" /\ req[q].base # 0
      /\ req' = [req EXCEPT ![q] = r]
      /\ UNCHANGED <<market, prices, pred, script, others, batch, follower>>
  BY <1>0 DEF ReadPanel, FinalOn
<1>2. req[q].kind = "inference"
  BY <1>0, <1>1 DEF ShapeInv
<1>3. /\ r \in Requests /\ r.kind = "inference" /\ r.at = "panel" /\ r.got = long /\ r.final = f
      /\ r.base = req[q].base /\ r.mark = req[q].mark
  <2>1. f \subseteq Ticker /\ long \subseteq Symbol
    BY <1>0 DEF Symbol
  <2> QED BY <1>0, <1>2, <2>1 DEF Requests
<1> HIDE DEF r
<1>4. Proper(r)
  BY <1>0, <1>1, <1>3 DEF Proper
<1>5. /\ req' \in [Req -> Requests] /\ CallOK' /\ ShapeInv' /\ ScriptInv'
      /\ \A p \in Req : req'[p] = IF p = q THEN r ELSE req[p]
  BY <1>0, <1>1, <1>2, <1>3, <1>4, AdvanceKeeps DEF script
<1>6. TypeOK'
  BY <1>0, <1>1, <1>5 DEF TypeOK, CallOK, market, prices, script, follower, Date
<1>7. MarketInv'
  BY <1>0, <1>1, <1>3, <1>5, MarketFrame DEF prices
<1>8. ViewInv'
  BY <1>0, <1>1, ViewFrame
<1>9. CleanInv'
  <2> SUFFICES ASSUME batch.clean, Ticker # {} PROVE CleanInv'
    BY <1>1 DEF CleanInv
  <2>1. /\ batch.call = q /\ batch.step = "inference" /\ req[q].base = day
    BY <1>0, <1>2 DEF CleanInv, Harmless
  <2>2. long = Ticker /\ f = Ticker
    BY <1>0, <2>1 DEF CleanInv
  <2>3. ASSUME NEW p \in Req PROVE Harmless(p)'
    <3>1. CASE p = q
      BY <1>1, <1>3, <1>5, <2>1, <2>2, <3>1 DEF Harmless, market
    <3>2. CASE p # q
      BY <1>0, <1>1, <1>5, <3>2 DEF CleanInv, Harmless, market
    <3> QED BY <3>1, <3>2
  <2> QED BY <1>0, <1>1, <2>3 DEF CleanInv, market, prices
<1>10. DueInv'
  <2>1. batch.step = "trigger" /\ batch.call # None => batch.call \in Req /\ batch.call # q
    BY <1>0, <1>2 DEF TypeOK, Runs
  <2> QED BY <1>0, <1>1, <1>5, <2>1 DEF DueInv, follower
<1> QED BY <1>5, <1>6, <1>7, <1>8, <1>9, <1>10 DEF PipelineInv
------------------------------------------------------------------------------
(* The trigger *)

LEMMA StartTriggerStep ==
  ASSUME PipelineInv, NEW q \in Req, NEW own \in BOOLEAN, StartTrigger(q, own)
  PROVE  PipelineInv'
<1> DEFINE r == [NoReq EXCEPT !.kind = "trigger", !.at = "looking", !.got = Ticker]
<1>0. /\ TypeOK /\ ShapeInv /\ ScriptInv /\ MarketInv /\ CleanInv /\ ViewInv /\ DueInv
      /\ batch \in Runs
  BY DEF PipelineInv, TypeOK
<1>1. /\ Begin(q, own, "trigger", r)
      /\ UNCHANGED <<market, prices, pred, script, follower>>
      /\ batch' = IF own THEN [batch EXCEPT !.call = q] ELSE batch
  BY DEF StartTrigger
<1>2. /\ r \in Requests /\ r.kind = "trigger" /\ r.at = "looking" /\ r.got = Ticker /\ r.mark = "none"
  <2>1. Ticker \subseteq Symbol /\ NoReq \in Requests
    BY NoReqFacts DEF Symbol
  <2> QED BY <2>1 DEF Requests, NoReq
<1> HIDE DEF r
<1>3. /\ batch' \in Runs /\ batch'.step = batch.step
      /\ batch'.call = (IF own THEN q ELSE batch.call)
      /\ batch'.due = batch.due /\ batch'.clean = batch.clean
  <2>1. CASE own
    BY <1>0, <1>1, <2>1 DEF Runs
  <2>2. CASE ~own
    BY <1>0, <1>1, <2>2 DEF Runs
  <2> QED BY <2>1, <2>2
<1>4. Proper(r)
  BY <1>2 DEF Proper
<1>5. /\ req' \in [Req -> Requests] /\ others' \in 0 .. MaxOther /\ CallOK' /\ ShapeInv' /\ ScriptInv'
      /\ \A p \in Req : req'[p] = IF p = q THEN r ELSE req[p]
  BY <1>0, <1>1, <1>2, <1>3, <1>4, BeginKeeps DEF script
<1>6. TypeOK'
  BY <1>0, <1>1, <1>3, <1>5 DEF TypeOK, CallOK, market, prices, script, follower, Date
<1>7. MarketInv'
  BY <1>0, <1>1, <1>2, <1>5, MarketFrame DEF prices
<1>8. ViewInv'
  BY <1>0, <1>1, ViewFrame
<1>9. CleanInv'
  <2> SUFFICES ASSUME batch.clean, Ticker # {} PROVE CleanInv'
    BY <1>3 DEF CleanInv
  <2>1. own => batch.call = None
    BY <1>1 DEF Begin
  <2>2. ASSUME NEW p \in Req PROVE Harmless(p)'
    <3>1. CASE p = q
      BY <1>2, <1>5, <3>1 DEF Harmless
    <3>2. CASE p # q
      <4>1. Harmless(p) /\ req'[p] = req[p] /\ (batch'.call = p => batch.call = p)
        BY <1>0, <1>3, <1>5, <3>2 DEF CleanInv
      <4>2. req[p].kind = "inference" => ~own
        BY <2>1, <4>1, PipelineNone DEF Harmless
      <4> QED BY <1>1, <1>3, <4>1, <4>2 DEF Harmless, market
    <3> QED BY <3>1, <3>2
  <2> QED BY <1>0, <1>1, <1>3, <2>2 DEF CleanInv, market, prices
<1>10. DueInv'
  <2>1. batch.due /\ batch.call # None => batch.call \in Req /\ batch.call # q
    BY <1>0, <1>1 DEF TypeOK, Begin, Runs
  <2>2. own => Ticker \ req'[q].got \subseteq caught'
    BY <1>2, <1>5
  <2>3. own => batch.step = "trigger"
    BY <1>1 DEF Begin
  <2> QED BY <1>0, <1>1, <1>3, <1>5, <2>1, <2>2, <2>3 DEF DueInv, follower
<1> QED BY <1>5, <1>6, <1>7, <1>8, <1>9, <1>10 DEF PipelineInv

\* The trigger looks at a ticker: the follower knows its newest grade unless it is odd.
LEMMA LookStep ==
  ASSUME PipelineInv, NEW q \in Req, NEW t \in req[q].got, req[q].at = "looking",
         req' = [req EXCEPT ![q].got = @ \ {t}],
         view' = [view EXCEPT ![t] = Told(t)],
         caught' = caught \cup {t},
         odd' = IF Stored(t) # {} /\ Told(t) # pred[t][Newest(t)].grade THEN odd ELSE odd \ {t},
         UNCHANGED <<market, prices, pred, script, others, batch>>
  PROVE  PipelineInv'
<1> DEFINE r == [req[q] EXCEPT !.got = @ \ {t}]
<1>0. /\ TypeOK /\ ShapeInv /\ ScriptInv /\ MarketInv /\ CleanInv /\ ViewInv /\ DueInv
      /\ req \in [Req -> Requests]
      /\ view \in [Ticker -> Grade \cup {None}] /\ caught \subseteq Ticker /\ odd \subseteq Ticker
  BY DEF PipelineInv, TypeOK
<1>1. t \in Ticker /\ req[q].kind = "trigger" /\ req' = [req EXCEPT ![q] = r]
  BY <1>0 DEF ShapeInv
<1>2. /\ r \in Requests /\ r.kind = "trigger" /\ r.at = "looking" /\ r.got = req[q].got \ {t}
      /\ r.mark = req[q].mark /\ r.base = req[q].base
  BY <1>0, <1>1 DEF Requests
<1> HIDE DEF r
<1>3. Proper(r)
  BY <1>0, <1>2 DEF Proper, ShapeInv
<1>4. /\ req' \in [Req -> Requests] /\ CallOK' /\ ShapeInv' /\ ScriptInv'
      /\ \A p \in Req : req'[p] = IF p = q THEN r ELSE req[p]
  BY <1>0, <1>1, <1>2, <1>3, AdvanceKeeps DEF script
<1>5. Told(t) \in Grade \cup {None}
  <2>1. CASE Cardinality(Stored(t)) > 1
    <3>1. Stored(t) # {}
      BY <2>1, FS_EmptySet
    <3>2. Newest(t) \in Stored(t)
      BY <1>1, <3>1, NewestFacts
    <3> QED BY <1>0, <1>1, <3>2 DEF Told, TypeOK, Stored
  <2>2. CASE ~(Cardinality(Stored(t)) > 1)
    BY <1>0, <1>1, <2>2 DEF Told
  <2> QED BY <2>1, <2>2
<1>6. TypeOK'
  BY <1>0, <1>1, <1>4, <1>5 DEF TypeOK, CallOK, market, prices, script, Date
<1>7. MarketInv'
  BY <1>0, <1>2, <1>4, MarketFrame DEF prices
<1>8. ViewInv'
  <2>1. ASSUME NEW u \in Ticker
        PROVE  Stored(u)' = Stored(u) /\ Newest(u)' = Newest(u) /\ Previous(u)' = Previous(u)
    BY DEF Newest, Previous, Stored, Date
  <2>2. ASSUME NEW u \in Ticker, u # t PROVE Known(u)'
    <3>1. view'[u] = view[u]
      BY <1>0, <2>2
    <3>2. Told(u)' = Told(u)
      BY <2>1, <3>1 DEF Told
    <3>3. (u \in odd' => u \in odd) /\ (u \in odd => u \in odd') /\ (u \in caught' => u \in caught)
      BY <2>2
    <3> QED BY <1>0, <2>1, <3>1, <3>2, <3>3 DEF ViewInv, Known
  <2>3. Known(t)'
    <3>1. view'[t] = Told(t)
      BY <1>0, <1>1
    <3>2. Told(t)' = Told(t)
      BY <1>1, <2>1, <3>1 DEF Told
    <3>3. Stored(t) # {} /\ t \notin odd' => Told(t) = pred[t][Newest(t)].grade
      BY <1>0, <1>1 DEF ViewInv, Known
    <3> QED BY <1>1, <2>1, <3>1, <3>2, <3>3 DEF Known
  <2> QED BY <2>2, <2>3 DEF ViewInv
<1>9. CleanInv'
  <2> SUFFICES ASSUME batch.clean, Ticker # {} PROVE CleanInv'
    BY DEF CleanInv
  <2>1. \A p \in Req : Harmless(p)'
    BY <1>0, <1>1, <1>2, <1>4 DEF CleanInv, Harmless, market
  <2> QED BY <1>0, <2>1 DEF CleanInv, market, prices
<1>10. DueInv'
  BY <1>0, <1>1, <1>2, <1>4 DEF DueInv, TypeOK, Runs
<1> QED BY <1>4, <1>6, <1>7, <1>8, <1>9, <1>10 DEF PipelineInv
------------------------------------------------------------------------------
(* Loads *)

\* What a load makes of a ticker: of one loaded in turn the trigger tells the new grade.
LEMMA LoadedView ==
  ASSUME TypeOK, ViewInv, NEW d \in Date, NEW S \in SUBSET Ticker, NEW g \in [S -> Grade],
         NEW final \in SUBSET Ticker,
         pred' = [t \in Ticker |->
           IF t \in S THEN [pred[t] EXCEPT ![d] = [grade |-> g[t], final |-> t \in final]] ELSE pred[t]],
         view' = [t \in Ticker |-> IF t \in S /\ Stored(t) = {} THEN g[t] ELSE view[t]],
         odd' = odd \cup {t \in S : ~InTurn(t, d, g[t])},
         caught' = {t \in caught : t \in S => Stored(t) = {}}
  PROVE  ViewInv'
<1> SUFFICES ASSUME NEW t \in Ticker PROVE Known(t)'
  BY DEF ViewInv
<1>0. /\ pred \in [Ticker -> [Date -> [grade : Grade, final : BOOLEAN] \cup {None}]]
      /\ view \in [Ticker -> Grade \cup {None}]
  BY DEF TypeOK
<1>1. CASE t \notin S
  <2>1. pred'[t] = pred[t] /\ view'[t] = view[t]
    BY <1>0, <1>1
  <2>2. Stored(t)' = Stored(t) /\ Newest(t)' = Newest(t) /\ Previous(t)' = Previous(t)
    BY <2>1 DEF Newest, Previous, Stored, Date
  <2>3. Told(t)' = Told(t)
    BY <2>1, <2>2 DEF Told
  <2>4. (t \notin odd' => t \notin odd) /\ (t \in caught' => t \in caught)
    BY <1>1
  <2> QED BY <2>1, <2>2, <2>3, <2>4 DEF ViewInv, Known
<1>2. CASE t \in S
  <2> SUFFICES ASSUME t \notin odd'
               PROVE  /\ Told(t)' = pred'[t][Newest(t)'].grade
                      /\ t \in caught' => view'[t] = pred'[t][Newest(t)'].grade
    BY DEF Known
  <2>1. t \notin odd /\ InTurn(t, d, g[t])
    BY <1>2
  <2>2. /\ pred'[t] \in [Date -> [grade : Grade, final : BOOLEAN] \cup {None}]
        /\ pred'[t][d] # None /\ pred'[t][d].grade = g[t]
        /\ \A e \in Date : e # d => pred'[t][e] = pred[t][e]
    <3>1. pred'[t] = [pred[t] EXCEPT ![d] = [grade |-> g[t], final |-> t \in final]]
      BY <1>2
    <3>2. [grade |-> g[t], final |-> t \in final] \in [grade : Grade, final : BOOLEAN]
      BY <1>2
    <3>3. None \notin [grade : Grade, final : BOOLEAN]
      BY PipelineNone
    <3> QED BY <1>0, <1>2, <3>1, <3>2, <3>3
  <2>3. Stored(t)' = Stored(t) \cup {d}
    BY <2>2 DEF Stored, Date
  <2>4. CASE Stored(t) = {}
    <3>1. Stored(t)' = {d} /\ Cardinality(Stored(t)') = 1
      BY <2>3, <2>4, FS_Singleton
    <3>2. Newest(t)' = d
      BY <3>1 DEF Newest
    <3>3. view'[t] = g[t]
      BY <1>2, <2>4
    <3>4. Told(t)' = view'[t]
      BY <3>1 DEF Told
    <3> QED BY <2>2, <3>2, <3>3, <3>4
  <2>5. ASSUME Stored(t) # {}, d > Newest(t), t \in caught
        PROVE  Told(t)' = pred'[t][Newest(t)'].grade /\ t \notin caught'
    <3>1. /\ Newest(t) \in Stored(t) /\ Newest(t) \in Date /\ Stored(t) \subseteq Date
          /\ \A e \in Stored(t) : e <= Newest(t)
      BY <2>5, NewestFacts DEF Stored
    <3>2. \A e \in Stored(t) : e \in Nat /\ e < d
      BY <2>5, <3>1, PipelineNumbers DEF Date
    <3>3. \A e \in Stored(t)' : e <= d
      BY <2>3, <3>2 DEF Date
    <3>4. Newest(t)' = d
      <4>1. \A x \in Stored(t)' : (\A e \in Stored(t)' : e <= x) => x = d
        BY <2>3, <3>2, <3>3 DEF Date
      <4>2. d \in Stored(t)'
        BY <2>3
      <4> QED BY <3>3, <4>1, <4>2 DEF Newest
    <3>5. Stored(t)' \ {Newest(t)'} = Stored(t)
      BY <2>3, <3>2, <3>4 DEF Date
    <3>6. Previous(t)' = Newest(t)
      BY <3>5 DEF Previous, Newest
    <3>7. view[t] = pred[t][Newest(t)].grade
      BY <2>1, <2>5 DEF ViewInv, Known
    <3>8. pred'[t][Newest(t)] = pred[t][Newest(t)] /\ view'[t] = view[t]
      BY <1>0, <2>2, <2>5, <3>1, <3>2
    <3>9. t \notin caught'
      BY <1>2, <2>5
    <3>10. Cardinality(Stored(t)') > 1
      <4>1. IsFiniteSet(Stored(t)')
        <5>1. IsFiniteSet(1 .. MaxDate)
          BY PipelineNumbers, FS_Interval
        <5>2. Stored(t)' \subseteq 1 .. MaxDate
          BY <2>3, <3>1 DEF Date
        <5> QED BY <5>1, <5>2, FS_Subset
      <4>2. {d, Newest(t)} \subseteq Stored(t)'
        BY <2>3, <3>1
      <4>3. Cardinality({d, Newest(t)}) = 2
        <5>1. d # Newest(t)
          BY <3>1, <3>2
        <5>2. ASSUME NEW m, d # m PROVE Cardinality({d, m}) = 2
          <6>1. IsFiniteSet({d}) /\ Cardinality({d}) = 1 /\ m \notin {d}
            BY <5>2, FS_Singleton
          <6>2. Cardinality({d} \cup {m}) = Cardinality({d}) + 1
            BY <6>1, FS_AddElement
          <6>3. {d} \cup {m} = {d, m}
            OBVIOUS
          <6>4. Cardinality({d, m}) = Cardinality({d}) + 1
            BY <6>2, <6>3
          <6> QED BY <6>1, <6>4
        <5> QED BY <5>1, <5>2
      <4>4. Cardinality({d, Newest(t)}) <= Cardinality(Stored(t)') /\ Cardinality(Stored(t)') \in Nat
        BY <4>1, <4>2, FS_Subset, FS_CardinalityType
      <4> QED BY <4>3, <4>4
    <3>11. Told(t)' = IF g[t] # pred[t][Newest(t)].grade THEN g[t] ELSE view'[t]
      BY <2>2, <3>4, <3>6, <3>8, <3>10 DEF Told
    <3> QED BY <2>2, <3>4, <3>7, <3>8, <3>9, <3>11
  <2>6. ASSUME d \in Stored(t), pred[t][d].grade = g[t]
        PROVE  Told(t)' = pred'[t][Newest(t)'].grade /\ t \notin caught'
    <3>1. Stored(t)' = Stored(t) /\ Stored(t) # {}
      BY <2>3, <2>6
    <3>2. Newest(t)' = Newest(t) /\ Previous(t)' = Previous(t)
      BY <3>1 DEF Newest, Previous
    <3>3. \A e \in Date : pred'[t][e].grade = pred[t][e].grade
      BY <2>2, <2>6
    <3>4. Newest(t) \in Date
      BY <3>1, NewestFacts DEF Stored
    <3>5. Cardinality(Stored(t)) > 1 => Previous(t) \in Date
      <4> SUFFICES ASSUME Cardinality(Stored(t)) > 1 PROVE Previous(t) \in Date
        OBVIOUS
      <4>1. Stored(t) \ {Newest(t)} # {}
        <5>1. Cardinality({Newest(t)}) = 1
          BY FS_Singleton
        <5>2. Stored(t) # {Newest(t)}
          <6> SUFFICES ASSUME Stored(t) = {Newest(t)} PROVE FALSE
            OBVIOUS
          <6>1. Cardinality(Stored(t)) = 1
            BY <5>1
          <6> QED BY <6>1
        <5> QED BY <3>1, <5>2
      <4>2. Stored(t) \ {Newest(t)} \in SUBSET Date
        BY DEF Stored
      <4>3. \E m \in Stored(t) \ {Newest(t)} : \A x \in Stored(t) \ {Newest(t)} : x <= m
        BY <4>1, <4>2, LastDay
      <4> QED BY <4>2, <4>3 DEF Previous
    <3>6. view'[t] = view[t] /\ t \notin caught'
      BY <1>2, <3>1
    <3>7. Told(t)' = Told(t)
      BY <3>1, <3>2, <3>3, <3>4, <3>5, <3>6 DEF Told
    <3> QED BY <2>1, <3>1, <3>2, <3>3, <3>4, <3>6, <3>7 DEF ViewInv, Known
  <2> QED BY <2>1, <2>4, <2>5, <2>6 DEF InTurn
<1> QED BY <1>1, <1>2

\* A load ends its request; that of a green run is of all tickers, from final prices.
LEMMA LoadStep ==
  ASSUME PipelineInv, NEW q \in Req, NEW d \in Date, NEW S \in SUBSET Ticker, NEW g \in [S -> Grade],
         NEW final \in SUBSET Ticker,
         req[q].kind \in {"inference", "script"}, req[q].at # "running",
         req[q].kind = "inference" /\ batch.clean /\ Ticker # {} =>
           d = day /\ S = Ticker /\ final = Ticker,
         Load(q, d, g, final), UNCHANGED <<market, prices, script, others>>
  PROVE  PipelineInv'
<1>0. /\ TypeOK /\ ShapeInv /\ ScriptInv /\ MarketInv /\ CleanInv /\ ViewInv /\ DueInv
      /\ batch \in Runs /\ DOMAIN g = S
  BY DEF PipelineInv, TypeOK
<1>1. /\ pred' = [t \in Ticker |->
           IF t \in S THEN [pred[t] EXCEPT ![d] = [grade |-> g[t], final |-> t \in final]] ELSE pred[t]]
      /\ view' = [t \in Ticker |-> IF t \in S /\ Stored(t) = {} THEN g[t] ELSE view[t]]
      /\ odd' = odd \cup {t \in S : ~InTurn(t, d, g[t])}
      /\ caught' = {t \in caught : t \in S => Stored(t) = {}}
      /\ req' = [req EXCEPT ![q] = NoReq]
      /\ batch' = IF batch.call = q THEN StepEnds(TRUE) ELSE [batch EXCEPT !.due = FALSE]
  BY <1>0 DEF Load
<1>2. /\ req' \in [Req -> Requests] /\ batch' \in Runs /\ CallOK' /\ ShapeInv' /\ ScriptInv'
      /\ \A p \in Req : req'[p] = IF p = q THEN NoReq ELSE req[p]
      /\ batch.call = q =>
           /\ batch'.step = After(batch.step, TRUE) /\ batch'.call = None
           /\ batch'.clean = (batch.clean /\ TRUE)
      /\ batch.call # q =>
           /\ batch'.step = batch.step /\ batch'.call = batch.call
           /\ batch'.clean = batch.clean /\ batch'.due = FALSE
  BY <1>0, <1>1, EndKeeps DEF script
<1>3. batch.call = q => batch.step = "inference" /\ batch'.step = "llm"
  <2>1. batch.call = q => batch.step = "inference"
    BY <1>0, PipelineNone DEF TypeOK
  <2> QED BY <1>2, <2>1 DEF After, Following
<1>4. TypeOK'
  <2>1. pred' \in [Ticker -> [Date -> [grade : Grade, final : BOOLEAN] \cup {None}]]
    <3>1. ASSUME NEW t \in S
          PROVE  [pred[t] EXCEPT ![d] = [grade |-> g[t], final |-> t \in final]]
                   \in [Date -> [grade : Grade, final : BOOLEAN] \cup {None}]
      <4>1. [grade |-> g[t], final |-> t \in final] \in [grade : Grade, final : BOOLEAN]
        OBVIOUS
      <4>2. pred[t] \in [Date -> [grade : Grade, final : BOOLEAN] \cup {None}]
        BY <1>0 DEF TypeOK
      <4> QED BY <4>1, <4>2
    <3> QED BY <1>0, <1>1, <3>1 DEF TypeOK
  <2>2. view' \in [Ticker -> Grade \cup {None}] /\ caught' \subseteq Ticker /\ odd' \subseteq Ticker
    BY <1>0, <1>1 DEF TypeOK
  <2> QED BY <1>0, <1>2, <2>1, <2>2 DEF TypeOK, CallOK, market, prices, script, Date
<1>5. MarketInv'
  BY <1>0, <1>2, NoReqFacts, MarketFrame DEF prices
<1>6. ViewInv'
  BY <1>0, <1>1, LoadedView
<1>7. CleanInv'
  <2> SUFFICES ASSUME batch'.clean, Ticker # {} PROVE CleanInv'
    BY DEF CleanInv
  <2>1. batch.clean /\ Harmless(q)
    BY <1>0, <1>2 DEF CleanInv
  <2>2. batch.call = q /\ req[q].kind = "inference"
    BY <2>1 DEF Harmless
  <2>3. \A p \in Req : Harmless(p)'
    BY <1>0, <1>2, <2>1, HarmlessEnd DEF market
  <2>4. \A t \in Ticker : pred'[t][day] # None /\ pred'[t][day].final
    <3>1. d = day /\ S = Ticker /\ final = Ticker
      BY <2>1, <2>2
    <3>2. ASSUME NEW t \in Ticker PROVE pred'[t][d] = [grade |-> g[t], final |-> t \in final]
      <4>1. pred[t] \in [Date -> [grade : Grade, final : BOOLEAN] \cup {None}]
        BY <1>0 DEF TypeOK
      <4> QED BY <1>1, <3>1, <4>1
    <3>3. ASSUME NEW t \in Ticker PROVE pred'[t][d] # None /\ pred'[t][d].final
      <4>1. (t \in final) = TRUE
        BY <3>1
      <4>2. pred'[t][d] = [grade |-> g[t], final |-> TRUE]
        BY <3>2, <4>1, Zenon
      <4>3. g[t] \in Grade
        BY <3>1
      <4>4. [grade |-> g[t], final |-> TRUE] \in [grade : Grade, final : BOOLEAN]
        BY <4>3
      <4>5. pred'[t][d].final
        BY <4>2
      <4> QED BY <4>2, <4>4, <4>5, PipelineNone
    <3> QED BY <3>1, <3>3
  <2> QED BY <1>0, <1>3, <2>1, <2>2, <2>3, <2>4 DEF CleanInv, market, prices
<1>8. DueInv'
  BY <1>2, <1>3 DEF DueInv
<1> QED BY <1>2, <1>4, <1>5, <1>6, <1>7, <1>8 DEF PipelineInv

LEMMA InferStep ==
  ASSUME PipelineInv, NEW q \in Req, Infer(q)
  PROVE  PipelineInv'
<1>0. /\ TypeOK /\ ShapeInv /\ CleanInv /\ req[q] \in Requests
      /\ req[q].at = "panel" /\ UNCHANGED <<market, prices, script, others>>
  BY DEF PipelineInv, TypeOK, Infer
<1>1. /\ req[q].kind = "inference" /\ req[q].got \in SUBSET Ticker /\ req[q].final \in SUBSET Ticker
      /\ req[q].base \in Date
  BY <1>0, PipelineNumbers DEF ShapeInv, Requests, Date
<1>2. PICK g \in [req[q].got -> Grade] : Load(q, req[q].base, g, req[q].final)
  BY DEF Infer, Forecasts
<1>3. batch.clean /\ Ticker # {} =>
        req[q].base = day /\ req[q].got = Ticker /\ req[q].final = Ticker
  BY <1>0, <1>1 DEF CleanInv, Harmless
<1> QED BY <1>0, <1>1, <1>2, <1>3, LoadStep

LEMMA LoadFileStep ==
  ASSUME PipelineInv, NEW q \in Req, LoadFile(q)
  PROVE  PipelineInv'
<1>0. ShapeInv /\ req[q].at = "exited" /\ UNCHANGED <<market, prices, script, others>>
  BY DEF PipelineInv, LoadFile
<1>1. req[q].kind = "script"
  BY <1>0 DEF ShapeInv
<1>2. PICK d \in Date, S \in (SUBSET Ticker) \ {{}} : \E g \in [S -> Grade] : Load(q, d, g, {})
  BY DEF LoadFile
<1>3. PICK g \in [S -> Grade] : Load(q, d, g, {})
  BY <1>2
<1>4. S \in SUBSET Ticker /\ {} \in SUBSET Ticker
  OBVIOUS
<1> QED BY <1>0, <1>1, <1>3, <1>4, LoadStep
------------------------------------------------------------------------------
(* The script *)

\* What a script does leaves everything but its requests and its file alone, and a
\* run that is green has none.
LEMMA ScriptRest ==
  ASSUME PipelineInv, UNCHANGED <<market, prices, pred, follower>>,
         req' \in [Req -> Requests], others' \in 0 .. MaxOther, file' \in BOOLEAN, alive' \subseteq Req,
         ShapeInv', ScriptInv',
         \A p \in Req : req'[p].at = "fetched" \/ req[p].kind \notin {"none", "script"} => req'[p] = req[p],
         \/ batch' = [batch EXCEPT !.clean = FALSE]
         \/ batch' = batch /\ \A p \in Req : req[p].kind # "script" => req'[p] = req[p]
  PROVE  PipelineInv'
<1>0. /\ TypeOK /\ ShapeInv /\ MarketInv /\ CleanInv /\ ViewInv /\ DueInv /\ batch \in Runs
  BY DEF PipelineInv, TypeOK
<1>1. /\ batch' \in Runs /\ batch'.step = batch.step /\ batch'.call = batch.call
      /\ batch'.due = batch.due /\ (batch'.clean => batch' = batch)
  BY <1>0 DEF Runs
<1>2. batch.call # None => batch.call \in Req /\ req'[batch.call] = req[batch.call]
  <2>1. batch.call # None => batch.call \in Req /\ req[batch.call].kind \notin {"none", "script"}
    BY <1>0 DEF TypeOK, Runs
  <2> QED BY <2>1
<1>3. TypeOK'
  BY <1>0, <1>1, <1>2 DEF TypeOK, market, prices, follower, Date
<1>4. MarketInv'
  BY <1>0, MarketFrame DEF prices
<1>5. ViewInv'
  BY <1>0, ViewFrame
<1>6. CleanInv'
  <2> SUFFICES ASSUME batch'.clean, Ticker # {} PROVE CleanInv'
    BY DEF CleanInv
  <2>1. batch' = batch /\ batch.clean
    BY <1>1
  <2>2. \A p \in Req : Harmless(p)
    BY <1>0, <2>1 DEF CleanInv
  <2>3. \A p \in Req : req'[p] = req[p]
    <3>1. ~(batch' = [batch EXCEPT !.clean = FALSE])
      BY <1>0, <2>1 DEF Runs
    <3> QED BY <2>2, <3>1 DEF Harmless
  <2> QED BY <1>0, <2>1, <2>2, <2>3 DEF CleanInv, Harmless, market, prices
<1>7. DueInv'
  BY <1>0, <1>1, <1>2 DEF DueInv, follower
<1> QED BY <1>3, <1>4, <1>5, <1>6, <1>7 DEF PipelineInv

LEMMA StartScriptStep ==
  ASSUME PipelineInv, NEW q \in Req, StartScript(q)
  PROVE  PipelineInv'
<1> DEFINE r == [NoReq EXCEPT !.kind = "script", !.at = "running",
                              !.mark = IF Scripts = {} THEN "alone" ELSE "shared"]
<1>0. /\ ShapeInv /\ ScriptInv /\ req \in [Req -> Requests] /\ others \in 0 .. MaxOther /\ file \in BOOLEAN
      /\ batch \in Runs
  BY DEF PipelineInv, TypeOK
<1>1. /\ req[q].kind = "none" /\ others < MaxOther /\ others' = others + 1
      /\ req' = [p \in Req |->
           IF p = q THEN r
           ELSE IF p \in Scripts THEN [req[p] EXCEPT !.mark = "shared"] ELSE req[p]]
      /\ alive' = alive \cup {q}
      /\ batch' = [batch EXCEPT !.clean = FALSE]
      /\ UNCHANGED <<market, prices, pred, file, follower>>
  BY DEF StartScript
<1>2. /\ r \in Requests /\ r.kind = "script" /\ r.at = "running"
      /\ r.mark = IF Scripts = {} THEN "alone" ELSE "shared"
  BY NoReqFacts, PipelineNumbers DEF Requests, NoReq, Symbol
<1> HIDE DEF r
<1>3. \A p \in Req : req'[p] = IF p = q THEN r
                              ELSE IF p \in Scripts THEN [req[p] EXCEPT !.mark = "shared"] ELSE req[p]
  BY <1>1
<1>4. ASSUME NEW p \in Req, p # q
      PROVE  /\ req'[p] \in Requests /\ req'[p].kind = req[p].kind /\ req'[p].at = req[p].at
             /\ req'[p].got = req[p].got /\ req'[p].base = req[p].base
             /\ req'[p].mark = IF req[p].kind = "script" THEN "shared" ELSE req[p].mark
             /\ req[p].kind # "script" => req'[p] = req[p]
  BY <1>0, <1>3, <1>4 DEF Scripts, Requests
<1>5. req' \in [Req -> Requests]
  <2>1. \A p \in Req : req'[p] \in Requests
    BY <1>2, <1>3, <1>4
  <2> QED BY <1>1, <2>1
<1>6. others' \in 0 .. MaxOther
  BY <1>0, <1>1, PipelineNumbers
<1>7. ShapeInv'
  <2>1. ASSUME NEW p \in Req
        PROVE  /\ <<req'[p].kind, req'[p].at>> \in
                    {<<"none", "idle">>, <<"history", "fetched">>, <<"live", "fetched">>,
                     <<"inference", "dated">>, <<"inference", "panel">>,
                     <<"script", "running">>, <<"script", "exited">>, <<"trigger", "looking">>}
               /\ req'[p].at \in {"panel", "looking"} => req'[p].got \subseteq Ticker
               /\ req'[p].at = "panel" => req'[p].base # 0
    <3>1. CASE p = q
      BY <1>2, <1>3, <3>1
    <3>2. CASE p # q
      BY <1>0, <1>4, <3>2 DEF ShapeInv
    <3> QED BY <3>1, <3>2
  <2> QED BY <2>1 DEF ShapeInv
<1>8. ScriptInv'
  <2>1. alive' = {p \in Req : req'[p].at = "running"}
    BY <1>0, <1>1, <1>2, <1>3, <1>4 DEF ScriptInv
  <2>2. ASSUME NEW p \in Req
        PROVE  /\ req'[p].mark # "lost"
               /\ req'[p].mark \in {"alone", "own"} => \A x \in Req : req'[x].kind = "script" <=> x = p
    <3>1. CASE p = q
      <4>1. req'[p] = r
        BY <1>3, <3>1
      <4>2. Scripts = {} => \A x \in Req : req'[x].kind = "script" <=> x = p
        BY <1>2, <1>3, <1>4, <3>1 DEF Scripts
      <4> QED BY <1>2, <4>1, <4>2
    <3>2. CASE p # q
      <4>1. req'[p].mark # "lost"
        BY <1>0, <1>4, <3>2 DEF ScriptInv
      <4>2. req'[p].mark \notin {"alone", "own"}
        BY <1>0, <1>4, <3>2 DEF ScriptInv
      <4> QED BY <4>1, <4>2
    <3> QED BY <3>1, <3>2
  <2> QED BY <2>1, <2>2 DEF ScriptInv
<1>9. \A p \in Req : req'[p].at = "fetched" \/ req[p].kind \notin {"none", "script"} => req'[p] = req[p]
  <2>1. ASSUME NEW p \in Req, req'[p].at = "fetched" \/ req[p].kind \notin {"none", "script"}
        PROVE  req'[p] = req[p]
    <3>1. p # q
      BY <1>1, <1>2, <1>3, <2>1
    <3>2. req[p].kind # "script"
      BY <1>0, <1>4, <2>1, <3>1 DEF ShapeInv
    <3> QED BY <1>4, <3>1, <3>2
  <2> QED BY <2>1
<1>10. alive' \subseteq Req
  BY <1>8 DEF ScriptInv
<1> QED BY <1>0, <1>1, <1>5, <1>6, <1>7, <1>8, <1>9, <1>10, ScriptRest

\* What a script in progress may do to the requests: exit, be stopped or write its file.
LEMMA ScriptStep ==
  ASSUME PipelineInv, NEW q \in Req, ScriptWrites(q) \/ ScriptExits(q) \/ StopScript(q)
  PROVE  PipelineInv'
<1>0. /\ ShapeInv /\ ScriptInv /\ req \in [Req -> Requests] /\ others \in 0 .. MaxOther /\ file \in BOOLEAN
  BY DEF PipelineInv, TypeOK
<1>1. req[q].at = "running" /\ req[q].kind = "script" /\ q \in alive
  BY <1>0 DEF ScriptWrites, ScriptExits, StopScript, ScriptInv, ShapeInv
<1> DEFINE Outcome ==
      /\ req' \in [Req -> Requests]
      /\ \A p \in Req : p # q => req'[p] = req[p]
      /\ \/ req'[q] = NoReq
         \/ /\ req'[q].kind = "script" /\ req'[q].at \in {"running", "exited"}
            /\ req'[q].mark # "lost" /\ (req'[q].mark \in {"alone", "own"} => req[q].mark \in {"alone", "own"})
      /\ file' \in BOOLEAN /\ alive' = {p \in Req : req'[p].at = "running"}
<1>2. Outcome
  <2>1. CASE ScriptWrites(q)
    <3>1. \A p \in Req : p # q => req[p].mark # "own"
      BY <1>0, <1>1 DEF ScriptInv
    <3>2. /\ req' = [p \in Req |->
               IF p = q /\ req[p].mark \in {"alone", "lost"} THEN [req[p] EXCEPT !.mark = "own"]
               ELSE IF p # q /\ req[p].mark = "own" THEN [req[p] EXCEPT !.mark = "lost"]
               ELSE req[p]]
          /\ file' = TRUE /\ alive' = alive
      BY <2>1 DEF ScriptWrites, script
    <3>3. \A p \in Req : p # q => req'[p] = req[p]
      BY <3>1, <3>2
    <3>4. /\ req'[q] \in Requests /\ req'[q].kind = "script" /\ req'[q].at = "running"
          /\ req'[q].mark # "lost"
          /\ (req'[q].mark \in {"alone", "own"} => req[q].mark \in {"alone", "own"})
      <4>1. req[q].mark # "lost" /\ req[q] \in Requests
        BY <1>0 DEF ScriptInv
      <4>2. CASE req[q].mark = "alone"
        BY <1>1, <3>2, <4>1, <4>2 DEF Requests
      <4>3. CASE req[q].mark # "alone"
        BY <1>1, <3>2, <4>1, <4>3 DEF Requests
      <4> QED BY <4>2, <4>3
    <3>5. req' \in [Req -> Requests]
      <4>1. \A p \in Req : req'[p] \in Requests
        BY <1>0, <3>3, <3>4
      <4> QED BY <3>2, <4>1
    <3>6. alive' = {p \in Req : req'[p].at = "running"}
      BY <1>0, <1>1, <3>2, <3>3, <3>4 DEF ScriptInv
    <3> QED BY <3>2, <3>3, <3>4, <3>5, <3>6
  <2>2. CASE ScriptExits(q)
    <3>1. /\ req' = [req EXCEPT ![q].at = "exited"] /\ alive' = alive \ {q} /\ file' = file
      BY <2>2 DEF ScriptExits
    <3>2. /\ req'[q] \in Requests /\ req'[q].kind = "script" /\ req'[q].at = "exited"
          /\ req'[q].mark = req[q].mark
      BY <1>0, <1>1, <3>1 DEF Requests
    <3>3. \A p \in Req : p # q => req'[p] = req[p]
      BY <1>0, <3>1
    <3>4. req' \in [Req -> Requests]
      <4>1. \A p \in Req : req'[p] \in Requests
        BY <1>0, <3>2, <3>3
      <4> QED BY <1>0, <3>1, <4>1
    <3>5. alive' = {p \in Req : req'[p].at = "running"}
      BY <1>0, <3>1, <3>2, <3>3 DEF ScriptInv
    <3> QED BY <1>0, <3>1, <3>2, <3>3, <3>4, <3>5 DEF ScriptInv
  <2>3. CASE StopScript(q)
    <3>1. /\ req' = [req EXCEPT ![q] = NoReq] /\ alive' = alive \ {q} /\ file' = file
      BY <2>3 DEF StopScript
    <3>2. req' \in [Req -> Requests] /\ req'[q] = NoReq /\ \A p \in Req : p # q => req'[p] = req[p]
      BY <1>0, <3>1, NoReqFacts
    <3>3. alive' = {p \in Req : req'[p].at = "running"}
      BY <1>0, <3>1, <3>2, NoReqFacts DEF ScriptInv
    <3> QED BY <1>0, <3>1, <3>2, <3>3
  <2> QED BY <2>1, <2>2, <2>3
<1>3. UNCHANGED <<market, prices, pred, others, batch, follower>>
  BY DEF ScriptWrites, ScriptExits, StopScript
<1>4. ShapeInv'
  BY <1>0, <1>2, NoReqFacts DEF ShapeInv
<1>5. ScriptInv'
  <2>1. ASSUME NEW p \in Req
        PROVE  /\ req'[p].mark # "lost"
               /\ req'[p].mark \in {"alone", "own"} => \A x \in Req : req'[x].kind = "script" <=> x = p
    <3>1. CASE p = q
      BY <1>0, <1>2, <3>1, NoReqFacts DEF ScriptInv
    <3>2. CASE p # q
      BY <1>0, <1>1, <1>2, <3>2 DEF ScriptInv
    <3> QED BY <3>1, <3>2
  <2> QED BY <1>2, <2>1 DEF ScriptInv
<1>6. \A p \in Req : req'[p].at = "fetched" \/ req[p].kind \notin {"none", "script"} => req'[p] = req[p]
  BY <1>1, <1>2, NoReqFacts
<1>7. alive' \subseteq Req /\ others' \in 0 .. MaxOther
  BY <1>0, <1>2, <1>3
<1>8. \A p \in Req : req[p].kind # "script" => req'[p] = req[p]
  BY <1>1, <1>2
<1> QED BY <1>2, <1>3, <1>4, <1>5, <1>6, <1>7, <1>8, ScriptRest
------------------------------------------------------------------------------
(* The theorems *)

LEMMA InitInv == Init => PipelineInv
<1> SUFFICES ASSUME Init PROVE PipelineInv
  OBVIOUS
<1>1. TypeOK
  <2>1. 1 \in Date /\ NoBatch \in Runs /\ NoBatch.call = None
    BY PipelineNumbers DEF Date, NoBatch, Runs
  <2>2. /\ day \in Date /\ open \in BOOLEAN /\ ~open
        /\ long \subseteq Ticker /\ file \in BOOLEAN /\ alive \subseteq Req
        /\ caught \subseteq Ticker /\ odd \subseteq Ticker
    BY <2>1 DEF Init
  <2>3. others \in 0 .. MaxOther
    BY PipelineNumbers DEF Init
  <2>4. /\ price \in [Symbol -> [Date -> {"none", "part", "final"}]]
        /\ pred \in [Ticker -> [Date -> [grade : Grade, final : BOOLEAN] \cup {None}]]
        /\ view \in [Ticker -> Grade \cup {None}]
    BY DEF Init
  <2>5. req \in [Req -> Requests] /\ batch \in Runs /\ batch.call = None
    BY <2>1, NoReqFacts DEF Init
  <2> QED BY <2>2, <2>3, <2>4, <2>5 DEF TypeOK
<1>2. ShapeInv /\ ScriptInv
  BY NoReqFacts DEF Init, ShapeInv, ScriptInv
<1>3. MarketInv
  BY NoReqFacts DEF Init, MarketInv
<1>4. CleanInv /\ DueInv
  BY DEF Init, NoBatch, CleanInv, DueInv
<1>5. ViewInv
  BY DEF Init, ViewInv, Known, Stored
<1> QED BY <1>1, <1>2, <1>3, <1>4, <1>5 DEF PipelineInv

LEMMA StepInv ==
  ASSUME PipelineInv, [Next]_vars
  PROVE  PipelineInv'
<1>1. CASE UNCHANGED vars
  <2>1. TypeOK' /\ ShapeInv' /\ ScriptInv' /\ MarketInv' /\ CleanInv' /\ DueInv'
    BY <1>1 DEF PipelineInv, TypeOK, ShapeInv, ScriptInv, MarketInv, CleanInv, Harmless, DueInv,
                vars, market, prices, script, requests, follower, Date
  <2>2. ViewInv'
    BY <1>1, ViewFrame DEF PipelineInv, vars
  <2> QED BY <2>1, <2>2 DEF PipelineInv
<1>2. CASE (\E ok \in BOOLEAN : StartRun(ok) \/ PassStep(ok)) \/ SkipStep \/ GiveUp \/ JobTimeout \/ EndRun
  BY <1>2, RunStep
<1>3. CASE OpenMarket \/ CloseMarket
  BY <1>3, OpenStep, CloseStep
<1>4. ASSUME NEW q \in Req, NEW own \in BOOLEAN,
             \/ \E S \in SUBSET Symbol, kind \in {"history", "live"} : StartPrices(q, own, kind, S)
             \/ \E d \in 0 .. MaxDate : StartInference(q, own, d)
             \/ StartTrigger(q, own)
      PROVE  PipelineInv'
  BY <1>4, StartPricesStep, StartInferenceStep, StartTriggerStep
<1>5. ASSUME NEW q \in Req,
             \/ Fail(q) \/ StorePrices(q) \/ ReadPanel(q) \/ Infer(q) \/ LoadFile(q) \/ Looked(q)
      PROVE  PipelineInv'
  BY <1>5, FailStep, StorePricesStep, ReadPanelStep, InferStep, LoadFileStep, LookedStep
<1>6. ASSUME NEW q \in Req, StartScript(q) \/ ScriptWrites(q) \/ ScriptExits(q) \/ StopScript(q)
      PROVE  PipelineInv'
  BY <1>6, StartScriptStep, ScriptStep
<1>7. ASSUME NEW q \in Req, Look(q) PROVE PipelineInv'
  BY <1>7, LookStep DEF Look
<1> QED BY <1>1, <1>2, <1>3, <1>4, <1>5, <1>6, <1>7 DEF Next

\* Everything about a run of the workflow that the theorems need, in every reachable state.
LEMMA Inductive == Spec => []PipelineInv
<1> QED BY InitInv, StepInv, PTL DEF Spec

\* Days, prices, predictions, requests and the run keep their types, and a step of the
\* workflow waits for the request it made.
THEOREM TypeCorrect == Spec => []TypeOK
<1>1. PipelineInv => TypeOK
  BY DEF PipelineInv
<1> QED BY <1>1, Inductive, PTL

\* A run that is green and undisturbed reaches the trigger with predictions of the last
\* trading day, from final prices, for every ticker.
THEOREM GradesAreFresh == Spec => []FreshGrades
<1>1. PipelineInv => FreshGrades
  BY DEF PipelineInv, CleanInv, FreshGrades
<1> QED BY <1>1, Inductive, PTL

\* A run that has loaded predictions and been through the trigger leaves a follower who
\* knows the newest grade of every ticker loaded in turn.
THEOREM FollowersAreTold == Spec => []FollowersKnow
<1>1. PipelineInv => FollowersKnow
  BY DEF PipelineInv, DueInv, ViewInv, Known, FollowersKnow
<1> QED BY <1>1, Inductive, PTL

\* A request about to load the script's file finds that of its own script, unless it shared
\* the script's folder with another.
THEOREM OwnScriptsFile == Spec => []OwnFile
<1>1. PipelineInv => OwnFile
  BY DEF PipelineInv, ScriptInv, OwnFile
<1> QED BY <1>1, Inductive, PTL
=============================================================================
