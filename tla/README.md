# ZERi-server: a verification project

This directory holds TLA+ specifications of the concurrent core of ZERi-server
(FastAPI, SQLAlchemy async sessions, PostgreSQL at READ COMMITTED), the TLC
configurations that check them on small instances, and TLAPS proofs of the
properties that matter most.

## 1. The system

One uvicorn process serves the HTTP API under `/v1`. Each request has one
`AsyncSession` (`app/db/session.py`), which is opened with `autoflush=False` and
`expire_on_commit=False`: ORM attributes are written by the flush that precedes
the COMMIT, bulk `UPDATE`s and `INSERT ... ON CONFLICT` at their own statement,
and a request that raises is rolled back when its session closes. The database
is the only state shared by requests (with its row locks, which only the bulk upserts hold over
more than one row), beside the default thread pool (Firebase
calls) and the files the inference subprocess leaves. Every `await` of the
database, of Firebase, of the LLM or of a subprocess lets other requests run;
no code takes an explicit lock. A GitHub workflow (`daily-batch.yml`) drives
the operator endpoints once a day.

### Components

| Component (sources) | State it keeps | Operations | Interacts with | What makes it correct | Here |
|---|---|---|---|---|---|
| Authentication (`auth_service.py`, `core/security.py`) | `refresh_tokens`: jti, user, family, expiry, revoked_at | signup, login, refresh with rotation and reuse detection, logout, sweep | accounts, start-up | rotation leaves one live successor; reuse kills the family; revoked is final; the sweep never makes a replay unrecognisable | `AuthTokens` |
| Accounts (`me_service.py`) | `users`: email, password_hash, deleted_at | PATCH /me, DELETE /me | revokes the account's tokens | no session outlives the password it was granted for; nobody logs in to a deleted account | `AuthTokens` |
| Request authentication (`deps.py`) | none | current user, optional user, operator key | every endpoint | a deleted account is rejected | `AuthTokens` (guards of /me) |
| Start-up (`main.py` lifespan) | none | sweep, once | authentication | serves even if the sweep fails | `AuthTokens!Restart` |
| Watchlist (`watchlist_service.py`) | `watchlist` (user, ticker) | list, add, remove | trigger reads it | cap of 100, no duplicates | `Watchlist` |
| Devices (`device_service.py`) | `device_tokens`, token UNIQUE, revoked_at | register (new, again, transfer), list, remove, mark revoked | sender marks dead tokens | a token belongs to whoever registered it last; acknowledged registrations hold | `PushDelivery` |
| Sending (`notification_service.py`) | none | test send, send to user | consent, devices, Firebase | nobody who opted out is written to; dead tokens are retired, live ones are not | `PushDelivery` |
| Watchlist trigger (`notification_trigger_service.py`) | none | one run over all users | predictions, watchlist, sending | a run announces every change that stays due, only true ones, within the maximum, and ends | `Trigger`; sending in steps in `PushDelivery` |
| Firebase sender (`fcm_service.py`) | initialised app | send to tokens under semaphore and deadline | thread pool, Firebase | the call returns; reports are true; concurrency is bounded | `FcmSend` |
| Marketing consent (`marketing_consent_service.py`) | `marketing_consents`, an event log | consent, opt-out, status, is_opted_in | sending | the latest event of a channel decides | `EventLogs`; a flag in `PushDelivery` |
| Prediction loads (`risk_ingest_service.py`, `xai_ingest_service.py`) | `predictions`, `risk_grades`, `xai_explanations` | load JSON, load CSV, load XAI | queries, texts, trigger | a grade is backed by its prediction; cached paths agree; the worse risk has the higher grade; overlapping loads do not mix | `RiskStore`, `GradeRank`, `BulkWrites` |
| Risk queries (`risk_query_service.py`) | `analysis_history` (appends) | verdict, path, spotlight, attention, history | loads | an answer does not mix loads | `RiskStore` (verdict), `EventLogs` (record) |
| Texts (`llm_explanation_service.py`, `upstage_service.py`, `xai_templates.py`) | `llm_explanations`, one per ticker | generate for tickers | loads, LLM | a text tells of the grade it is shown with | `RiskStore` |
| Inference runner (`risk_inference_runner.py`, `risk_inference_baseline.py`) | the script's result file | run a subprocess with a timeout, load its result | loads | what is loaded is what this run computed | `Pipeline` |
| Daily batch (`daily-batch.yml`, `weekly-tickers.yml`) | the step it is at | chain of HTTP steps with skips and timeouts | prices, macro, inference, texts, trigger | a green run stands on final prices; what was loaded is told | `Pipeline` |
| Analysis history (`history_service.py`) | reads `analysis_history` | keyset pages, statistics | verdict appends | pages neither skip nor repeat; counts cover what is shown | `EventLogs` |
| Market data (`pipelines/`, `yfinance_service.py`, `fred_service.py`, `prices.py`, `macro.py`, `tickers.py`) | `prices`, `macro_indicators`, `tickers` | upserts of what the services return; live prices | inference | re-runs converge; final rows replace those of an open session; syncs do not block each other for good | `BulkWrites`, `Pipeline` |
| Model and features (`app/ml`, `models/`, `tft_m4_inference.py`, `feature_engineering.py`) | weights | base date, panel, numerics, load | prices, loads | the panel reaches to the base date; accuracy | `Pipeline` (date, panel, load) |
| Envelope, schemas, errors, configuration, rate limits | counters in memory | validation, formatting | all | | not modelled |

### What is hard here

- *Check, await, act.* Nearly every service validates with one statement and
  writes with a later one, without a lock. What a request read may be stale when
  it writes (tokens, cap, device rows, consent, grades).
- *Bulk UPDATE against INSERT.* A mass revocation writes the rows of its own
  snapshot and misses those that are inserted before it commits.
- *What the ORM writes.* Only attributes whose value differs from the loaded
  one are in an UPDATE, so a concurrent change of the others stays.
- *Deadlines over threads.* `asyncio.wait_for` over `to_thread` gives up the
  wait and leaves the work running.
- *Slow third parties between a read and a write.* Firebase and the LLM answer
  seconds after the rows they were called for were read.
- *Blind upserts* from two load paths, of any date, over tables with one row per
  ticker.
- *Row locks in different orders.* A bulk upsert locks its rows one by one until its commit.
- *Keys drawn before rows are visible.* `recorded_at`, `queried_at` and the serial ids are
  fixed before the COMMIT; another row may appear first.
- *Clients that give up.* The workflow abandons a request, the server goes on with it, and
  the workflow's next step runs beside it.

`PROJECT.json` lists each hazard at its line, with the properties that cover it.

## 2. Modules

| Module | What it is |
|---|---|
| `TokenLedger` | abstract: what the `refresh_tokens` table promises |
| `AuthTokens` | detailed: requests over `users` and `refresh_tokens` |
| `AuthTokensProofs` | type correctness, overlap invariant, serial guarantees, lineage of the ledger, refinement, fork bound |
| `Watchlist` | the cap and its overshoot |
| `SendPromise` | abstract: what a call of `send_to_tokens` promises |
| `FcmSend` | detailed: event loop, thread pool, Firebase |
| `LimitProofs` | theorems about `Watchlist` and `FcmSend` (`ListInit`, `ListNext`, `ListSpec` have names of their own so that it can extend both) |
| `DeviceRegistry` | abstract: what `device_tokens` is to the accounts |
| `PushDelivery`, `PushDeliveryProofs` | detailed: registrations, consent, sending jobs, trigger loop |
| `RiskStore`, `RiskStoreProofs` | loads, verdicts, texts |
| `GradeRank` | thresholds and ranking of grades, as operators |
| `Trigger`, `TriggerProofs` | detection and announcement of changes of grade; theorems about `GradeRank` |
| `EventLogs`, `EventLogsProofs` | the two append-only tables, the status, pages and statistics |
| `AtomicLoads` | abstract: loads of predictions, each in one step |
| `BulkWrites`, `BulkWritesProofs` | detailed: row locks of all syncs and loads; deadlocks |
| `Pipeline`, `PipelineProofs` | the daily batch from prices to a notification, with the requests of others |
| `MC*` | the instances for TLC: symmetry sets; the constants are in the `.cfg` files |

Requests are modelled alike everywhere. A request slot holds a program counter
and what the handler's local variables keep across an `await`; a step ends where
another request can first see or change something. A SELECT and the Python up to
the next await is one step, a bulk UPDATE's snapshot one step, the flush with its
COMMIT one step. Row locks delay a commit but rule out no order of
snapshots and commits that the models allow, so only `BulkWrites`, where requests lock many
rows and may wait for one another, has them. A client may
send any request at any time, several at once, and any request may end before its
commit. Variables marked *history* record what happened and are read by no
action's guard; properties are stated with them.

### AuthTokens and TokenLedger

`status`, `owner`, `family`, `life` are the columns of `refresh_tokens`
(revoked_at, user_id, family_id, expires_at as one of three ages), `ustate`,
`email`, `passwd` those of `users`. Signup is one step, since the rest of it cannot
be seen before its commit. `LoginRead`/`LoginCommit`, `RefreshRead`/`RotateCommit`,
`ReuseUpdate`/`ReuseCommit`, `LogoutRead`/`LogoutCommit`, and
`PatchRead` or `DeleteRead`/`AccountUpdate`/`PatchCommit` or `DeleteCommit` are the
handlers. `req[r].seen` is the set of rows a bulk UPDATE found. `Age` lets a token
expire and then outlive the sweep's seven days; `Restart` drops the requests in
flight and sweeps, or fails to. `Abort` is every other way to end.

History: `parent` (rotated from), `grant` (the password of the login at the head
of the family), `burnt` (families invalidated), `dirty` (requests that were in
flight when a mass revocation committed) and `tainted` (tokens issued by such
requests, or while a revocation of their scope was between UPDATE and COMMIT, and
their descendants).

`TokenLedger` knows nothing of requests: tokens are opened, rotated, revoked, expire
and are purged. `Ledger == INSTANCE TokenLedger WITH presentable <- ...` is the
refinement mapping (the other variables have the same names).

### Watchlist

`rows[u]` is the table; `AddCheck` (no duplicate), `AddCount` (below the cap) and
`AddCommit` are the three statements of `add_watchlist`; a duplicate found by the
primary key leaves the row as it is. `Remove` is the DELETE.

### FcmSend

`send` is the coroutine `_bounded` of one token, `job` its entry in the executor,
`reply` what the thread returns, `result` what the call reports, `pushed` what Firebase
has accepted. `Timeout` cancels a queued job and abandons a running one, as
`concurrent.futures` does. Each call has its semaphore; `Workers` is shared.

`SendPromise` has none of that: a call is asked for sends, each is delivered once at most and told
once, and the call is answered when all are told. The mapping takes a send to be *asked* when its
coroutine exists, *told* when it has a `result`, *delivered* when Firebase has accepted it; slots,
queue and threads are stutters. What it adds to `ReportTrue` is order: an outcome never changes once
told, nothing is delivered after a success, a dead token or an error was told, and a call is not
answered with a send untold.

### PushDelivery

`dev[t]` is the row of a token (id, user, revoked); ids are never reused.
`RegisterRead` picks one of the three scenarios of `register_device`,
`RegisterInsert`, `RegisterUpdate`, `Conflict` are how its commit can end. The UPDATE
sets `revoked` back only if the loaded value was set (`off`), as SQLAlchemy does. A
job is `send_test_to_self`, `send_to_user` or `run_watchlist_trigger`: consent, devices,
hand-over, report, one `MarkRead`/`MarkCommit` per dead token, next message, next user.
A row that is gone when it is marked ends the job (`StaleDataError` leaves
`mark_token_revoked` and nothing catches it). History: `claim` and `late`.

`DeviceRegistry` is the table without requests: a token is entered under a fresh id, renewed by its
holder, left, revoked, each at once. `held` is `dev`, `given` the ids up to `ids`, and `claim` the
same; reads, hand-overs and everything of a job but its `MarkCommit` are stutters. What a registration
loaded may be gone when it writes; that the write is then a registry step all the same, and never
changes the holder of a row, is what the refinement says. `Below` orders what is left to a job.

### RiskStore

`pred[t][d]` is a prediction, `grade[t]` the ticker's only grade (with the date of
the prediction it points to), `feat[t]` the dates with an explanation, `story[t]` the
text. A load is one step at its COMMIT, for any nonempty set of tickers, any date,
any worst cases. `LoadCsv` does not touch `paths`; `LoadFeatures` is the second
transaction of the CSV endpoint. `VerdictGrade`/`VerdictPrediction`/`VerdictAnswer` and
`GenGrade`/`GenFeatures`/`GenStore` are the statements of a verdict and of a text's
generation, between which loads commit. History: `hit` (a load has replaced what
was read) and `stale`.

### GradeRank and Trigger

`Derive` is `derive_grade`, `Reassign` is `reassign_grades_by_rank` for any order the sort
may give equal rows (`Places`); `RoundTenths` is Python's `round`, half to even, of n tenths
(the floating-point products `n * 0.10` and `n * 0.30` round to the same integers for
every n up to 3000, far above the 50 tickers loaded). `Load` writes the predictions of one date
and horizon and their ranked grades, `Watch`/`Unwatch` and `Gain`/`Lose` are the lists
and who is within reach (opted in, with an active device). A run reads its users
(`StartRun`), then for each (`NextUser`) the list (`ReadList`) and each ticker's two newest
predictions (`Detect`), decides between single messages and a summary (`Decide`), sends
(`SendSummary`, `SendSingle`) or skips (`UserDone`), and ends (`Finish`, `AbortRun`).
`Detect` compares grades by threshold, as `_grade_from_worst_case` does. History: `due`
(pairs a run has to announce: within reach, watched and changed when it began, and
neither loaded, unwatched nor out of reach since) and `still` (tickers no load has
touched since). `PushDelivery` and `Trigger` describe the same run: the one in the steps
of a message with any changes, the other in its changes with a message as one step.

### EventLogs

`rows` holds the rows of one user in the order of their ids: `topic` is a consent channel or
the history, `key` is `recorded_at` or `queried_at`, `shown` when its COMMIT made it visible
(0 before). `Begin` is the first statement of a request, whose time `now()` is; `Insert` draws the
id, `Commit` shows the row, `Fail` leaves a gap. `Newest` is what `is_opted_in` may take,
`Windows` what `ORDER BY recorded_at DESC LIMIT 50` may return and `ShownIn` what
`get_current_status` makes of it. `PageRows`/`PageCount` are the two statements of
`list_history`, `StatTotal`/`StatOutcomes`/`StatGrades` the three of `get_stats`. History: `since`
(the request's start), `due` (what the first page could see) and `seen`.

### BulkWrites

A request is a *plan*: a sequence of transactions, each the sequence of rows its statements
lock, in the order of their VALUES. `PricePlans`, `MacroPlans`, `TickerPlans`, `JsonPlan` and
`CsvPlan` are those orders, derived from how each endpoint builds its list: prices symbol by
symbol in sorted order and date by date, series in the order of `MACRO_CODES` with a commit each,
predictions in the order of the items or of the file, grades in that of
`reassign_grades_by_rank`, explanations last (of a CSV in a transaction of their own). `Take` locks
the next row if nobody else holds it, `Commit` publishes and releases, `Victim` is the deadlock
detector, which cancels one request of a circle. `saved` is whose version of a row is committed.

`AtomicLoads` has the same loads without rows, locks or circles, each at its COMMIT, with a CSV
load's explanations as a second step. The mapping reads `pred`, `grade` and `feat` off `saved` and
takes for `open` the CSV loads between their transactions. It rests on what each transaction of a
plan holds and on its rows becoming visible together; the locks only order transactions, and nothing
of it would change without them. `AtomicLoads` knows a row by who wrote it, `RiskStore` by what was
written: the two have the same steps, so that those `RiskStore` takes are justified here.

### Pipeline

`batch.step` walks through the workflow: `After` is the order of its steps with `always()` on the
trigger, `GiveUp` curl's `--max-time` (the request stays in `req` and goes on), `JobTimeout` the
job's own limit (the trigger may still run, having `always()`, or the runner has stopped), `SkipStep`
its inputs. `price[s][d]` says whether a row is there and final;
`StartPrices`/`StorePrices` fetch and upsert, for `sync-history` and for `GET /prices`, which may
store the row of a session that is still on. `StartInference` takes the base date of the
newest row of *any* symbol, `ReadPanel` reads the panel as it then is, `Infer` loads. The rows read
reach to the base date. The baseline forecasts from its row; the TFT drops the last five rows of
each ticker, whose five-day return is not known, so that its encoder ends five trading days earlier and the base
date's row enters through the return of the row five before and the fitted volatility.
`final` says of which tickers that row was final when it was read.
`StartScript`, `ScriptWrites`, `ScriptExits`, `StopScript` and `LoadFile` are
`POST /risk/sync/run-inference` with the file all requests share. `StartTrigger`/`Look` compare the
newest two predictions of a ticker. History: `view` (the grade a follower has been told),
`caught`, `odd` (loads out of turn), `due`, `clean`, `mark`. `RiskStore`, `BulkWrites`, `Trigger`
and `PushDelivery` describe in detail what are single steps here.

## 3. Runs

| Run | Instance | Shows |
|---|---|---|
| `auth_overlap` | 2 accounts, 2 passwords, 3 tokens, 2 requests | under any interleaving: `StaleOnlyByOverlap`, `ReuseKillsFamily`, `DeletionHolds`, refinement of the ledger |
| `auth_serial` | 2 accounts, 2 passwords, 3 tokens, 1 request, ageing | without overlap the promises of `docs/API.md` hold exactly: `SessionsMatchPassword`, `OneActivePerFamily`, and no token has two successors (`ForkBound`, which for requests that overlap is the theorem `ForksBounded`); the sweep respects the ledger |
| `auth_stale` | 1 account, 2 requests | *violation*: with overlap, `SessionsMatchPassword` fails |
| `watchlist` | 2 users, 4 tickers, 2 requests, cap 2 | `Overshoot` |
| `fcm` | 2 calls, 2 tokens each, 1 slot, 2 threads | `ReportTrue`, `SendsBound`, `CallReturns`, refinement of `SendPromise` |
| `push` | 2 users, 1 token, 2 requests, 1 job, 2 messages, 2 rows | `ClaimHolds`, `LateBound`, `FailsOnlyRaced`, `JobReturns`, `JobDescends`, refinement of `DeviceRegistry` |
| `risk` | 1 ticker, 2 dates, 2 worst cases, 1 CSV load, 1 reader, 2 batches | `GradeBacked`, `VerdictAgrees`, `StoryFollows`, `PathsPart` |
| `trigger` | 2 users, 2 tickers, 2 dates, 1 horizon, 2 worst cases, 3 loads, 1 run, at most 1 message | `NothingMissed`, `NewsTrue`, `MessageCap` |
| `trigger_grade` | 1 user, 2 tickers, 2 loads | *violation*: the grade announced is not the grade of the ticker |
| `logs` | 2 channels and the history, 2 writers, 1 client, 1 reader, 3 rows, window 2, page 1 | `KeysFollowTime`, `StatusShows`, `PagesExact`, `CountsCover` |
| `upserts` | 2 symbols, 2 dates, 1 series, 2 requests with any plan | `DeadlockNeedsDisorder`, `LoadsAsOne`, `RequestsEnd`, refinement of `AtomicLoads` |
| `batch` | 1 ticker, 1 index, 2 trading days, 2 grades, 2 requests at a time, 2 of others | `FreshGrades`, `FollowersKnow`, `OwnFile` |

**Bounds.** Two requests are what every race of two statements needs, and the
theorems of section 4 remove the bound for the safety properties. Three tokens make
a family fork or be replayed across a rotation, and with two accounts let one account's
revocation meet another's tokens (longer families and more successors: the theorems); two users and one device token are the least for a
transfer, two rows (`MaxId`) for a transfer that meets a transfer; two messages are the
least for a consent that changes between them; two dates and two worst cases are
the least for a load that regresses and for one that replaces. `MaxLife` is 0 where
ageing does not matter for the question (a token that no one may present only
removes behaviours) and 2 in `auth_serial`, where the sweep is the question.
`fcm` has fewer slots and threads than sends, so that sends wait for both, and a thread more
than slots, so that an abandoned send runs beside its successor. One ticker
is enough in `risk`, since no property and no guard but the semaphore relates two.
In `trigger` two changes are one more than its maximum of messages, two worst cases
lie on both sides of a threshold, and three loads are what it takes to give both
tickers two dates and replace one of them during the run; horizons of one date, which would
multiply its states, are left to the theorems.
In `logs` two writers are what lets a row appear above one that is not yet visible, and a window
of 2 with 3 rows what lets a channel fall out of it; pages of one row turn twice. In `upserts`
two symbols and two dates give every order of two rows (circles of three: the theorems). In
`batch` two requests at a time are a step's and one of others, or an abandoned one and its
successor's; the second trading day opens, is stored unfinished and closes; the index stands
for a symbol with the newest row and no predictions. Tickers do not interact in `Pipeline` but
through `LastRow`, which the index exercises.
Symmetry is used for constants that are only compared for equality and only in
runs without liveness properties (`LedgerSpec` is a safety property).

**Fairness.** `FcmSend` assumes only that the event loop runs: its timers fire and what
is ready continues. Neither a thread nor Firebase owes anything, so
`CallReturns` rests on the deadline alone, as in the code. `PushDelivery` assumes that
each sending job goes on when it can, `Report` included, which is what `CallReturns`
gives it; clients owe nothing. `BulkWrites` (`FairSpec`) assumes that the database executes a
statement that need not wait, that a request commits, and that the detector runs; so
`RequestsEnd` is that no wait lasts and every circle is broken. The other modules have no fairness: nothing in them
has to happen unless a client asks.

**Stopping.** `fcm` and `upserts` allow deadlock, because every call, or request, of a bounded
set may have ended. In all others some action is always possible.

### Where the code and its documents differ

Two violation runs; each counterexample is short (`tlc -config ...` prints it).

1. `docs/API.md:314` says a change of password revokes *all* active refresh tokens of
   the user. A login (or refresh) that has verified before the PATCH and commits after
   the UPDATE's snapshot leaves one active. What does hold is
   `StaleOnlyByOverlap`: only tokens of overlapping requests survive.
2. `notification_trigger_service.py:13` says grades are classified in one place. The trigger
   uses `derive_grade`, the table has the grades of `reassign_grades_by_rank`, so a message can
   announce a grade the app does not show.

Five promises for which a checked and proved property states what holds instead:

3. `fcm_service.py:174` says the semaphore limits concurrency towards Firebase. After a timeout the
   thread goes on while the slot is given away: `SendsBound` counts those threads in.
4. `device_service.py:11` says ON CONFLICT makes registration race-safe. The code
   selects, then inserts or updates, and the second of two first registrations fails; so does a
   repeated registration whose row is removed meanwhile. `FailsOnlyRaced` says that no registration
   fails that was not overtaken in one of these ways, and that a transfer does not mind a removal.
5. `models/prediction.py:40` says the paths cache quantile_paths. The CSV upsert does not
   write quantile_paths: `PathsPart` says nothing else parts them.
6. `docs/API.md:345` says a deletion sets password_hash to NULL (me_service.py:135: "로그인 차단").
   A PATCH that has loaded the account before writes its hash after: `PatchRead`, `DeleteRead`,
   `DeleteCommit`, `PatchCommit`. `DeletionHolds` says that nothing else does, that the
   address does not come back with it, so that there is no login, and that the account's sessions
   end but for those of overlapping requests.
7. `risk_query_service.py:219` says that reading the prediction by the grade's id guarantees
   consistency. It does against a load of another date; a load that replaces that very prediction between the two
   reads still mixes two loads, and `VerdictAgrees` excepts it.

And some that were read from the code, without a run:

- `daily-batch.yml:14` says a failed step skips those after it; the trigger and the upload have
  `always()`. `:51` says a run in progress is cancelled; `cancel-in-progress` is false.
- The schedule runs at weekends too, when the newest two predictions are those of Friday and
  Thursday again: the announcement is repeated (`docs/ISSUES.md:498` and `:548` know this of manual
  re-runs).
- A CSV load without `base_date` takes the calendar day before its first future date
  (`risk_ingest_service.py:209`), which for a Monday is a Sunday.

And one that a theorem makes exact: `watchlist_service.py:158` expects one row above the cap at
most; the bound is one less than the adds that overlap (`Overshoot`).

## 4. Proofs

All theorems hold for every value of the constants, under the named assumptions of
each module: sentinels (`None`) differ from values, slots are finite (and nonempty), caps
and bounds are naturals.

| Theorem | From | Argument |
|---|---|---|
| `TypeCorrect` (tokens) | `AuthTokens` | `TypeOK` is inductive: a request's fields that its pc uses refer to issued tokens |
| `OverlapInvariant` | `TypeCorrect`'s part | `OverlapInv` |
| `SurvivorsOverlapped`, `ReuseInvalidatesFamily` | `OverlapInvariant` | two conjuncts of `ActiveSound` |
| `SerialSessions`, `SerialRotation` | one request slot | with a single slot nobody is dirty and nothing tainted (`SerialInv`) |
| `DeletionsHold` | `OverlapInvariant` | `DeletedInv`: what is done for a deleted account was begun before, so it is dirty or descends from what was; `Captured` makes the deletion's own commit reach the rest; `HashStep`: who writes the hash |
| `LedgerImplemented`, `RotatedIsRevoked` | `OverlapInvariant` | each action maps to a ledger step or a stutter; the ledger's lineage (lemma `LineageKept`, directly inductive) is carried over |
| `ForksBounded` | `OverlapInvariant` | `ForkInv`: children, plus requests about to rotate the token, are at most the slots |
| `CapOvershoot`, `SerialCap` | `Watchlist` | rows plus inserts to come (`OvershootInv`) |
| `ReportsAreTrue` | `FcmSend` | `ReportInv` ties a result to its job and the job to Firebase |
| `SendsAreBounded` | `FcmSend` | `LimitInv`: the coroutines that hold a slot are at most the slots, and a running thread belongs to one or was given up; cardinalities of sets |
| `PromiseKept` | `ReportsAreTrue`'s part | `PromiseInv`: who is told is done, who waits belongs to a call under way, a told outcome ends its job; each action maps to a step or a stutter |
| `CallsGoOn` | `FcmSend` | below |
| `FailuresAreRaced` | `PushDelivery` | `RowsInv`: the row of a token is never older than the one a registration of it has read, and a commit fails only on another one, or, for an update, on none |
| `RegistrationHolds` | `PushDelivery` | `ClaimInv`: an update in flight would leave an active row, or was overtaken by a job |
| `RegistryImplemented`, `IdsStay` | `RegistrationHolds`'s part | `ForeignInv`: a transfer whose row is still there takes it from another user; ids are drawn above all that were given |
| `JobsDescend`, `WorkIsBounded` | `PushDelivery` | below |
| `OptOutStops` | `PushDelivery` | `LateInv`: messages since the opt-out plus jobs that have passed the check |
| `CutoffsFit`, `RankKeepsOrder` | `GradeRank` | arithmetic of the cutoffs; the place decides, and places are in the order of the worst cases |
| `TriggerSafety`, `RunMissesNothing`, `RunTellsTruth`, `RunKeepsCap` | `Trigger` | `TriggerInv` |
| `StoreInvariant`, `GradesAreBacked`, `VerdictsAgree`, `StoriesFollow` | `RiskStore` | `StoreInv` |
| `OnlyCsvParts` | `RiskStore` | a JSON load writes both columns (`JsonMends`), a CSV load is what the property names (`CsvParts`) |
| `BulkInvariant`, `LocksExclude` | `BulkWrites` | `BulkInv`: every plan is one the code builds, locked rows are a prefix of it, locks exclude each other, grade and prediction are saved together |
| `DeadlocksExplained` | `BulkInvariant` | below |
| `LoadsAreAtomic` | `BulkInvariant` | a load holds the prediction of every ticker whose grade it writes, and both are published by one commit |
| `LoadsImplemented` | `BulkInvariant` | a commit publishes exactly the rows of its transaction, and those are a whole load's by `JsonPlan` and `CsvPlan`; of a sync, none of the three tables' |
| `OrderedRequestsGoOn` | `BulkInvariant` | below |
| `LogsInvariant`, `TypeCorrect` (logs), `KeysInTime` | `EventLogs` | `RowsInv`: a row appears only after all rows of smaller ids have begun |
| `StatusIsShown` | `LogsInvariant` | if the newest row of a channel were outside the window, all rows in it would be others' and as new; there are too few |
| `PagesAreExact` | `LogsInvariant` | `PageInv`: what was due lies below the cursor or has been seen, and what has been seen does not lie below it |
| `CountsAreCovered` | `LogsInvariant` | visible rows only grow; `CountInv`, and cardinality of subsets |
| `TypeCorrect` (batch), `GradesAreFresh` | `Pipeline` | `CleanInv`: what a green, undisturbed run has achieved at each of its steps |
| `FollowersAreTold` | `Pipeline` | `ViewInv` and `DueInv`, below |
| `OwnScriptsFile` | `Pipeline` | `ScriptInv`: the scripts that run are those waited for, and a request marked alone is the only one |

*Why strengthen.* `StaleOnlyByOverlap` says nothing of requests in flight, and the
step that breaks it is a commit made from what a request read earlier. `OverlapInv`
adds what such a request may hold: a login's password is the account's
(`LoginSound`), the token to be rotated is sound (`RotateSound`), or the request is dirty;
and a mass revocation that has run its UPDATE has captured every active token in its
scope but the tainted ones (`Captured`), so that its commit makes the password
change safe. `StoreInv` adds in the same way that a verdict between its statements will find the
worst case it has read (`AskInv`) and a generation not overtaken holds the present grade
(`GenInv`). `NothingMissed` speaks only of the end of a run; `DueAhead` says at every step where each pair
that is due still lies ahead (user to come, ticker to come, or change found), and
`CapAhead` counts messages sent and to come. TLC has checked `OverlapInv`, `DeletedInv`, `StoreInv` and
`TriggerInv` on the instances above before they were proved; the runs now check what they are for.

*Deadlocks.* `NoCircle` is a lemma about any order: if every request of a set waits for a row
that another of the set holds, and each holds only rows that come before the one it wants, the
wanted rows ascend along the waits; the greatest of them is waited for by somebody who holds
a greater one. `WaitsAscend` gives that order for all rows but the grades, and
`NoWaitForGrade` shows that nobody waits for a grade among loads of one date: who wants it holds the
ticker's prediction, and so does who has it. No finiteness of the set of requests is needed, since
rows lie in a bounded order (`PlacesBounded`).

*Pages.* A client sees a page as it is when it is read, so `PagesExact` cannot speak of rows that
appear below the cursor; `PageInv` separates them from those that were `due`, and relies on rows
never disappearing.

*The batch.* `FollowersKnow` speaks of the end of a run; `ViewInv` says at every moment that of a
ticker loaded in turn the trigger would tell the newest grade, and that the follower knows it if the trigger
has looked since the load. A load in turn is the first one, one of a later date than all that the
trigger has seen, or one that repeats a grade, and each keeps this for another reason (`LoadedView`).
`DueInv` adds that of the tickers the run's trigger need no longer look at, each has been looked
at since its last load; a load by somebody else ends the claim (`due`). `FreshGrades` speaks of
undisturbed runs only: nothing is said of one for which yfinance left out a symbol, beside which somebody
else infers, or which meets a request an earlier run has abandoned. It needs the prices
too: `MarketInv` bounds the rows by the day in session, so that the newest row of any symbol, which
dates an inference, is that of `day` (`StartInferenceStep`).

*What ends, ends.* Liveness under fairness is out of the proof system's reach as used here, so
`CallReturns`, `JobReturns` and `RequestsEnd` stay with TLC. What they rest on besides fairness is
safety, and that is proved for every value of the constants. Two things are needed: that there is always
something to do, and that it cannot go on for ever.

- A call of `send_to_tokens` can always return, give up a send or hand out a slot, without any thread
  (`CallAble`), and its sends only go forward from *waiting* to *held* to *done* (`SendsForward`):
  `CallsGoOn`.
- Every step of a job makes it smaller in the order of `Below`, users before messages before the stages
  of a message before dead tokens (`JobsDescend`). For finitely many users and tokens that order is
  embedded in the naturals by `Rank`, a number in mixed base whose digits are those four; `RankBounds`
  bounds it and `BelowRank` shows that it falls: `WorkIsBounded`.
- If each request under way waited for another, they would be a set of the kind `DeadlocksExplained`
  rules out unless a load is out of order or two dates meet: `OrderedRequestsGoOn`. So the batch's own syncs and loads need no
  deadlock detector, and only for the others does `RequestsEnd` assume one.

*Only model-checked*: those three liveness properties, that is, that what can go on does.

## 5. Not modelled, and why

- The change of a name alone, the acknowledgement of the disclaimer, hashing and password policy: they change nothing
  another operation depends on.
- Access tokens: they are stateless, and deleted accounts are rejected by the row.
- The rate limiter: a library's counters; without it the models allow more.
- Parsing of CSV and JSON, selection of quantiles: `RiskStore` and `Trigger` take the worst
  case as given.
- A memory of what has been announced: the code keeps none, so a second run of a day
  announces again and nothing in its documents forbids it.
- Texts and prompts: formatting. The Upstage client is one HTTP call whose failure is `GenCrash`.
- The numerics of the network, its training and the indicators: floating point. `Pipeline`
  takes a prediction to be any grade, and the panel to be the rows it reads.
- Schemas, the envelope, error codes, migrations: stateless, or run once offline.
- The Firebase SDK's own retries: a send is accepted once at most, because its thread calls once. `PromiseSpec`
  adds to that only the order of what is told.
- A restart of the server between the start of the external script and its end, which would leave the script
  without a request to kill it.
- PostgreSQL's row locks and deadlock victims outside `BulkWrites`, except as an aborted request.
- What yfinance and FRED answer, and what the external script does, beyond what the code here
  distinguishes: any subset of the symbols and dates asked for, any file or none.

## 6. Plan

Done, in the order of importance: authentication and accounts with the abstract
ledger; the watchlist's cap; the sender; registrations and delivery; the risk store; grades and the
trigger; consents and history; bulk writes and their locks; the daily batch; the promises of the
sender, the registry and the loads, and that calls, jobs and ordered requests cannot go round in circles.

Next, in this order:

1. Refinements: `Pipeline`'s `Look` by `Trigger`'s run, and `Trigger`'s `SendSingle` by the job of
   `PushDelivery`.
2. `PushDelivery` over the channel of `EventLogs` in place of its flag.
3. The change of a name against the deletion of its account, in `AuthTokens`.

## 7. Running

    tlc -workers 2 -config MCAuthSerial.cfg MCAuthTokens.tla
    tlc -workers 2 -config MCPipeline.cfg MCPipeline.tla
    tlapm AuthTokensProofs.tla
