---------------------------- MODULE TriggerProofs ----------------------------
(***************************************************************************)
(* Theorems about GradeRank, for loads of any size, and about Trigger, for *)
(* any users, tickers, dates, horizons and runs.                           *)
(***************************************************************************)
EXTENDS Trigger, FiniteSetTheorems, TLAPS

\* A load of two or more tickers has at least one HIGH and one MID, never more
\* places than tickers, and HIGH within half a ticker of the tenth that
\* risk_ingest_service declares (_RANK_HIGH_PCT), or the one it must have.
THEOREM CutoffsFit ==
  ASSUME NEW n \in Nat, n >= 2
  PROVE  /\ 1 <= HighCutoff(n) /\ HighCutoff(n) < MidCutoff(n) /\ MidCutoff(n) <= n
         /\ HighCutoff(n) = 1 \/ (10 * HighCutoff(n) - n \in -5..5)
         /\ MidCutoff(n) = HighCutoff(n) + 1 \/ (10 * MidCutoff(n) - 3 * n \in -5..5)
BY DEF HighCutoff, MidCutoff, AtLeast, RoundTenths

\* reassign_grades_by_rank never gives the ticker with the worse worst case the
\* milder grade, whatever the order of its input.
THEOREM RankKeepsOrder ==
  ASSUME NEW S, IsFiniteSet(S), NEW w \in [S -> Int], NEW p \in Places(S, w),
         NEW s \in S, NEW t \in S, w[s] < w[t]
  PROVE  Severity(Reassign(S, w, p)[s]) >= Severity(Reassign(S, w, p)[t])
<1> DEFINE n == Cardinality(S)
<1>1. n \in Nat
  BY FS_CardinalityType
<1>2. p[s] \in Int /\ p[t] \in Int /\ p[s] < p[t]
  BY <1>1 DEF Places
<1>3. HighCutoff(n) \in Int /\ MidCutoff(n) \in Int /\ HighCutoff(n) < MidCutoff(n)
  BY <1>1 DEF HighCutoff, MidCutoff, AtLeast, RoundTenths
<1> HIDE DEF n
<1>4. CASE n <= 1
  BY <1>4 DEF Reassign, Derive, Severity, n
<1>5. CASE ~(n <= 1)
  <2> DEFINE g(x) == IF p[x] < HighCutoff(n) THEN "HIGH"
                     ELSE IF p[x] < MidCutoff(n) THEN "MID" ELSE "LOW"
  <2>1. Reassign(S, w, p)[s] = g(s) /\ Reassign(S, w, p)[t] = g(t)
    BY <1>5 DEF Reassign, n
  <2>2. Severity(g(s)) >= Severity(g(t))
    BY <1>2, <1>3 DEF Severity
  <2>3. QED
    BY <2>1, <2>2
<1>6. QED
  BY <1>4, <1>5
------------------------------------------------------------------------------
USE TriggerWorst, TriggerNumbers, TriggerNone

\* The steps of a run, without its start.
Within(r) ==
  \/ NextUser(r) \/ ReadList(r) \/ Detect(r) \/ Decide(r)
  \/ SendSummary(r) \/ SendSingle(r) \/ UserDone(r) \/ Finish(r) \/ AbortRun(r)

\* The steps of others, none of which touches a run.
Around ==
  \/ \E S \in (SUBSET Ticker) \ {{}}, k \in Key : \E w \in [S -> Worst] : \E p \in Places(S, w) :
       Load(S, k, w, p)
  \/ \E u \in User, t \in Ticker : Watch(u, t) \/ Unwatch(u, t)
  \/ \E u \in User : Gain(u) \/ Lose(u)

\* A change found is one of News.
LEMMA ChangeType ==
  ASSUME TypeOK, NEW t \in Ticker, NEW c \in Changes(t)
  PROVE  c \in News /\ c.ticker = t
BY DEF Changes, Change, News, Derive, Grades

\* A change found between two grades has happened.
LEMMA ChangeHappened ==
  ASSUME NEW t \in Ticker, NEW c \in Changes(t), c.from # c.to
  PROVE  Happened(c)
<1>1. PICK p \in NewestTwo(t) : c = Change(t, p)
  BY DEF Changes
<1>2. c.ticker = t /\ c.from = Derive(pred[t][p[2]]) /\ c.to = Derive(pred[t][p[1]])
  BY <1>1 DEF Change
<1>3. /\ p[1] \in Stored(t) /\ p[2] \in Stored(t) /\ p[1] # p[2]
      /\ p[2][1] <= p[1][1]
      /\ \A k \in Stored(t) : k # p[1] => k[1] <= p[2][1]
  BY DEF NewestTwo
<1>4. QED
  BY <1>2, <1>3 DEF Happened

\* What is said of a ticker depends on its own predictions alone.
LEMMA OwnPredictions ==
  ASSUME NEW t, pred'[t] = pred[t]
  PROVE  /\ Changed(t)' <=> Changed(t)
         /\ Stored(t)' = Stored(t)
<1>1. Stored(t)' = Stored(t)
  BY DEF Stored
<1>2. NewestTwo(t)' = NewestTwo(t)
  BY <1>1 DEF NewestTwo
<1>3. Changes(t)' = Changes(t)
  BY <1>2 DEF Changes, Change
<1>4. QED
  BY <1>1, <1>3 DEF Changed

\* So is whether a change has happened.
LEMMA StillHappened ==
  ASSUME NEW c, pred'[c.ticker] = pred[c.ticker], Happened(c)
  PROVE  Happened(c)'
<1>1. Stored(c.ticker)' = Stored(c.ticker)
  BY OwnPredictions
<1>2. QED
  BY <1>1 DEF Happened
------------------------------------------------------------------------------
(* Types *)

\* An empty slot has its type, and begins as one.
LEMMA NoRunType == NoRun \in Progress
BY DEF NoRun, Progress

\* The types hold in the initial state.
LEMMA TriggerTypeInit == Init => TypeOK
BY NoRunType DEF Init, TypeOK

\* Loads, lists and consents keep the types.
LEMMA AroundType == TypeOK /\ Around => TypeOK'
<1> SUFFICES ASSUME TypeOK, Around PROVE TypeOK'
  OBVIOUS
<1> USE DEF TypeOK
<1>1. ASSUME NEW S \in (SUBSET Ticker) \ {{}}, NEW k \in Key, NEW w \in [S -> Worst],
             NEW p \in Places(S, w), Load(S, k, w, p)
      PROVE  TypeOK'
  <2>1. \A t \in S : Reassign(S, w, p)[t] \in Grades
    BY DEF Reassign, Derive, Grades
  <2>2. grade' \in [Ticker -> Grades \cup {None}]
    BY <1>1, <2>1 DEF Load
  <2>3. pred' \in [Ticker -> [Key -> Worst \cup {None}]]
    BY <1>1 DEF Load
  <2>4. loads' \in 0..MaxLoad
    BY <1>1 DEF Load
  <2>5. due' \in [Run -> SUBSET (User \X Ticker)] /\ still' \in [Run -> SUBSET Ticker]
    BY <1>1 DEF Load
  <2>6. QED
    BY <1>1, <2>2, <2>3, <2>4, <2>5 DEF Load, people
<1>2. ASSUME NEW u \in User, NEW t \in Ticker, Watch(u, t) PROVE TypeOK'
  BY <1>2 DEF Watch, store
<1>3. ASSUME NEW u \in User, NEW t \in Ticker, Unwatch(u, t) PROVE TypeOK'
  BY <1>3 DEF Unwatch, store
<1>4. ASSUME NEW u \in User, Gain(u) PROVE TypeOK'
  BY <1>4 DEF Gain, store
<1>5. ASSUME NEW u \in User, Lose(u) PROVE TypeOK'
  BY <1>5 DEF Lose, store
<1>6. QED
  BY <1>1, <1>2, <1>3, <1>4, <1>5 DEF Around

\* The start of a run keeps the types.
LEMMA StartType ==
  ASSUME TypeOK, NEW r \in Run, NEW U \in SUBSET User, StartRun(r, U)
  PROVE  TypeOK'
<1> USE DEF TypeOK
<1>1. [NoRun EXCEPT !.pc = "users", !.users = U] \in Progress
  BY DEF NoRun, Progress
<1>2. run' \in [Run -> Progress]
  BY <1>1 DEF StartRun, Go
<1>3. due' \in [Run -> SUBSET (User \X Ticker)] /\ still' \in [Run -> SUBSET Ticker]
  BY DEF StartRun
<1>4. QED
  BY <1>2, <1>3 DEF StartRun, store, people

\* The steps of a run keep the types.
LEMMA WithinType ==
  ASSUME TypeOK, NEW r \in Run, Within(r)
  PROVE  TypeOK'
<1> USE DEF TypeOK
<1>r. run[r] \in Progress
  OBVIOUS
<1>next. [NoRun EXCEPT !.pc = "users", !.users = run[r].users] \in Progress
  BY <1>r DEF NoRun, Progress
<1>q. ASSUME NEW D, Announce(r, D), run[r].pc # "list" PROVE TypeOK'
  <2>0. run[r].sent + 1 \in Nat /\ run[r].found \ D \in SUBSET News
    BY <1>r DEF Progress
  <2>1. [run[r] EXCEPT !.found = @ \ D, !.sent = @ + 1] \in Progress
    BY <1>r, <1>q, <2>0 DEF Progress
  <2>2. run' \in [Run -> Progress]
    BY <1>q, <2>1 DEF Announce, Go
  <2>3. due' \in [Run -> SUBSET (User \X Ticker)]
    BY <1>q DEF Announce
  <2>4. QED
    BY <1>q, <2>2, <2>3 DEF Announce, store, people
<1>1. CASE NextUser(r)
  <2>1. ASSUME NEW u \in run[r].users
        PROVE  [NoRun EXCEPT !.pc = "list", !.users = run[r].users \ {u}, !.user = u] \in Progress
    BY <1>r DEF NoRun, Progress
  <2>2. run' \in [Run -> Progress]
    BY <1>1, <2>1 DEF NextUser, Go
  <2>3. QED
    BY <1>1, <2>2 DEF NextUser, store, people
<1>2. CASE ReadList(r)
  <2>1. watch[run[r].user] \in SUBSET Ticker
    BY <1>2, <1>r DEF ReadList, Progress
  <2>2. [run[r] EXCEPT !.pc = "detect", !.todo = watch[run[r].user]] \in Progress
    BY <1>r, <2>1 DEF Progress
  <2>3. run' \in [Run -> Progress]
    BY <1>2, <2>2 DEF ReadList, Go
  <2>4. QED
    BY <1>2, <2>3 DEF ReadList, store, people
<1>3. CASE Detect(r)
  <2> DEFINE rest(t) == [run[r] EXCEPT !.todo = @ \ {t}]
  <2>1. PICK t \in run[r].todo :
          Go(r, rest(t)) \/ \E c \in Changes(t) : Go(r, [rest(t) EXCEPT !.found = @ \cup {c}])
    BY <1>3 DEF Detect
  <2>2. t \in Ticker
    BY <1>r DEF Progress
  <2>3. rest(t) \in Progress
    BY <1>r DEF Progress
  <2> HIDE DEF rest
  <2>4. \A c \in Changes(t) : [rest(t) EXCEPT !.found = @ \cup {c}] \in Progress
    BY <2>2, <2>3, ChangeType DEF Progress
  <2>5. run' \in [Run -> Progress]
    BY <2>1, <2>3, <2>4 DEF Go
  <2>6. QED
    BY <1>3, <2>5 DEF Detect, store, people
<1>4. CASE Decide(r)
  <2>1. \A m \in {"summary", "single"} : [run[r] EXCEPT !.pc = m] \in Progress
    BY <1>r DEF Progress
  <2>2. run' \in [Run -> Progress]
    BY <1>4, <1>next, <2>1 DEF Decide, OnToNext, Go
  <2>3. QED
    BY <1>4, <2>2 DEF Decide, store, people
<1>5. CASE SendSummary(r)
  BY <1>5, <1>q DEF SendSummary
<1>6. CASE SendSingle(r)
  BY <1>6, <1>q DEF SendSingle
<1>7. CASE UserDone(r)
  <2>1. run' \in [Run -> Progress]
    BY <1>7, <1>next DEF UserDone, OnToNext, Go
  <2>2. QED
    BY <1>7, <2>1 DEF UserDone, store, people
<1>8. CASE Finish(r)
  BY <1>8, NoRunType DEF Finish, Go, store, people
<1>9. CASE AbortRun(r)
  BY <1>9, NoRunType DEF AbortRun, Go, store, people
<1>10. QED
  BY <1>1, <1>2, <1>3, <1>4, <1>5, <1>6, <1>7, <1>8, <1>9 DEF Within
------------------------------------------------------------------------------
(* What is due is ahead *)

\* Loads, lists and consents take back what is due, or leave it valid.
LEMMA AroundDue == TypeOK /\ DueAhead /\ Around => DueAhead'
<1> SUFFICES ASSUME TypeOK, DueAhead, Around, NEW r \in Run, NEW d \in due'[r]
             PROVE  Valid(r, d)' /\ Ahead(run'[r], d)
  BY DEF DueAhead
<1> USE DEF TypeOK, Valid
<1>1. ASSUME NEW S \in (SUBSET Ticker) \ {{}}, NEW k \in Key, NEW w \in [S -> Worst],
             NEW p \in Places(S, w), Load(S, k, w, p)
      PROVE  Valid(r, d)' /\ Ahead(run'[r], d)
  <2>1. d \in due[r] /\ d[2] \notin S /\ d[2] \in Ticker
    BY <1>1 DEF Load
  <2>2. pred'[d[2]] = pred[d[2]] /\ (d[2] \in still'[r] <=> d[2] \in still[r])
    BY <1>1, <2>1 DEF Load
  <2>3. Changed(d[2])' <=> Changed(d[2])
    BY <2>2, OwnPredictions
  <2>4. QED
    BY <1>1, <2>1, <2>2, <2>3 DEF Load, people, DueAhead
<1>s. ASSUME UNCHANGED store PROVE Changed(d[2])' <=> Changed(d[2])
  BY <1>s, OwnPredictions DEF store
<1>2. ASSUME NEW u \in User, NEW t \in Ticker, Watch(u, t)
      PROVE  Valid(r, d)' /\ Ahead(run'[r], d)
  BY <1>2, <1>s DEF Watch, DueAhead
<1>3. ASSUME NEW u \in User, NEW t \in Ticker, Unwatch(u, t)
      PROVE  Valid(r, d)' /\ Ahead(run'[r], d)
  <2>1. d \in due[r] /\ d # <<u, t>> /\ d \in User \X Ticker
    BY <1>3 DEF Unwatch
  <2>2. QED
    BY <1>3, <1>s, <2>1 DEF Unwatch, DueAhead
<1>4. ASSUME NEW u \in User, Gain(u)
      PROVE  Valid(r, d)' /\ Ahead(run'[r], d)
  BY <1>4, <1>s DEF Gain, DueAhead
<1>5. ASSUME NEW u \in User, Lose(u)
      PROVE  Valid(r, d)' /\ Ahead(run'[r], d)
  BY <1>5, <1>s DEF Lose, DueAhead
<1>6. QED
  BY <1>1, <1>2, <1>3, <1>4, <1>5 DEF Around

\* When a run begins, its users are all to come.
LEMMA StartDue ==
  ASSUME TypeOK, DueAhead, NEW r \in Run, NEW U \in SUBSET User, StartRun(r, U)
  PROVE  DueAhead'
<1> SUFFICES ASSUME NEW x \in Run, NEW d \in due'[x]
             PROVE  Valid(x, d)' /\ Ahead(run'[x], d)
  BY DEF DueAhead
<1>1. Changed(d[2])' <=> Changed(d[2])
  BY OwnPredictions DEF StartRun, store
<1>2. CASE x = r
  <2>1. /\ d \in (U \cap reach) \X Ticker /\ d[2] \in watch[d[1]] /\ Changed(d[2])
        /\ still'[x] = Ticker /\ run'[x].users = U
    BY <1>2 DEF StartRun, Go, TypeOK, NoRun
  <2>2. QED
    BY <1>1, <2>1 DEF StartRun, people, Valid, Ahead
<1>3. CASE x # r
  <2>1. d \in due[x] /\ still'[x] = still[x] /\ run'[x] = run[x]
    BY <1>3 DEF StartRun, Go, TypeOK
  <2>2. QED
    BY <1>1, <2>1 DEF StartRun, people, Valid, DueAhead
<1>4. QED
  BY <1>2, <1>3

\* A step of a run keeps what is due ahead, or announces it.
LEMMA WithinDue ==
  ASSUME TypeOK, DueAhead, NEW r \in Run, Within(r)
  PROVE  DueAhead'
<1> SUFFICES ASSUME NEW x \in Run, NEW d \in due'[x]
             PROVE  Valid(x, d)' /\ Ahead(run'[x], d)
  BY DEF DueAhead
<1>1. UNCHANGED <<store, people>>
  BY DEF Within, NextUser, ReadList, Detect, Decide, SendSummary, SendSingle, Announce,
         UserDone, Finish, AbortRun
<1>2. Changed(d[2])' <=> Changed(d[2])
  BY <1>1, OwnPredictions DEF store
<1>3. d \in due[x] /\ Valid(x, d) /\ Ahead(run[x], d)
  <2>1. \/ due' = due
        \/ \E D : due' = [due EXCEPT ![r] = @ \ D]
        \/ due' = [due EXCEPT ![r] = {}]
    BY DEF Within, NextUser, ReadList, Detect, Decide, SendSummary, SendSingle, Announce,
           UserDone, Finish, AbortRun
  <2>2. d \in due[x]
    BY <2>1 DEF TypeOK
  <2>3. QED
    BY <2>2 DEF DueAhead
<1>4. ASSUME x # r PROVE run'[x] = run[x] /\ still'[x] = still[x]
  BY <1>4 DEF TypeOK, Within, NextUser, ReadList, Detect, Decide, SendSummary, SendSingle,
              Announce, UserDone, OnToNext, Finish, AbortRun, Go
<1>5. ASSUME x = r PROVE Ahead(run'[r], d) /\ still'[r] = still[r]
  <2> DEFINE g == run[r]
  <2>d. d \in due[r] /\ Ahead(g, d) /\ g \in Progress
    BY <1>3, <1>5 DEF TypeOK
  <2>v. d[1] \in reach /\ d[2] \in watch[d[1]] /\ Changed(d[2])
    BY <1>3 DEF Valid
  <2>q. ASSUME NEW D, Announce(r, D), g.pc \in {"summary", "single"}
        PROVE  Ahead(run'[r], d) /\ still'[r] = still[r]
    <3>1. d \notin {g.user} \X {c.ticker : c \in D}
      BY <1>5, <2>q DEF Announce, TypeOK
    <3>2. run'[r] = [g EXCEPT !.found = @ \ D, !.sent = @ + 1]
      BY <2>q DEF Announce, Go, TypeOK
    <3>3. d \in User \X Ticker
      BY <2>d DEF TypeOK
    <3>4. d[1] = g.user => \A c \in D : c.ticker # d[2]
      BY <3>1, <3>3
    <3>5. QED
      BY <2>d, <2>q, <3>2, <3>4 DEF Ahead, Announce, Progress
  <2>1. CASE NextUser(r)
    <3>1. PICK u \in g.users :
            run'[r] = [NoRun EXCEPT !.pc = "list", !.users = g.users \ {u}, !.user = u]
      BY <2>1 DEF NextUser, Go, TypeOK
    <3>2. d[1] \in g.users
      BY <2>1, <2>d DEF NextUser, Ahead
    <3>3. QED
      BY <2>1, <3>1, <3>2 DEF NextUser, NoRun, Ahead
  <2>2. CASE ReadList(r)
    <3>1. run'[r] = [g EXCEPT !.pc = "detect", !.todo = watch[g.user]]
      BY <2>2 DEF ReadList, Go, TypeOK
    <3>2. QED
      BY <2>2, <2>d, <2>v, <3>1 DEF ReadList, Ahead, Progress
  <2>3. CASE Detect(r)
    <3> DEFINE rest(t) == [g EXCEPT !.todo = @ \ {t}]
    <3>1. PICK t \in g.todo :
            \/ Changes(t) = {} /\ run'[r] = rest(t)
            \/ \E c \in Changes(t) :
                 run'[r] = IF c.from = c.to THEN rest(t) ELSE [rest(t) EXCEPT !.found = @ \cup {c}]
      BY <2>3 DEF Detect, Go, TypeOK
    <3>2. t \in Ticker /\ g.pc = "detect"
      BY <2>3, <2>d DEF Progress, Detect
    <3>3. run'[r].users = g.users /\ run'[r].user = g.user /\ run'[r].pc = g.pc
          /\ run'[r].todo = g.todo \ {t} /\ g.found \subseteq run'[r].found
      BY <2>d, <3>1 DEF Progress
    <3>4. ASSUME d[2] = t PROVE \E c \in run'[r].found : c.ticker = t
      <4>1. PICK c \in Changes(t) : run'[r] = [rest(t) EXCEPT !.found = @ \cup {c}]
        BY <2>v, <3>1, <3>4 DEF Changed
      <4>2. c \in run'[r].found
        BY <2>d, <4>1 DEF Progress
      <4>3. QED
        BY <3>2, <4>2, ChangeType
    <3>5. QED
      BY <2>3, <2>d, <3>2, <3>3, <3>4 DEF Ahead, Detect
  <2>4. CASE Decide(r)
    <3>1. CASE g.found = {}
      <4>1. run'[r] = [NoRun EXCEPT !.pc = "users", !.users = g.users]
        BY <2>4, <3>1 DEF Decide, OnToNext, Go, TypeOK
      <4>2. d[1] \in g.users
        BY <2>4, <2>d, <3>1 DEF Decide, Found, Ahead
      <4>3. QED
        BY <2>4, <4>1, <4>2 DEF Decide, NoRun, Ahead
    <3>2. CASE g.found # {}
      <4>1. \E m \in {"summary", "single"} : run'[r] = [g EXCEPT !.pc = m]
        BY <2>4, <3>2 DEF Decide, Go, TypeOK
      <4>2. QED
        BY <2>4, <2>d, <4>1 DEF Decide, Found, Ahead, Progress
    <3>3. QED
      BY <3>1, <3>2
  <2>5. CASE SendSummary(r)
    BY <2>5, <2>q DEF SendSummary
  <2>6. CASE SendSingle(r)
    BY <2>6, <2>q DEF SendSingle
  <2>7. CASE UserDone(r)
    <3>1. run'[r] = [NoRun EXCEPT !.pc = "users", !.users = g.users]
      BY <2>7 DEF UserDone, OnToNext, Go, TypeOK
    <3>2. d[1] \in g.users
      BY <2>7, <2>d, <2>v DEF UserDone, Ahead
    <3>3. QED
      BY <2>7, <3>1, <3>2 DEF UserDone, NoRun, Ahead
  <2>8. CASE Finish(r)
    BY <2>8, <2>d DEF Finish, Ahead
  <2>9. CASE AbortRun(r)
    BY <2>9, <1>5 DEF AbortRun, TypeOK
  <2>10. QED
    BY <2>1, <2>2, <2>3, <2>4, <2>5, <2>6, <2>7, <2>8, <2>9 DEF Within
<1>6. QED
  BY <1>1, <1>2, <1>3, <1>4, <1>5 DEF people, Valid
------------------------------------------------------------------------------
(* What is found, and how many messages it takes *)

\* A step that leaves the runs alone, and the predictions of every ticker that
\* is still untouched, keeps NewsTrue.
LEMMA NewsStays ==
  ASSUME TypeOK, NewsTrue, UNCHANGED run,
         \A r \in Run : still'[r] \subseteq still[r] /\ \A t \in still'[r] : pred'[t] = pred[t]
  PROVE  NewsTrue'
<1> SUFFICES ASSUME NEW r \in Run, NEW c \in run[r].found, c.ticker \in still'[r]
             PROVE  Happened(c)'
  BY DEF NewsTrue
<1>1. Happened(c) /\ pred'[c.ticker] = pred[c.ticker]
  BY DEF NewsTrue
<1>2. QED
  BY <1>1, StillHappened

\* Loads, lists and consents keep NewsTrue.
LEMMA AroundNews == TypeOK /\ NewsTrue /\ Around => NewsTrue'
<1> SUFFICES ASSUME TypeOK, NewsTrue, Around PROVE NewsTrue'
  OBVIOUS
<1>1. UNCHANGED run
  BY DEF Around, Load, Watch, Unwatch, Gain, Lose
<1>2. \A r \in Run : still'[r] \subseteq still[r] /\ \A t \in still'[r] : pred'[t] = pred[t]
  BY DEF Around, Load, Watch, Unwatch, Gain, Lose, store, TypeOK
<1>3. QED
  BY <1>1, <1>2, NewsStays

\* The steps with which a run begins with a user, or has done with one, or with
\* all of them, forget what it has found and sent.
Fresh(r) ==
  \/ NextUser(r) \/ UserDone(r) \/ Finish(r) \/ AbortRun(r)
  \/ \E U \in SUBSET User : StartRun(r, U)
  \/ Decide(r) /\ run[r].found = {}

LEMMA FreshStep ==
  ASSUME TypeOK, NEW r \in Run, Fresh(r)
  PROVE  run'[r].found = {} /\ run'[r].sent = 0 /\ run'[r].pc \in {"idle", "users", "list"}
<1>1. CASE NextUser(r)
  BY <1>1 DEF NextUser, Go, NoRun, TypeOK
<1>2. CASE UserDone(r) \/ (Decide(r) /\ run[r].found = {})
  <2>1. OnToNext(r)
    BY <1>2 DEF UserDone, Decide
  <2>2. QED
    BY <2>1 DEF OnToNext, Go, NoRun, TypeOK
<1>3. CASE Finish(r) \/ AbortRun(r)
  BY <1>3 DEF Finish, AbortRun, Go, NoRun, TypeOK
<1>4. ASSUME NEW U \in SUBSET User, StartRun(r, U)
      PROVE  run'[r].found = {} /\ run'[r].sent = 0 /\ run'[r].pc \in {"idle", "users", "list"}
  BY <1>4 DEF StartRun, Go, NoRun, TypeOK
<1>5. QED
  BY <1>1, <1>2, <1>3, <1>4 DEF Fresh

\* What a step of a run, or its start, does to what it has found: nothing, or
\* fewer, or one change that has happened more.
LEMMA FoundStep ==
  ASSUME TypeOK, NEW r \in Run,
         Within(r) \/ \E U \in SUBSET User : StartRun(r, U)
  PROVE  \/ run'[r].found \subseteq run[r].found
         \/ \E c : Happened(c) /\ run'[r].found = run[r].found \cup {c}
<1> DEFINE g == run[r]
<1>g. g \in Progress
  BY DEF TypeOK
<1>q. ASSUME NEW D, Announce(r, D) PROVE run'[r].found \subseteq g.found
  BY <1>q, <1>g DEF Announce, Go, TypeOK, Progress
<1>1. CASE Detect(r)
  <2> DEFINE rest(t) == [g EXCEPT !.todo = @ \ {t}]
  <2>1. PICK t \in g.todo :
          \/ run'[r] = rest(t)
          \/ \E c \in Changes(t) : c.from # c.to /\ run'[r] = [rest(t) EXCEPT !.found = @ \cup {c}]
    BY <1>1 DEF Detect, Go, TypeOK
  <2>2. t \in Ticker
    BY <1>g DEF Progress
  <2>3. CASE run'[r] = rest(t)
    BY <2>3, <1>g DEF Progress
  <2>4. ASSUME NEW c \in Changes(t), c.from # c.to,
               run'[r] = [rest(t) EXCEPT !.found = @ \cup {c}]
        PROVE  Happened(c) /\ run'[r].found = g.found \cup {c}
    <3>1. rest(t).found = g.found /\ run'[r].found = rest(t).found \cup {c}
      BY <2>4, <1>g DEF Progress
    <3>2. QED
      BY <2>2, <2>4, <3>1, ChangeHappened
  <2>5. QED
    BY <2>1, <2>3, <2>4
<1>2. CASE SendSummary(r) \/ SendSingle(r)
  BY <1>2, <1>q DEF SendSummary, SendSingle
<1>3. CASE Fresh(r)
  BY <1>3, FreshStep
<1>4. CASE ReadList(r)
  BY <1>4, <1>g DEF ReadList, Go, TypeOK, Progress
<1>5. CASE Decide(r) /\ g.found # {}
  BY <1>5, <1>g DEF Decide, Go, TypeOK, Progress
<1>6. QED
  BY <1>1, <1>2, <1>3, <1>4, <1>5 DEF Within, Fresh

\* A step of a run, or its start, keeps NewsTrue: no prediction changes, and
\* what is added to what it has found has happened.
LEMMA RunNews ==
  ASSUME TypeOK, NewsTrue, NEW r \in Run,
         Within(r) \/ \E U \in SUBSET User : StartRun(r, U)
  PROVE  NewsTrue'
<1> SUFFICES ASSUME NEW x \in Run, NEW c \in run'[x].found, c.ticker \in still'[x]
             PROVE  Happened(c)'
  BY DEF NewsTrue
<1>1. UNCHANGED store
  BY DEF Within, NextUser, ReadList, Detect, Decide, SendSummary, SendSingle, Announce,
         UserDone, Finish, AbortRun, StartRun
<1>2. Happened(c) => Happened(c)'
  BY <1>1, StillHappened DEF store
<1>3. CASE x # r
  <2>1. run'[x] = run[x] /\ still'[x] = still[x]
    BY <1>3 DEF TypeOK, Within, NextUser, ReadList, Detect, Decide, SendSummary, SendSingle,
                Announce, UserDone, OnToNext, Finish, AbortRun, StartRun, Go
  <2>2. QED
    BY <1>2, <2>1 DEF NewsTrue
<1>4. CASE x = r
  <2>1. CASE Happened(c)
    BY <1>2, <2>1
  <2>2. CASE c \in run[r].found
    <3>1. CASE Fresh(r)
      BY <1>4, <3>1, FreshStep
    <3>2. CASE still' = still
      BY <1>2, <1>4, <2>2, <3>2 DEF NewsTrue
    <3>3. QED
      BY <3>1, <3>2 DEF Fresh, Within, ReadList, Detect, Decide, SendSummary, SendSingle, Announce
  <2>3. QED
    BY <1>4, <2>1, <2>2, FoundStep
<1>5. QED
  BY <1>3, <1>4

\* A step of a run, or its start, keeps its messages within the maximum.
LEMMA RunCap ==
  ASSUME TypeOK, CapAhead, NEW r \in Run,
         Within(r) \/ \E U \in SUBSET User : StartRun(r, U)
  PROVE  CapAhead'
<1> DEFINE g == run[r]
           Cap(h) == /\ IsFiniteSet(h.found)
                     /\ h.pc \in {"idle", "users", "list", "detect"} => h.sent = 0
                     /\ h.pc = "single" => h.sent + Cardinality(h.found) <= MaxMsg
                     /\ h.pc = "summary" =>
                          /\ h.sent <= 1 /\ (h.sent = 1 => h.found = {})
                          /\ h.found = {} \/ Cardinality(h.found) > MaxMsg
<1>g. g \in Progress /\ Cap(g)
  BY DEF TypeOK, CapAhead
<1>x. ASSUME NEW x \in Run, x # r PROVE run'[x] = run[x]
  BY <1>x DEF TypeOK, Within, NextUser, ReadList, Detect, Decide, SendSummary, SendSingle,
              Announce, UserDone, OnToNext, Finish, AbortRun, StartRun, Go
<1>f. IsFiniteSet(run'[r].found)
  <2>1. CASE run'[r].found \subseteq g.found
    BY <2>1, <1>g, FS_Subset
  <2>2. CASE \E c : run'[r].found = g.found \cup {c}
    BY <2>2, <1>g, FS_AddElement
  <2>3. QED
    BY <2>1, <2>2, FoundStep
<1>q. Cap(run'[r])
  <2>1. CASE Detect(r)
    <3> DEFINE rest(t) == [g EXCEPT !.todo = @ \ {t}]
    <3>0. PICK t \in g.todo :
            run'[r] = rest(t) \/ \E c \in Changes(t) : run'[r] = [rest(t) EXCEPT !.found = @ \cup {c}]
      BY <2>1 DEF Detect, Go, TypeOK
    <3>1. run'[r].pc = g.pc /\ run'[r].sent = g.sent
      BY <3>0, <1>g DEF Progress
    <3>2. QED
      BY <2>1, <1>g, <1>f, <3>1 DEF Detect
  <2>2. CASE SendSummary(r)
    <3>1. run'[r].pc = "summary" /\ run'[r].sent = g.sent + 1 /\ run'[r].found = {}
      BY <2>2, <1>g DEF SendSummary, Announce, Go, TypeOK, Progress
    <3>2. g.sent = 0
      BY <2>2, <1>g DEF SendSummary, Progress
    <3>3. QED
      BY <1>f, <3>1, <3>2
  <2>3. CASE SendSingle(r)
    <3>1. PICK c \in g.found : Announce(r, {c})
      BY <2>3 DEF SendSingle
    <3>2. run'[r].pc = "single" /\ run'[r].sent = g.sent + 1 /\ run'[r].found = g.found \ {c}
      BY <2>3, <3>1, <1>g DEF SendSingle, Announce, Go, TypeOK, Progress
    <3> HIDE DEF g
    <3>3. Cardinality(run'[r].found) = Cardinality(g.found) - 1 /\ Cardinality(g.found) \in Nat
      BY <1>g, <3>2, FS_RemoveElement, FS_CardinalityType
    <3>4. g.sent + Cardinality(g.found) <= MaxMsg /\ g.sent \in Nat
      BY <2>3, <1>g DEF SendSingle, Progress, g
    <3>5. run'[r].sent + Cardinality(run'[r].found) <= MaxMsg
      BY <3>2, <3>3, <3>4
    <3>6. QED
      BY <1>f, <3>2, <3>5
  <2>4. CASE Decide(r) /\ g.found # {}
    <3>1. run'[r] = [g EXCEPT !.pc = IF Cardinality(g.found) > MaxMsg THEN "summary" ELSE "single"]
      BY <2>4 DEF Decide, Go, TypeOK
    <3>2. Cardinality(g.found) \in Nat /\ g.sent = 0
      BY <2>4, <1>g, FS_CardinalityType DEF Decide, Found
    <3>3. run'[r].found = g.found /\ run'[r].sent = g.sent
      BY <3>1, <1>g DEF Progress
    <3>4. CASE Cardinality(g.found) > MaxMsg
      <4>1. run'[r].pc = "summary"
        BY <3>1, <3>4, <1>g DEF Progress
      <4>2. QED
        BY <3>2, <3>3, <3>4, <4>1, <1>f
    <3>5. CASE ~(Cardinality(g.found) > MaxMsg)
      <4>1. run'[r].pc = "single"
        BY <3>1, <3>5, <1>g DEF Progress
      <4>2. QED
        BY <3>2, <3>3, <3>5, <4>1, <1>f
    <3>6. QED
      BY <3>4, <3>5
  <2>5. CASE ReadList(r)
    BY <2>5, <1>f, <1>g DEF ReadList, Go, TypeOK, Progress
  <2>6. CASE Fresh(r)
    BY <2>6, <1>f, FreshStep
  <2>7. QED
    BY <2>1, <2>2, <2>3, <2>4, <2>5, <2>6 DEF Within, Fresh
<1>1. QED
  BY <1>x, <1>q DEF CapAhead
------------------------------------------------------------------------------
(* The theorems *)

\* The inductive invariant of Trigger: types, what is due is ahead of its run,
\* what is found has happened, and the messages are within the maximum.
THEOREM TriggerSafety == Spec => []TriggerInv
<1>1. Init => TriggerInv
  <2> SUFFICES ASSUME Init PROVE TriggerInv
    OBVIOUS
  <2>1. TypeOK
    BY TriggerTypeInit
  <2>2. DueAhead /\ NewsTrue
    BY DEF Init, DueAhead, NewsTrue, NoRun
  <2>3. CapAhead
    BY FS_EmptySet DEF Init, CapAhead, NoRun
  <2>4. QED
    BY <2>1, <2>2, <2>3 DEF TriggerInv
<1>2. TriggerInv /\ [Next]_vars => TriggerInv'
  <2> SUFFICES ASSUME TriggerInv, [Next]_vars PROVE TriggerInv'
    OBVIOUS
  <2> USE DEF TriggerInv
  <2>1. CASE Around
    <3>1. UNCHANGED run
      BY <2>1 DEF Around, Load, Watch, Unwatch, Gain, Lose
    <3>2. CapAhead'
      BY <3>1 DEF CapAhead
    <3>3. QED
      BY <2>1, <3>2, AroundType, AroundDue, AroundNews
  <2>2. ASSUME NEW r \in Run, NEW U \in SUBSET User, StartRun(r, U) PROVE TriggerInv'
    BY <2>2, StartType, StartDue, RunNews, RunCap
  <2>3. ASSUME NEW r \in Run, Within(r) PROVE TriggerInv'
    BY <2>3, WithinType, WithinDue, RunNews, RunCap
  <2>4. CASE UNCHANGED vars
    <3>1. UNCHANGED <<pred, grade, loads, watch, reach, run, due, still>>
      BY <2>4 DEF vars, store, people
    <3>2. \A t : Changed(t)' <=> Changed(t)
      BY <3>1, OwnPredictions
    <3>3. DueAhead'
      BY <3>1, <3>2 DEF DueAhead, Valid
    <3>4. NewsTrue'
      BY <3>1, NewsStays
    <3>5. TypeOK' /\ CapAhead'
      BY <3>1 DEF TypeOK, CapAhead
    <3>6. QED
      BY <3>3, <3>4, <3>5
  <2>5. QED
    BY <2>1, <2>2, <2>3, <2>4 DEF Next, Around, Within
<1>3. QED
  BY <1>1, <1>2, PTL DEF Spec

\* run_watchlist_trigger announces every change it has to: at its end, no pair of
\* a user and a ticker is left that was due when it began and has stayed so.
THEOREM RunMissesNothing == Spec => []NothingMissed
<1>1. TriggerInv => NothingMissed
  <2> SUFFICES ASSUME TriggerInv, NEW r \in Run, run[r].pc = "users", run[r].users = {}
               PROVE  due[r] = {}
    BY DEF NothingMissed
  <2>1. \A d \in due[r] : Ahead(run[r], d)
    BY DEF TriggerInv, DueAhead
  <2>2. QED
    BY <2>1 DEF Ahead
<1>2. QED
  BY <1>1, TriggerSafety, PTL

\* What _detect_changes_for_user has found is a change between the last two dates
\* of the ticker, however the database orders horizons of one date, and whatever
\* is loaded meanwhile for other tickers.
THEOREM RunTellsTruth == Spec => []NewsTrue
BY TriggerSafety, PTL DEF TriggerInv

\* _send_user_notifications sends a user at most _MAX_NOTIFICATIONS_PER_USER
\* messages.
THEOREM RunKeepsCap == Spec => []MessageCap
<1>1. TriggerInv => MessageCap
  <2> SUFFICES ASSUME TriggerInv, NEW r \in Run
               PROVE  /\ run[r].sent <= MaxMsg
                      /\ run[r].pc = "summary" => run[r].found = {} \/ Cardinality(run[r].found) > MaxMsg
    BY DEF MessageCap
  <2>1. run[r] \in Progress /\ IsFiniteSet(run[r].found)
    BY DEF TriggerInv, TypeOK, CapAhead
  <2>2. Cardinality(run[r].found) \in Nat /\ run[r].sent \in Nat
    BY <2>1, FS_CardinalityType DEF Progress
  <2>3. QED
    BY <2>1, <2>2 DEF TriggerInv, CapAhead, Progress
<1>2. QED
  BY <1>1, TriggerSafety, PTL
==============================================================================
