--------------------------- MODULE RiskStoreProofs ----------------------------
(***************************************************************************)
(* Proofs about RiskStore, for any tickers, dates and number of requests.  *)
(*                                                                         *)
(* GradeBacked is kept because every load writes the prediction and the    *)
(* grade that points to it in one transaction.  A reader between two       *)
(* statements keeps what it read or is overtaken (AskInv, GenInv).         *)
(***************************************************************************)
EXTENDS RiskStore, TLAPS

\* The empty tables satisfy the invariant.
LEMMA InitStore == Init => StoreInv
BY DEF Init, StoreInv, TypeOK, GradeBacked, VerdictAgrees, StoryFollows, AskInv, GenInv, NoAsk, NoGen

\* The rows a load leaves, with what it overtakes: both endpoints of ingest do
\* this, and differ in the paths and in the features.
LoadOf(S, d, w) ==
  /\ \A t \in S : pred'[t][d] # None /\ pred'[t][d].worst = w[t]
  /\ \A t \in Ticker, e \in Date : t \notin S \/ e # d => pred'[t][e] = pred[t][e]
  /\ GradeRows(S, d, w)
  /\ Overtake(S, d)
  /\ UNCHANGED story

\* A load keeps the invariant's parts that relate the tables.
LEMMA LoadKeeps ==
  ASSUME NEW S \in SUBSET Ticker, NEW d \in Date, NEW w \in [S -> Worst],
         StoreInv, TypeOK', LoadOf(S, d, w)
  PROVE  StoreInv'
<1> USE DEF StoreInv
<1>g. \A t \in Ticker : grade'[t] = IF t \in S THEN [date |-> d, worst |-> w[t]] ELSE grade[t]
  BY DEF LoadOf, GradeRows
<1>n. \A t \in S : w[t] \in Worst
  OBVIOUS
<1>1. GradeBacked'
  <2> SUFFICES ASSUME NEW t \in Ticker, grade'[t] # None
               PROVE  pred'[t][grade'[t].date] # None /\ pred'[t][grade'[t].date].worst = grade'[t].worst
    BY DEF GradeBacked
  <2>1. CASE t \in S
    <3>1. grade'[t] = [date |-> d, worst |-> w[t]]
      BY <2>1, <1>g
    <3>2. grade'[t].date = d /\ grade'[t].worst = w[t]
      BY <3>1
    <3>3. pred'[t][d] # None /\ pred'[t][d].worst = w[t]
      BY <2>1 DEF LoadOf
    <3>4. QED
      BY <3>2, <3>3
  <2>2. CASE t \notin S
    <3>1. grade'[t] = grade[t] /\ grade[t].date \in Date
      BY <2>2, <1>g DEF TypeOK, Snapshot
    <3>2. QED
      BY <2>2, <3>1 DEF LoadOf, GradeBacked
  <2>3. QED
    BY <2>1, <2>2
<1>a. ASSUME NEW r \in Reader
      PROVE  /\ ask'[r].pc = ask[r].pc /\ ask'[r].ticker = ask[r].ticker
             /\ ask'[r].date = ask[r].date /\ ask'[r].worst = ask[r].worst
             /\ ask'[r].shown = ask[r].shown
             /\ ask[r].hit => ask'[r].hit
             /\ ask[r].ticker \in S /\ ask[r].date = d => ask'[r].hit
  <2>1. ask'[r] = IF ask[r].ticker \in S /\ ask[r].date = d
                  THEN [ask[r] EXCEPT !.hit = TRUE] ELSE ask[r]
    BY DEF LoadOf, Overtake
  <2>2. ask[r] \in [pc : {"idle", "graded", "answer"}, ticker : Ticker \cup {None},
                    date : Date \cup {0}, worst : Worst \cup {None},
                    shown : Worst \cup {None}, hit : BOOLEAN]
    BY DEF TypeOK
  <2>3. QED
    BY <2>1, <2>2
<1>2. VerdictAgrees'
  BY <1>a DEF VerdictAgrees
<1>3. AskInv'
  <2> SUFFICES ASSUME NEW r \in Reader, ask'[r].pc = "graded"
               PROVE  LET p == pred'[ask'[r].ticker][ask'[r].date] IN
                      p # None /\ (ask'[r].hit \/ p.worst = ask'[r].worst)
    BY DEF AskInv
  <2> DEFINE t == ask[r].ticker
             e == ask[r].date
  <2>1. ask[r].pc = "graded" /\ t \in Ticker /\ e \in Date
    BY <1>a DEF TypeOK
  <2>2. pred[t][e] # None /\ (ask[r].hit \/ pred[t][e].worst = ask[r].worst)
    BY <2>1 DEF AskInv
  <2>3. CASE t \in S /\ e = d
    BY <1>a, <2>1, <2>3 DEF LoadOf
  <2>4. CASE ~(t \in S /\ e = d)
    BY <1>a, <2>1, <2>2, <2>4 DEF LoadOf
  <2>5. QED
    BY <2>3, <2>4
<1>4. StoryFollows'
  BY <1>g DEF StoryFollows, LoadOf, Overtake
<1>5. GenInv'
  <2> SUFFICES ASSUME NEW b \in Batch, NEW t \in Ticker,
                      gen'[b][t].pc \in {"graded", "asking"}, ~gen'[b][t].hit
               PROVE  grade'[t] = [date |-> gen'[b][t].date, worst |-> gen'[b][t].worst]
    BY DEF GenInv
  <2>1. gen'[b][t] = IF t \in S /\ gen[b][t].pc \in {"graded", "asking"}
                     THEN [gen[b][t] EXCEPT !.hit = TRUE] ELSE gen[b][t]
    BY DEF LoadOf, Overtake
  <2>2. gen[b][t] \in [pc : {"none", "waiting", "graded", "asking", "done"},
                       date : Date \cup {0}, worst : Worst \cup {None}, hit : BOOLEAN]
    BY DEF TypeOK
  <2>3. t \notin S /\ gen'[b][t] = gen[b][t]
    BY <2>1, <2>2
  <2>4. QED
    BY <2>3, <1>g DEF GenInv
<1>6. QED
  BY <1>1, <1>2, <1>3, <1>4, <1>5
------------------------------------------------------------------------------
AskType == [pc : {"idle", "graded", "answer"}, ticker : Ticker \cup {None},
            date : Date \cup {0}, worst : Worst \cup {None},
            shown : Worst \cup {None}, hit : BOOLEAN]
GenType == [pc : {"none", "waiting", "graded", "asking", "done"},
            date : Date \cup {0}, worst : Worst \cup {None}, hit : BOOLEAN]

\* What a load leaves has its type.
LEMMA OvertakeType ==
  ASSUME NEW S \in SUBSET Ticker, NEW d \in Date, NEW w \in [S -> Worst],
         TypeOK, GradeRows(S, d, w), Overtake(S, d)
  PROVE  /\ grade' \in [Ticker -> Snapshot \cup {None}]
         /\ ask' \in [Reader -> AskType]
         /\ gen' \in [Batch -> [Ticker -> GenType]]
         /\ stale' \subseteq Ticker
         /\ \A r \in Reader : ask'[r].pc # "idle" => ask'[r].ticker \in Ticker /\ ask'[r].date \in Date
         /\ \A b \in Batch, t \in Ticker :
              gen'[b][t].pc \in {"graded", "asking"} => gen'[b][t].date \in Date /\ gen'[b][t].worst \in Worst
<1> USE DEF TypeOK, Snapshot, AskType, GenType
<1>1. grade' \in [Ticker -> Snapshot \cup {None}]
  BY DEF GradeRows
<1>2. stale' \subseteq Ticker
  BY DEF Overtake
<1>3. ASSUME NEW r \in Reader
      PROVE  /\ ask'[r] \in AskType
             /\ ask'[r].pc # "idle" => ask'[r].ticker \in Ticker /\ ask'[r].date \in Date
  <2>1. ask'[r] = [ask[r] EXCEPT !.hit = TRUE] \/ ask'[r] = ask[r]
    BY DEF Overtake
  <2>2. ask[r] \in AskType
    OBVIOUS
  <2>3. QED
    BY <2>1, <2>2
<1>4. ASSUME NEW b \in Batch, NEW t \in Ticker
      PROVE  /\ gen'[b][t] \in GenType
             /\ gen'[b][t].pc \in {"graded", "asking"} => gen'[b][t].date \in Date /\ gen'[b][t].worst \in Worst
  <2>1. gen'[b][t] = [gen[b][t] EXCEPT !.hit = TRUE] \/ gen'[b][t] = gen[b][t]
    BY DEF Overtake
  <2>2. gen[b][t] \in GenType
    OBVIOUS
  <2>3. QED
    BY <2>1, <2>2
<1>5. ask' \in [Reader -> AskType]
  BY <1>3 DEF Overtake
<1>6. gen' \in [Batch -> [Ticker -> GenType]]
  BY <1>4 DEF Overtake
<1>7. QED
  BY <1>1, <1>2, <1>3, <1>4, <1>5, <1>6

\* A load of JSON keeps the invariant: it is a LoadOf, well typed.
LEMMA LoadJsonKeeps ==
  ASSUME NEW S \in SUBSET Ticker, NEW d \in Date, NEW w \in [S -> Worst], NEW X \in SUBSET S,
         StoreInv, LoadJson(S, d, w, X)
  PROVE  StoreInv'
<1>1. TypeOK
  BY DEF StoreInv
<1>2. ASSUME NEW t \in Ticker
      PROVE  pred'[t] \in [Date -> Rows \cup {None}]
  <2>1. CASE t \in S
    <3>1. [worst |-> w[t], paths |-> w[t]] \in Rows
      BY <2>1 DEF Rows
    <3>2. pred'[t] = [pred[t] EXCEPT ![d] = [worst |-> w[t], paths |-> w[t]]]
      BY <2>1 DEF LoadJson
    <3>3. QED
      BY <1>1, <3>1, <3>2 DEF TypeOK
  <2>2. CASE t \notin S
    BY <1>1, <2>2 DEF LoadJson, TypeOK
  <2>3. QED
    BY <2>1, <2>2
<1>3. pred' \in [Ticker -> [Date -> Rows \cup {None}]]
  BY <1>2 DEF LoadJson
<1>4. feat' \in [Ticker -> SUBSET Date]
  BY <1>1 DEF LoadJson, TypeOK
<1>5. TypeOK'
  BY <1>1, <1>3, <1>4, OvertakeType DEF LoadJson, TypeOK, AskType, GenType
<1>6. LoadOf(S, d, w)
  <2>1. ASSUME NEW t \in S
        PROVE  pred'[t][d] # None /\ pred'[t][d].worst = w[t]
    <3>1. pred'[t] = [pred[t] EXCEPT ![d] = [worst |-> w[t], paths |-> w[t]]]
      BY DEF LoadJson
    <3>2. pred'[t][d] = [worst |-> w[t], paths |-> w[t]]
      BY <1>1, <3>1 DEF TypeOK
    <3>3. [worst |-> w[t], paths |-> w[t]] # None
      BY NullAssumption
    <3>4. QED
      BY <3>2, <3>3
  <2>2. ASSUME NEW t \in Ticker, NEW e \in Date, t \notin S \/ e # d
        PROVE  pred'[t][e] = pred[t][e]
    BY <1>1, <2>2 DEF LoadJson, TypeOK
  <2>3. QED
    BY <2>1, <2>2 DEF LoadOf, LoadJson
<1>7. QED
  BY <1>5, <1>6, LoadKeeps

\* So does the first transaction of a CSV load, which leaves quantile_paths.
LEMMA LoadCsvKeeps ==
  ASSUME NEW c \in Csv, NEW S \in SUBSET Ticker, NEW d \in Date, NEW w \in [S -> Worst],
         StoreInv, LoadCsv(c, S, d, w)
  PROVE  StoreInv'
<1> DEFINE row(t) == [worst |-> w[t], paths |-> IF pred[t][d] = None THEN None ELSE pred[t][d].paths]
<1>1. TypeOK
  BY DEF StoreInv
<1>2. ASSUME NEW t \in S
      PROVE  /\ row(t) \in Rows /\ row(t) # None /\ row(t).worst = w[t]
             /\ pred'[t] = [pred[t] EXCEPT ![d] = row(t)]
  <2>1. pred[t][d] \in Rows \cup {None}
    BY <1>1 DEF TypeOK
  <2>2. row(t) \in Rows
    BY <2>1 DEF Rows
  <2>3. row(t) # None
    BY <2>2, NullAssumption DEF Rows
  <2>4. pred'[t] = [pred[t] EXCEPT ![d] = row(t)]
    BY <1>1 DEF LoadCsv, TypeOK
  <2>5. row(t).worst = w[t]
    OBVIOUS
  <2>6. QED
    BY <2>2, <2>3, <2>4, <2>5
<1> HIDE DEF row
<1>3. ASSUME NEW t \in Ticker
      PROVE  pred'[t] \in [Date -> Rows \cup {None}]
  <2>1. CASE t \in S
    <3>1. row(t) \in Rows /\ pred'[t] = [pred[t] EXCEPT ![d] = row(t)]
      BY <1>2, <2>1
    <3>2. pred[t] \in [Date -> Rows \cup {None}]
      BY <1>1 DEF TypeOK
    <3>3. QED
      BY <3>1, <3>2
  <2>2. CASE t \notin S
    BY <1>1, <2>2 DEF LoadCsv, TypeOK
  <2>3. QED
    BY <2>1, <2>2
<1>4. pred' \in [Ticker -> [Date -> Rows \cup {None}]]
  BY <1>3 DEF LoadCsv
<1>5. csv' \in [Csv -> [tickers : SUBSET Ticker, date : Date] \cup {None}]
  BY <1>1 DEF LoadCsv, TypeOK
<1>6. TypeOK'
  BY <1>1, <1>4, <1>5, OvertakeType DEF LoadCsv, TypeOK, AskType, GenType
<1>7. LoadOf(S, d, w)
  <2>1. ASSUME NEW t \in S
        PROVE  pred'[t][d] # None /\ pred'[t][d].worst = w[t]
    <3>1. pred'[t] = [pred[t] EXCEPT ![d] = row(t)] /\ row(t) # None /\ row(t).worst = w[t]
      BY <1>2
    <3>2. pred[t] \in [Date -> Rows \cup {None}]
      BY <1>1 DEF TypeOK
    <3>3. QED
      BY <3>1, <3>2
  <2>2. ASSUME NEW t \in Ticker, NEW e \in Date, t \notin S \/ e # d
        PROVE  pred'[t][e] = pred[t][e]
    BY <1>1, <2>2 DEF LoadCsv, TypeOK
  <2>3. QED
    BY <2>1, <2>2 DEF LoadOf, LoadCsv
<1>8. QED
  BY <1>6, <1>7, LoadKeeps
------------------------------------------------------------------------------
\* The two statements of a verdict.
LEMMA VerdictKeeps ==
  ASSUME NEW r \in Reader, StoreInv,
         \/ \E t \in Ticker : VerdictGrade(r, t)
         \/ VerdictPrediction(r)
         \/ VerdictAnswer(r)
  PROVE  StoreInv'
<1>1. TypeOK /\ GradeBacked /\ VerdictAgrees /\ StoryFollows /\ AskInv /\ GenInv
  BY DEF StoreInv
<1>2. UNCHANGED <<pred, grade, feat, story, csv, gen, stale>>
  BY DEF VerdictGrade, VerdictPrediction, VerdictAnswer
<1>3. /\ \A q \in Reader \ {r} : ask'[q] = ask[q]
      /\ ask' \in [Reader -> AskType]
      /\ ask'[r].pc # "idle" => ask'[r].ticker \in Ticker /\ ask'[r].date \in Date
      /\ ask'[r].pc = "graded" =>
           LET p == pred[ask'[r].ticker][ask'[r].date] IN p # None /\ p.worst = ask'[r].worst
      /\ ask'[r].pc = "answer" => ask'[r].hit \/ ask'[r].shown = ask'[r].worst
  <2>1. CASE \E t \in Ticker : VerdictGrade(r, t)
    <3> PICK t \in Ticker : VerdictGrade(r, t)
      BY <2>1
    <3>1. grade[t] \in Snapshot
      BY <1>1 DEF VerdictGrade, TypeOK
    <3>2. ask' = [ask EXCEPT ![r] = [pc |-> "graded", ticker |-> t, date |-> grade[t].date,
                                     worst |-> grade[t].worst, shown |-> None, hit |-> FALSE]]
      BY DEF VerdictGrade
    <3>3. pred[t][grade[t].date] # None /\ pred[t][grade[t].date].worst = grade[t].worst
      BY <1>1 DEF VerdictGrade, GradeBacked
    <3>4. ask \in [Reader -> AskType]
      BY <1>1 DEF TypeOK, AskType
    <3>5. QED
      BY <3>1, <3>2, <3>3, <3>4 DEF Snapshot, AskType
  <2>2. CASE VerdictPrediction(r)
    <3> DEFINE p == pred[ask[r].ticker][ask[r].date]
    <3>1. ask[r] \in AskType /\ ask[r].pc = "graded" /\ ask[r].ticker \in Ticker /\ ask[r].date \in Date
      BY <1>1, <2>2 DEF VerdictPrediction, TypeOK, AskType
    <3>2. p \in Rows /\ (ask[r].hit \/ p.worst = ask[r].worst)
      BY <1>1, <3>1 DEF AskInv, TypeOK
    <3>3. p.worst \in Worst
      BY <3>2 DEF Rows
    <3>4. ask' = [ask EXCEPT ![r].pc = "answer", ![r].shown = p.worst]
      BY <2>2 DEF VerdictPrediction
    <3>5. ask \in [Reader -> AskType]
      BY <1>1 DEF TypeOK, AskType
    <3> HIDE DEF p
    <3>6. QED
      BY <3>1, <3>2, <3>3, <3>4, <3>5 DEF AskType
  <2>3. CASE VerdictAnswer(r)
    <3>1. ask' = [ask EXCEPT ![r] = NoAsk]
      BY <2>3 DEF VerdictAnswer
    <3>2. ask \in [Reader -> AskType]
      BY <1>1 DEF TypeOK, AskType
    <3>3. QED
      BY <3>1, <3>2 DEF AskType, NoAsk
  <2>4. QED
    BY <2>1, <2>2, <2>3
<1>4. TypeOK'
  BY <1>1, <1>2, <1>3 DEF TypeOK, AskType
<1>5. VerdictAgrees'
  BY <1>1, <1>3 DEF VerdictAgrees
<1>6. AskInv'
  BY <1>1, <1>2, <1>3 DEF AskInv
<1>7. GradeBacked' /\ StoryFollows' /\ GenInv'
  BY <1>1, <1>2 DEF GradeBacked, StoryFollows, GenInv
<1>8. QED
  BY <1>4, <1>5, <1>6, <1>7 DEF StoreInv

\* The steps of a run of the texts.
LEMMA RunKeeps ==
  ASSUME NEW b \in Batch, StoreInv,
         \/ \E T \in SUBSET Ticker : StartBatch(b, T)
         \/ EndBatch(b)
         \/ \E t \in Ticker : GenGrade(b, t) \/ GenFeatures(b, t) \/ GenStore(b, t) \/ GenCrash(b, t)
  PROVE  StoreInv'
<1>1. TypeOK /\ GradeBacked /\ VerdictAgrees /\ StoryFollows /\ AskInv /\ GenInv
  BY DEF StoreInv
<1>t. \A a \in Batch, t \in Ticker : gen[a][t] \in GenType
  BY <1>1 DEF TypeOK, GenType
<1>f. gen \in [Batch -> [Ticker -> GenType]]
  BY <1>1 DEF TypeOK, GenType
<1>d. NoGen \in GenType /\ Done \in GenType /\ [NoGen EXCEPT !.pc = "waiting"] \in GenType
      /\ NoGen.pc = "none" /\ Done.pc = "done"
  BY DEF GenType, NoGen, Done
<1>2. UNCHANGED <<pred, grade, feat, csv, ask>>
  BY DEF StartBatch, EndBatch, GenGrade, GenFeatures, GenStore, GenCrash
\* What a step may do to one generation: end it, start it, or go on with the grade.
<1> DEFINE Going ==
      /\ gen' \in [Batch -> [Ticker -> GenType]]
      /\ \A a \in Batch, t \in Ticker : gen'[a][t].pc \in {"graded", "asking"} =>
           \/ gen[a][t].pc \in {"graded", "asking"} /\ gen'[a][t].date = gen[a][t].date
              /\ gen'[a][t].worst = gen[a][t].worst /\ gen'[a][t].hit = gen[a][t].hit
           \/ grade[t] # None /\ gen'[a][t].date = grade[t].date /\ gen'[a][t].worst = grade[t].worst
<1>3. Going
  <2>1. ASSUME NEW T \in SUBSET Ticker, StartBatch(b, T)
        PROVE  Going
    <3> DEFINE new == [t \in Ticker |-> IF t \in T THEN [NoGen EXCEPT !.pc = "waiting"] ELSE NoGen]
    <3>1. gen' = [gen EXCEPT ![b] = new]
      BY <2>1 DEF StartBatch
    <3>2. new \in [Ticker -> GenType] /\ \A t \in Ticker : new[t].pc \notin {"graded", "asking"}
      BY <1>d DEF NoGen
    <3> HIDE DEF new
    <3>3. QED
      BY <1>f, <3>1, <3>2
  <2>2. CASE EndBatch(b)
    <3> DEFINE new == [t \in Ticker |-> NoGen]
    <3>1. gen' = [gen EXCEPT ![b] = new]
      BY <2>2 DEF EndBatch
    <3>2. new \in [Ticker -> GenType] /\ \A t \in Ticker : new[t].pc \notin {"graded", "asking"}
      BY <1>d
    <3> HIDE DEF new
    <3>3. QED
      BY <1>f, <3>1, <3>2
  <2>3. ASSUME NEW t \in Ticker, GenGrade(b, t)
        PROVE  Going
    <3> DEFINE new == [pc |-> "graded", date |-> grade[t].date, worst |-> grade[t].worst, hit |-> FALSE]
    <3>1. CASE grade[t] = None
      <4>1. gen' = [gen EXCEPT ![b][t] = Done]
        BY <2>3, <3>1 DEF GenGrade, Step
      <4>2. QED
        BY <1>f, <1>d, <4>1
    <3>2. CASE grade[t] # None
      <4>1. gen' = [gen EXCEPT ![b][t] = new]
        BY <2>3, <3>2 DEF GenGrade, Step
      <4>2. new \in GenType /\ new.date = grade[t].date /\ new.worst = grade[t].worst
        BY <1>1, <3>2 DEF GenType, TypeOK, Snapshot
      <4> HIDE DEF new
      <4>3. QED
        BY <1>f, <3>2, <4>1, <4>2
    <3>3. QED
      BY <3>1, <3>2
  <2>4. ASSUME NEW t \in Ticker, GenFeatures(b, t)
        PROVE  Going
    <3> DEFINE new == IF gen[b][t].date \in feat[t] THEN [gen[b][t] EXCEPT !.pc = "asking"] ELSE Done
    <3>1. gen' = [gen EXCEPT ![b][t] = new] /\ gen[b][t].pc = "graded"
      BY <2>4 DEF GenFeatures, Step
    <3>2. /\ new \in GenType
          /\ new.pc \in {"graded", "asking"} =>
               new.date = gen[b][t].date /\ new.worst = gen[b][t].worst /\ new.hit = gen[b][t].hit
      BY <1>t, <1>d DEF GenType
    <3> HIDE DEF new
    <3>3. QED
      BY <1>f, <3>1, <3>2
  <2>5. ASSUME NEW t \in Ticker, GenStore(b, t) \/ GenCrash(b, t)
        PROVE  Going
    <3>1. gen' = [gen EXCEPT ![b][t] = Done]
      BY <2>5 DEF GenStore, GenCrash, Step
    <3>2. QED
      BY <1>f, <1>d, <3>1
  <2>6. QED
    BY <2>1, <2>2, <2>3, <2>4, <2>5
<1> DEFINE Told ==
      /\ story' \in [Ticker -> Snapshot \cup {None}] /\ stale' \subseteq Ticker
      /\ StoryFollows'
<1>4. Told
  <2>1. ASSUME NEW t \in Ticker, GenStore(b, t)
        PROVE  Told
    <3> DEFINE new == [date |-> gen[b][t].date, worst |-> gen[b][t].worst]
    <3>1. new \in Snapshot
      BY <1>1, <2>1 DEF GenStore, TypeOK, Snapshot
    <3>2. gen[b][t].hit \/ grade[t] = new
      BY <1>1, <2>1 DEF GenStore, GenInv
    <3>3. story' = [story EXCEPT ![t] = new]
          /\ stale' = IF gen[b][t].hit THEN stale \cup {t} ELSE stale \ {t}
      BY <2>1 DEF GenStore
    <3> HIDE DEF new
    <3>4. story' \in [Ticker -> Snapshot \cup {None}] /\ stale' \subseteq Ticker
      BY <1>1, <3>1, <3>3 DEF TypeOK
    <3>5. ASSUME NEW u \in Ticker, u # t, story'[u] # None, u \notin stale'
          PROVE  story'[u] = grade'[u]
      BY <1>1, <1>2, <3>3, <3>5 DEF StoryFollows, TypeOK
    <3>6. ASSUME t \notin stale'
          PROVE  story'[t] = grade'[t]
      BY <1>1, <1>2, <3>2, <3>3, <3>6 DEF TypeOK
    <3>7. QED
      BY <3>4, <3>5, <3>6 DEF StoryFollows
  <2>2. CASE UNCHANGED <<story, stale>>
    BY <1>1, <1>2, <2>2 DEF StoryFollows, TypeOK
  <2>3. QED
    BY <2>1, <2>2 DEF StartBatch, EndBatch, GenGrade, GenFeatures, GenCrash
<1>5. TypeOK'
  <2>1. ASSUME NEW a \in Batch, NEW t \in Ticker, gen'[a][t].pc \in {"graded", "asking"}
        PROVE  gen'[a][t].date \in Date /\ gen'[a][t].worst \in Worst
    <3>1. grade[t] # None => grade[t].date \in Date /\ grade[t].worst \in Worst
      BY <1>1 DEF TypeOK, Snapshot
    <3>2. QED
      BY <1>1, <1>3, <2>1, <3>1 DEF TypeOK
  <2>2. QED
    BY <1>1, <1>2, <1>3, <1>4, <2>1 DEF TypeOK, GenType
<1>6. GenInv'
  <2> SUFFICES ASSUME NEW a \in Batch, NEW t \in Ticker,
                      gen'[a][t].pc \in {"graded", "asking"}, ~gen'[a][t].hit
               PROVE  grade[t] = [date |-> gen'[a][t].date, worst |-> gen'[a][t].worst]
    BY <1>2 DEF GenInv
  <2>1. grade[t] # None => grade[t] = [date |-> grade[t].date, worst |-> grade[t].worst]
    BY <1>1 DEF TypeOK, Snapshot
  <2>2. QED
    BY <1>1, <1>3, <2>1 DEF GenInv
<1>7. GradeBacked' /\ VerdictAgrees' /\ AskInv'
  BY <1>1, <1>2 DEF GradeBacked, VerdictAgrees, AskInv
<1>8. QED
  BY <1>4, <1>5, <1>6, <1>7 DEF StoreInv

\* So does its second transaction, which writes explanations only.
LEMMA FeaturesKeep ==
  ASSUME NEW c \in Csv, NEW X \in SUBSET Ticker, StoreInv, LoadFeatures(c, X)
  PROVE  StoreInv'
<1>1. csv[c].tickers \subseteq Ticker /\ csv[c].date \in Date
  BY DEF StoreInv, TypeOK, LoadFeatures
<1>2. feat' \in [Ticker -> SUBSET Date]
  BY <1>1 DEF StoreInv, TypeOK, LoadFeatures
<1>3. csv' \in [Csv -> [tickers : SUBSET Ticker, date : Date] \cup {None}]
  BY DEF StoreInv, TypeOK, LoadFeatures
<1>4. TypeOK'
  BY <1>2, <1>3 DEF StoreInv, TypeOK, LoadFeatures
<1>5. QED
  BY <1>4 DEF StoreInv, LoadFeatures, GradeBacked, VerdictAgrees, StoryFollows, AskInv, GenInv
------------------------------------------------------------------------------
\* The invariant behind what follows holds in every state.
THEOREM StoreInvariant == Spec => []StoreInv
<1>1. StoreInv /\ [Next]_vars => StoreInv'
  <2> SUFFICES ASSUME StoreInv, [Next]_vars PROVE StoreInv'
    OBVIOUS
  <2>1. ASSUME NEW S \in SUBSET Ticker, NEW d \in Date, NEW w \in [S -> Worst],
               \/ \E X \in SUBSET S : LoadJson(S, d, w, X)
               \/ \E c \in Csv : LoadCsv(c, S, d, w)
        PROVE  StoreInv'
    BY <2>1, LoadJsonKeeps, LoadCsvKeeps
  <2>2. ASSUME NEW c \in Csv, NEW X \in SUBSET Ticker, LoadFeatures(c, X)
        PROVE  StoreInv'
    BY <2>2, FeaturesKeep
  <2>3. ASSUME NEW r \in Reader,
               \/ \E t \in Ticker : VerdictGrade(r, t)
               \/ VerdictPrediction(r)
               \/ VerdictAnswer(r)
        PROVE  StoreInv'
    BY <2>3, VerdictKeeps
  <2>4. ASSUME NEW b \in Batch,
               \/ \E T \in SUBSET Ticker : StartBatch(b, T)
               \/ EndBatch(b)
               \/ \E t \in Ticker : GenGrade(b, t) \/ GenFeatures(b, t) \/ GenStore(b, t) \/ GenCrash(b, t)
        PROVE  StoreInv'
    BY <2>4, RunKeeps
  <2>5. CASE UNCHANGED vars
    BY <2>5 DEF vars, StoreInv, TypeOK, GradeBacked, VerdictAgrees, StoryFollows, AskInv, GenInv
  <2>6. QED
    BY <2>1, <2>2, <2>3, <2>4, <2>5 DEF Next
<1>2. QED
  BY <1>1, InitStore, PTL DEF Spec

\* For any loads in any order, a grade is backed by its prediction
\* (ingest_predictions_from_json and _from_csv).
THEOREM GradesAreBacked == Spec => []GradeBacked
<1>1. StoreInv => GradeBacked
  BY DEF StoreInv
<1>2. QED
  BY <1>1, StoreInvariant, PTL

\* A verdict shows one run of the model, unless its prediction was loaded anew
\* while it was read (get_verdict).
THEOREM VerdictsAgree == Spec => []VerdictAgrees
<1>1. StoreInv => VerdictAgrees
  BY DEF StoreInv
<1>2. QED
  BY <1>1, StoreInvariant, PTL

\* A text stored by a run that no load overtook tells of the grade
\* (generate_for_ticker), for any number of runs that race for the row.
THEOREM StoriesFollow == Spec => []StoryFollows
<1>1. StoreInv => StoryFollows
  BY DEF StoreInv
<1>2. QED
  BY <1>1, StoreInvariant, PTL
------------------------------------------------------------------------------
\* A load by JSON leaves no row it writes apart from its paths.
LEMMA JsonMends ==
  ASSUME TypeOK, NEW S \in SUBSET Ticker, NEW d \in Date, NEW w \in [S -> Worst],
         NEW X \in SUBSET S, LoadJson(S, d, w, X),
         NEW t \in Ticker, NEW e \in Date, Part(t, e)'
  PROVE  pred'[t][e] = pred[t][e]
<1>1. pred'[t] = IF t \in S THEN [pred[t] EXCEPT ![d] = [worst |-> w[t], paths |-> w[t]]] ELSE pred[t]
  BY DEF LoadJson
<1>2. pred[t] \in [Date -> Rows \cup {None}]
  BY DEF TypeOK
<1>3. CASE t \in S /\ e = d
  <2>1. pred'[t][e] = [worst |-> w[t], paths |-> w[t]]
    BY <1>1, <1>2, <1>3
  <2>2. QED
    BY <2>1 DEF Part
<1>4. QED
  BY <1>1, <1>2, <1>3

\* A load by CSV leaves apart only what it loads, and is the load of its slot.
LEMMA CsvParts ==
  ASSUME TypeOK, NEW S \in SUBSET Ticker, NEW d \in Date, NEW w \in [S -> Worst],
         NEW c \in Csv, LoadCsv(c, S, d, w), NEW t \in Ticker, NEW e \in Date
  PROVE  \/ pred'[t][e] = pred[t][e]
         \/ csv[c] = None /\ csv'[c] # None /\ t \in csv'[c].tickers /\ csv'[c].date = e
<1>1. csv'[c] = [tickers |-> S, date |-> d] /\ csv[c] = None
  BY DEF LoadCsv, TypeOK
<1>2. csv'[c] # None
  BY <1>1, NullAssumption
<1>3. CASE t \in S /\ e = d
  BY <1>1, <1>2, <1>3
<1>4. CASE ~(t \in S /\ e = d)
  BY <1>4 DEF LoadCsv, TypeOK
<1>5. QED
  BY <1>3, <1>4

\* The cached paths of a prediction part from its quantile_paths only where a CSV load writes
\* them (ingest_predictions_from_csv), for any loads in any order.
THEOREM OnlyCsvParts == Spec => PathsPart
<1> DEFINE Allowed(t, d) ==
      \/ pred'[t][d] = pred[t][d]
      \/ \E c \in Csv : /\ csv[c] = None /\ csv'[c] # None
                       /\ t \in csv'[c].tickers /\ csv'[c].date = d
<1>1. StoreInv /\ [Next]_vars => [\A t \in Ticker, d \in Date : Part(t, d)' => Allowed(t, d)]_vars
  <2> SUFFICES ASSUME StoreInv, Next, NEW t \in Ticker, NEW e \in Date, Part(t, e)'
               PROVE  Allowed(t, e)
    OBVIOUS
  <2>1. TypeOK
    BY DEF StoreInv
  <2>2. ASSUME NEW S \in SUBSET Ticker, NEW d \in Date, NEW w \in [S -> Worst], NEW X \in SUBSET S,
               LoadJson(S, d, w, X)
        PROVE  Allowed(t, e)
    BY <2>1, <2>2, JsonMends
  <2>3. ASSUME NEW S \in SUBSET Ticker, NEW d \in Date, NEW w \in [S -> Worst], NEW c \in Csv,
               LoadCsv(c, S, d, w)
        PROVE  Allowed(t, e)
    BY <2>1, <2>3, CsvParts
  <2>4. CASE UNCHANGED pred
    BY <2>4
  <2> HIDE DEF Allowed
  <2>5. QED
    BY <2>2, <2>3, <2>4 DEF Next, LoadFeatures, VerdictGrade, VerdictPrediction, VerdictAnswer,
       StartBatch, EndBatch, GenGrade, GenFeatures, GenStore, GenCrash
<1>2. QED
  BY <1>1, StoreInvariant, PTL DEF PathsPart, Spec
==============================================================================
