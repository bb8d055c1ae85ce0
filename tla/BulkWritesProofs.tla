--------------------------- MODULE BulkWritesProofs ---------------------------
(***************************************************************************)
(* Proofs about BulkWrites, for any numbers of symbols, dates, series and  *)
(* requests.                                                               *)
(*                                                                         *)
(* Deadlocks.  A request that waits for a grade holds the prediction of    *)
(* that ticker, and so does the request that holds the grade: of one date  *)
(* they exclude each other.  All other rows come in the order of Less, so  *)
(* along a chain of waits the wanted rows ascend, and no circle closes     *)
(* (NoCircle).                                                             *)
(*                                                                         *)
(* Loads.  Nothing is visible of a transaction before its COMMIT, so that  *)
(* a load is one step of AtomicLoads; what each transaction holds is read  *)
(* off the plans (JsonPlan, CsvPlan).                                      *)
(***************************************************************************)
EXTENDS BulkWrites, SequenceTheorems, WellFoundedInduction, NaturalsInduction, TLAPS

\* A bounded nonempty set of numbers has a greatest element.
LEMMA Greatest ==
  ASSUME NEW N \in Nat, NEW S \in SUBSET (0 .. N), S # {}
  PROVE  \E m \in S : \A x \in S : x <= m
<1> DEFINE T == {y \in 0 .. N : N - y \in S}
<1>1. PICK x0 \in S : TRUE
  OBVIOUS
<1>2. N - x0 \in T /\ T \subseteq Nat
  OBVIOUS
<1>3. IsWellFoundedOn(OpToRel(<, Nat), Nat)
  BY NatLessThanWellFounded
<1>4. PICK y \in T : \A z \in T : ~ (<<z, y>> \in OpToRel(<, Nat))
  BY <1>2, <1>3, WFMin
<1>5. ASSUME NEW x \in S
      PROVE  x <= N - y
  <2>1. N - x \in T /\ N - x \in Nat /\ y \in Nat
    OBVIOUS
  <2>2. CASE N - x < y
    <3>1. <<N - x, y>> \in OpToRel(<, Nat)
      BY <2>1, <2>2 DEF OpToRel
    <3> QED
      BY <3>1, <2>1, <1>4
  <2>3. CASE ~ (N - x < y)
    BY <2>1, <2>3
  <2> QED
    BY <2>2, <2>3
<1> QED
  BY <1>5

\* A function on 1 .. k is a sequence of length k.
LEMMA FunctionIsList ==
  ASSUME NEW k \in Nat, NEW S, NEW s \in [1 .. k -> S]
  PROVE  s \in Seq(S) /\ Len(s) = k /\ DOMAIN s = 1 .. k
<1>1. s \in Seq(S)
  OBVIOUS
<1>2. DOMAIN s = 1 .. Len(s) /\ Len(s) \in Nat
  BY <1>1, LenProperties
<1> QED
  BY <1>1, <1>2

\* A list has a length and its members are in the set.
LEMMA ListFacts ==
  ASSUME NEW S, NEW n \in Nat, NEW s \in Lists(S, n)
  PROVE  Len(s) \in Nat /\ DOMAIN s = 1 .. Len(s) /\ \A i \in 1 .. Len(s) : s[i] \in S
<1>1. PICK k \in 0 .. n : s \in [1 .. k -> S]
  BY DEF Lists
<1>2. Len(s) = k /\ DOMAIN s = 1 .. k
  BY <1>1, FunctionIsList
<1> QED
  BY <1>1, <1>2
------------------------------------------------------------------------------
(* The order of rows *)

Major(r) == IF r[1] = "pred" THEN 1 ELSE IF r[1] = "xai" THEN 2 ELSE IF r[1] = "ticker" THEN 0 ELSE r[2]

Minor(r) == IF r[1] \in {"pred", "xai", "ticker"} THEN r[2] ELSE r[3]

\* The order in which rows other than grades are taken.
Less(r, s) == Major(r) < Major(s) \/ (Major(r) = Major(s) /\ Minor(r) < Minor(s))

Bound == NTicker + NDay + NCode + 2

\* The places of the rows are bounded numbers.
LEMMA PlacesBounded ==
  ASSUME NEW r \in Row
  PROVE  Major(r) \in 0 .. Bound /\ Minor(r) \in 0 .. Bound
BY BulkNumbers DEF Row, Ticker, Day, Code, Major, Minor, Bound

\* No circle: a nonempty set of requests, each of which wants a row below the
\* row that another of them wants, does not exist.
LEMMA NoCircle ==
  ASSUME NEW D, D # {}, NEW w \in [D -> Row],
         \A j \in D : \E h \in D : Less(w[j], w[h])
  PROVE  FALSE
<1> DEFINE A == {Major(w[j]) : j \in D}
<1>b. Bound \in Nat
  BY BulkNumbers DEF Bound
<1>w. \A j \in D : Major(w[j]) \in 0 .. Bound /\ Minor(w[j]) \in 0 .. Bound
  BY PlacesBounded
<1>1. A \in SUBSET (0 .. Bound) /\ A # {}
  BY <1>w
<1>2. PICK a \in A : \A x \in A : x <= a
  BY <1>1, <1>b, Greatest
<1> DEFINE B == {Minor(w[j]) : j \in {i \in D : Major(w[i]) = a}}
<1>3. B \in SUBSET (0 .. Bound) /\ B # {}
  BY <1>w
<1>4. PICK b \in B : \A x \in B : x <= b
  BY <1>3, <1>b, Greatest
<1>5. PICK j \in D : Major(w[j]) = a /\ Minor(w[j]) = b
  OBVIOUS
<1>6. PICK h \in D : Less(w[j], w[h])
  OBVIOUS
<1>7. Major(w[h]) <= a /\ (Major(w[h]) = a => Minor(w[h]) <= b)
  BY <1>2, <1>4
<1>8. a \in 0 .. Bound /\ b \in 0 .. Bound
  BY <1>1, <1>3
<1> QED
  BY <1>5, <1>6, <1>7, <1>8, <1>w, <1>b DEF Less
------------------------------------------------------------------------------
(* The shape of transactions *)

\* A transaction's rows: a sequence of rows of the tables.
RowSeq(R) == Len(R) \in Nat /\ DOMAIN R = 1 .. Len(R) /\ \A p \in 1 .. Len(R) : R[p] \in Row

\* A sync takes its rows in order, and none of those a load writes.
SyncShape(R) ==
  /\ RowSeq(R)
  /\ \A p \in 1 .. Len(R) : R[p][1] \notin {"pred", "grade", "xai"}
  /\ \A p, q \in 1 .. Len(R) : p < q => Less(R[p], R[q])

\* A load of date d takes the prediction of a ticker before its grade, both or none.
LoadShape(R, d) ==
  /\ RowSeq(R)
  /\ \A p \in 1 .. Len(R) : R[p][1] \in {"pred", "grade", "xai"}
  /\ \A q \in 1 .. Len(R), t \in Ticker :
       R[q] = <<"grade", t, 0>> => \E p \in 1 .. Len(R) : p < q /\ R[p] = <<"pred", t, d>>
  /\ \A q \in 1 .. Len(R), t \in Ticker, e \in Day :
       R[q] = <<"pred", t, e>> => e = d /\ \E p \in 1 .. Len(R) : R[p] = <<"grade", t, 0>>

\* The rows other than grades are in order.
InOrder(R) ==
  \A p, q \in 1 .. Len(R) : p < q /\ R[p][1] # "grade" /\ R[q][1] # "grade" => Less(R[p], R[q])

\* Prices are taken in order.
LEMMA PriceShape ==
  ASSUME NEW plan \in PricePlans, NEW k \in DOMAIN plan
  PROVE  SyncShape(plan[k])
<1> DEFINE N == NTicker * NDay
<1>1. N \in Nat
  BY BulkNumbers
<1>2. PICK s \in Lists(Ticker \X Day, N) :
        /\ plan = <<[i \in DOMAIN s |-> <<"price", s[i][1], s[i][2]>>]>>
        /\ \A i, j \in DOMAIN s : i < j =>
             s[i][1] < s[j][1] \/ (s[i][1] = s[j][1] /\ s[i][2] < s[j][2])
  BY DEF PricePlans, Prices
<1> DEFINE R == [i \in DOMAIN s |-> <<"price", s[i][1], s[i][2]>>]
<1>3. plan[k] = R
  BY <1>2
<1>4. Len(s) \in Nat /\ DOMAIN s = 1 .. Len(s) /\ \A i \in 1 .. Len(s) : s[i] \in Ticker \X Day
  <2> HIDE DEF N
  <2> QED
    BY <1>1, <1>2, ListFacts
<1>5. \A i \in 1 .. Len(s) : R[i] \in Row /\ R[i] = <<"price", s[i][1], s[i][2]>>
  BY <1>4 DEF Row
<1>6. Len(R) = Len(s) /\ DOMAIN R = 1 .. Len(s)
  <2>1. R \in [1 .. Len(s) -> Row]
    BY <1>4, <1>5
  <2> HIDE DEF R
  <2> QED
    BY <1>4, <2>1, FunctionIsList
<1>7. \A p, q \in 1 .. Len(s) : p < q => Less(R[p], R[q])
  BY <1>2, <1>4, <1>5 DEF Less, Major, Minor
<1> HIDE DEF R
<1> QED
  BY <1>3, <1>4, <1>5, <1>6, <1>7 DEF SyncShape, RowSeq

\* The dates of a series are taken in order.
LEMMA MacroShape ==
  ASSUME NEW plan \in MacroPlans, NEW k \in DOMAIN plan
  PROVE  SyncShape(plan[k])
<1>1. PICK f \in [Code -> {s \in Lists(Day, NDay) : Ascending(s)}] :
        plan = [c \in Code |-> [i \in DOMAIN f[c] |-> <<"macro", c, f[c][i]>>]]
  BY DEF MacroPlans, Observations
<1>2. k \in Code
  BY <1>1
<1> DEFINE s == f[k]
           R == [i \in DOMAIN s |-> <<"macro", k, s[i]>>]
<1>3. plan[k] = R
  BY <1>1, <1>2
<1>4. s \in Lists(Day, NDay) /\ Ascending(s)
  BY <1>2
<1> HIDE DEF s
<1>5. Len(s) \in Nat /\ DOMAIN s = 1 .. Len(s) /\ \A i \in 1 .. Len(s) : s[i] \in Day
  BY <1>4, BulkNumbers, ListFacts
<1>6. \A i \in 1 .. Len(s) : R[i] \in Row /\ R[i] = <<"macro", k, s[i]>>
  BY <1>2, <1>5 DEF Row
<1>7. Len(R) = Len(s) /\ DOMAIN R = 1 .. Len(s)
  <2>1. R \in [1 .. Len(s) -> Row]
    BY <1>5, <1>6
  <2> HIDE DEF R
  <2> QED
    BY <1>5, <2>1, FunctionIsList
<1>8. \A p, q \in 1 .. Len(s) : p < q => Less(R[p], R[q])
  BY <1>4, <1>5, <1>6 DEF Ascending, Less, Major, Minor
<1> HIDE DEF R
<1> QED
  BY <1>3, <1>5, <1>6, <1>7, <1>8 DEF SyncShape, RowSeq

\* Symbols are taken in order.
LEMMA TickerShape ==
  ASSUME NEW plan \in TickerPlans, NEW k \in DOMAIN plan
  PROVE  SyncShape(plan[k])
<1>1. PICK s \in Lists(Ticker, NTicker) :
        Ascending(s) /\ plan = <<[i \in DOMAIN s |-> <<"ticker", s[i], 0>>]>>
  BY DEF TickerPlans, Known
<1> DEFINE R == [i \in DOMAIN s |-> <<"ticker", s[i], 0>>]
<1>2. plan[k] = R
  BY <1>1
<1>3. Len(s) \in Nat /\ DOMAIN s = 1 .. Len(s) /\ \A i \in 1 .. Len(s) : s[i] \in Ticker
  BY <1>1, BulkNumbers, ListFacts
<1>4. \A i \in 1 .. Len(s) : R[i] \in Row /\ R[i] = <<"ticker", s[i], 0>>
  BY <1>3 DEF Row
<1>5. Len(R) = Len(s) /\ DOMAIN R = 1 .. Len(s)
  <2>1. R \in [1 .. Len(s) -> Row]
    BY <1>3, <1>4
  <2> HIDE DEF R
  <2> QED
    BY <1>3, <2>1, FunctionIsList
<1>6. \A p, q \in 1 .. Len(s) : p < q => Less(R[p], R[q])
  BY <1>1, <1>3, <1>4 DEF Ascending, Less, Major, Minor
<1> HIDE DEF R
<1> QED
  BY <1>2, <1>3, <1>4, <1>5, <1>6 DEF SyncShape, RowSeq

\* The parts of a load.
LEMMA LoadFacts ==
  ASSUME NEW l \in Loads
  PROVE  /\ l.date \in Day
         /\ Len(l.items) \in Nat /\ DOMAIN l.items = 1 .. Len(l.items)
         /\ \A i \in 1 .. Len(l.items) : l.items[i] \in Ticker
         /\ Len(l.ranks) = Len(l.items) /\ DOMAIN l.ranks = 1 .. Len(l.items)
         /\ \A i \in 1 .. Len(l.items) : l.ranks[i] \in Ticker
         /\ \A i \in 1 .. Len(l.items) : \E p \in 1 .. Len(l.items) : l.ranks[i] = l.items[p]
         /\ \A p \in 1 .. Len(l.items) : \E i \in 1 .. Len(l.items) : l.ranks[i] = l.items[p]
         /\ Len(l.story) \in Nat /\ DOMAIN l.story = 1 .. Len(l.story)
         /\ \A i \in 1 .. Len(l.story) : l.story[i] \in Ticker
<1>1. l.date \in Day /\ l.items \in Lists(Ticker, NTicker) /\ l.ranks \in Lists(Ticker, NTicker)
      /\ l.story \in Lists(Ticker, NTicker) /\ Len(l.ranks) = Len(l.items)
      /\ Values(l.ranks) = Values(l.items)
  BY DEF Loads
<1>2. Len(l.items) \in Nat /\ DOMAIN l.items = 1 .. Len(l.items)
      /\ \A i \in 1 .. Len(l.items) : l.items[i] \in Ticker
  BY <1>1, BulkNumbers, ListFacts
<1>3. DOMAIN l.ranks = 1 .. Len(l.ranks) /\ \A i \in 1 .. Len(l.ranks) : l.ranks[i] \in Ticker
  BY <1>1, BulkNumbers, ListFacts
<1>4. Len(l.story) \in Nat /\ DOMAIN l.story = 1 .. Len(l.story)
      /\ \A i \in 1 .. Len(l.story) : l.story[i] \in Ticker
  BY <1>1, BulkNumbers, ListFacts
<1>5. /\ \A i \in 1 .. Len(l.items) : l.ranks[i] \in Values(l.items)
      /\ \A p \in 1 .. Len(l.items) : l.items[p] \in Values(l.ranks)
  BY <1>1, <1>2, <1>3 DEF Values
<1>6. QED
  BY <1>1, <1>2, <1>3, <1>4, <1>5 DEF Values

\* The statements of a load, with features for a list of tickers.
LEMMA LoadRowsShape ==
  ASSUME NEW l \in Loads, NEW story,
         Len(story) \in Nat, DOMAIN story = 1 .. Len(story),
         \A i \in 1 .. Len(story) : story[i] \in Ticker
  PROVE  LET R == LoadRows(l.date, l.items, l.ranks, story) IN
         /\ LoadShape(R, l.date)
         /\ (\A i, j \in 1 .. Len(l.items) : i < j => l.items[i] < l.items[j])
            /\ (\A i, j \in 1 .. Len(story) : i < j => story[i] < story[j]) => InOrder(R)
<1> DEFINE n == Len(l.items)
           m == Len(story)
           d == l.date
           R == LoadRows(d, l.items, l.ranks, story)
<1>1. n \in Nat /\ m \in Nat /\ d \in Day
  BY LoadFacts
<1>2. DOMAIN R = 1 .. 2 * n + m
  BY DEF LoadRows
<1>r. \A t \in Ticker : <<"pred", t, d>> \in Row /\ <<"grade", t, 0>> \in Row /\ <<"xai", t, d>> \in Row
  BY <1>1 DEF Row
<1>t. \A i \in 1 .. n : l.items[i] \in Ticker /\ l.ranks[i] \in Ticker
  BY LoadFacts
<1>i. \A i \in 1 .. n : i \in DOMAIN R /\ R[i] = <<"pred", l.items[i], d>>
  BY <1>1 DEF LoadRows
<1>3. \A i \in 1 .. n : i \in DOMAIN R /\ R[i] = <<"pred", l.items[i], d>> /\ R[i] \in Row
  <2> HIDE DEF R, n, d
  <2>1. QED
    BY <1>i, <1>t, <1>r
<1>g. \A i \in n + 1 .. 2 * n :
        i \in DOMAIN R /\ R[i] = <<"grade", l.ranks[i - n], 0>> /\ i - n \in 1 .. n
  BY <1>1 DEF LoadRows
<1>4. \A i \in n + 1 .. 2 * n :
        /\ i \in DOMAIN R /\ R[i] = <<"grade", l.ranks[i - n], 0>> /\ R[i] \in Row
        /\ i - n \in 1 .. n
  <2> HIDE DEF R, n, d
  <2>1. QED
    BY <1>g, <1>t, <1>r
<1>x. \A i \in 2 * n + 1 .. 2 * n + m :
        i \in DOMAIN R /\ R[i] = <<"xai", story[i - 2 * n], d>> /\ i - 2 * n \in 1 .. m
  BY <1>1 DEF LoadRows
<1>5. \A i \in 2 * n + 1 .. 2 * n + m :
        /\ i \in DOMAIN R /\ R[i] = <<"xai", story[i - 2 * n], d>> /\ R[i] \in Row
        /\ i - 2 * n \in 1 .. m
  <2>1. \A i \in 1 .. m : story[i] \in Ticker
    OBVIOUS
  <2> HIDE DEF R, n, d, m
  <2>2. QED
    BY <1>x, <1>r, <2>1
<1>6. Len(R) = 2 * n + m
  <2>1. R \in [1 .. 2 * n + m -> Row]
    <3>1. \A i \in 1 .. 2 * n + m : i \in 1 .. n \/ i \in n + 1 .. 2 * n \/ i \in 2 * n + 1 .. 2 * n + m
      BY <1>1
    <3>2. \A i \in 1 .. 2 * n + m : R[i] \in Row
      BY <3>1, <1>3, <1>4, <1>5
    <3>3. R = [i \in 1 .. 2 * n + m |-> R[i]]
      BY DEF LoadRows
    <3> HIDE DEF R
    <3>4. QED
      BY <3>2, <3>3
  <2>2. 2 * n + m \in Nat
    BY <1>1
  <2> HIDE DEF R, n, m
  <2>3. QED
    BY <2>1, <2>2, FunctionIsList
<1>7. \A i \in 1 .. Len(R) : i \in 1 .. n \/ i \in n + 1 .. 2 * n \/ i \in 2 * n + 1 .. 2 * n + m
  BY <1>1, <1>6
<1>8. \A i \in 1 .. n : \E p \in 1 .. n : l.ranks[i] = l.items[p]
  BY LoadFacts
<1>9. \A p \in 1 .. n : \E i \in 1 .. n : l.ranks[i] = l.items[p]
  BY LoadFacts
<1> HIDE DEF R, n, m, d
<1>10. RowSeq(R) /\ \A p \in 1 .. Len(R) : R[p][1] \in {"pred", "grade", "xai"}
  BY <1>1, <1>2, <1>3, <1>4, <1>5, <1>6, <1>7 DEF RowSeq
<1>11. ASSUME NEW q \in 1 .. Len(R), NEW t \in Ticker, R[q] = <<"grade", t, 0>>
       PROVE  \E p \in 1 .. Len(R) : p < q /\ R[p] = <<"pred", t, d>>
  <2>1. q \in n + 1 .. 2 * n /\ l.ranks[q - n] = t
    BY <1>11, <1>3, <1>4, <1>5, <1>7
  <2>i. q - n \in 1 .. n
    BY <2>1, <1>1
  <2>2. PICK p \in 1 .. n : l.items[p] = t
    BY <2>1, <2>i, <1>8
  <2>3. QED
    BY <2>1, <2>2, <1>1, <1>3, <1>6
<1>12. ASSUME NEW q \in 1 .. Len(R), NEW t \in Ticker, NEW e \in Day, R[q] = <<"pred", t, e>>
       PROVE  e = d /\ \E p \in 1 .. Len(R) : R[p] = <<"grade", t, 0>>
  <2>1. q \in 1 .. n /\ l.items[q] = t /\ e = d
    BY <1>12, <1>3, <1>4, <1>5, <1>7
  <2>2. PICK i \in 1 .. n : l.ranks[i] = t
    BY <2>1, <1>9
  <2>3. n + i \in n + 1 .. 2 * n /\ (n + i) - n = i /\ n + i \in 1 .. Len(R)
    BY <1>1, <1>6
  <2>4. R[n + i] = <<"grade", t, 0>>
    BY <2>2, <2>3, <1>4
  <2>5. QED
    BY <2>1, <2>3, <2>4
<1>13. LoadShape(R, d)
  BY <1>10, <1>11, <1>12 DEF LoadShape
<1>14. ASSUME \A i, j \in 1 .. n : i < j => l.items[i] < l.items[j],
              \A i, j \in 1 .. m : i < j => story[i] < story[j],
              NEW p \in 1 .. Len(R), NEW q \in 1 .. Len(R),
              p < q, R[p][1] # "grade", R[q][1] # "grade"
       PROVE  Less(R[p], R[q])
  <2>1. (p \in 1 .. n \/ p \in 2 * n + 1 .. 2 * n + m) /\ (q \in 1 .. n \/ q \in 2 * n + 1 .. 2 * n + m)
    BY <1>14, <1>4, <1>7
  <2>2. CASE q \in 1 .. n
    <3>1. p \in 1 .. n
      BY <2>1, <2>2, <1>14, <1>1
    <3>2. QED
      BY <3>1, <2>2, <1>3, <1>14 DEF Less, Major, Minor
  <2>3. CASE p \in 1 .. n /\ q \in 2 * n + 1 .. 2 * n + m
    BY <2>3, <1>3, <1>5 DEF Less, Major, Minor
  <2>4. CASE p \in 2 * n + 1 .. 2 * n + m /\ q \in 2 * n + 1 .. 2 * n + m
    <3>1. p - 2 * n < q - 2 * n
      BY <2>4, <1>14, <1>1
    <3>2. story[p - 2 * n] < story[q - 2 * n]
      BY <3>1, <2>4, <1>5, <1>14
    <3>3. QED
      BY <3>2, <2>4, <1>5 DEF Less, Major, Minor
  <2>5. QED
    BY <2>1, <2>2, <2>3, <2>4
<1>15. QED
  BY <1>13, <1>14 DEF InOrder, R, n, m, d

\* The second transaction of a CSV load.
LEMMA StoryShape ==
  ASSUME NEW l \in Loads
  PROVE  LET R == [i \in DOMAIN l.story |-> <<"xai", l.story[i], l.date>>] IN
         LoadShape(R, l.date) /\ (Ascending(l.story) => InOrder(R))
<1> DEFINE m == Len(l.story)
           R == [i \in DOMAIN l.story |-> <<"xai", l.story[i], l.date>>]
<1>1. m \in Nat /\ DOMAIN l.story = 1 .. m /\ l.date \in Day
      /\ \A i \in 1 .. m : l.story[i] \in Ticker
  BY LoadFacts
<1>2. DOMAIN R = 1 .. m /\ \A i \in 1 .. m : R[i] = <<"xai", l.story[i], l.date>> /\ R[i] \in Row
  BY <1>1 DEF Row
<1>3. Len(R) = m
  <2>1. R \in [1 .. m -> Row]
    BY <1>1, <1>2
  <2> HIDE DEF R, m
  <2>2. QED
    BY <2>1, <1>1, FunctionIsList
<1> HIDE DEF R, m
<1>4. LoadShape(R, l.date)
  BY <1>1, <1>2, <1>3 DEF LoadShape, RowSeq
<1>5. Ascending(l.story) => InOrder(R)
  BY <1>1, <1>2, <1>3 DEF InOrder, Ascending, Less, Major, Minor
<1>6. QED
  BY <1>4, <1>5 DEF R
------------------------------------------------------------------------------
(* The invariant *)

SyncPlans == PricePlans \cup MacroPlans \cup TickerPlans

Plans == {<<>>} \cup SyncPlans \cup {JsonPlan(l) : l \in Loads} \cup {CsvPlan(l) : l \in Loads}

JobType == [pc : {"new", "run", "done", "failed"}, load : {<<>>} \cup {<<l>> : l \in Loads},
            plan : Plans, tx : Nat, pos : Nat]

\* A running request follows the plan of its kind.
PlanInv ==
  /\ job \in [Job -> JobType]
  /\ \A j \in Job : job[j].pc = "run" =>
       /\ \/ job[j].load = <<>> /\ job[j].plan \in SyncPlans
          \/ \E l \in Loads :
               /\ job[j].load = <<l>>
               /\ ((InItemOrder(l) /\ job[j].plan = JsonPlan(l)) \/ job[j].plan = CsvPlan(l))
       /\ job[j].tx \in DOMAIN job[j].plan
       /\ job[j].pos \in 0 .. Len(Rows(j))

Exclusive == \A j, h \in Job : j # h => Held(j) \cap Held(h) = {}

\* A written grade has the date of a load.
SavedInv ==
  /\ saved \in [Row -> [by : Job \cup {NoJob}, asOf : 0 .. NDay]]
  /\ \A t \in Ticker : saved[<<"grade", t, 0>>].by # NoJob => saved[<<"grade", t, 0>>].asOf \in Day

BulkInv == PlanInv /\ Exclusive /\ SavedInv /\ LoadsAsOne

\* The rows of the transaction a request is in.
LEMMA RunShape ==
  ASSUME PlanInv, NEW j \in Job, job[j].pc = "run"
  PROVE  \/ job[j].load = <<>> /\ SyncShape(Rows(j))
         \/ \E l \in Loads :
              /\ job[j].load = <<l>>
              /\ LoadShape(Rows(j), l.date)
              /\ (~ Disordered(j) => InOrder(Rows(j)))
<1>1. job[j].tx \in DOMAIN job[j].plan
  BY DEF PlanInv
<1>2. CASE job[j].load = <<>> /\ job[j].plan \in SyncPlans
  BY <1>1, <1>2, PriceShape, MacroShape, TickerShape DEF SyncPlans, Rows
<1>3. ASSUME NEW l \in Loads, job[j].load = <<l>>
      PROVE  /\ \A i, k \in DOMAIN l.items : ~ Disordered(j) /\ i < k => l.items[i] < l.items[k]
             /\ \A i, k \in DOMAIN l.story : ~ Disordered(j) /\ i < k => l.story[i] < l.story[k]
             /\ ~ Disordered(j) => Ascending(l.story)
  BY <1>3 DEF Disordered, Ascending
<1>4. ASSUME NEW l \in Loads, job[j].load = <<l>>, job[j].plan = JsonPlan(l)
      PROVE  LoadShape(Rows(j), l.date) /\ (~ Disordered(j) => InOrder(Rows(j)))
  <2>1. Rows(j) = LoadRows(l.date, l.items, l.ranks, l.story)
    BY <1>1, <1>4 DEF Rows, JsonPlan
  <2>2. Len(l.story) \in Nat /\ DOMAIN l.story = 1 .. Len(l.story)
        /\ \A i \in 1 .. Len(l.story) : l.story[i] \in Ticker
    BY LoadFacts
  <2>3. DOMAIN l.items = 1 .. Len(l.items)
    BY LoadFacts
  <2>4. QED
    BY <2>1, <2>2, <2>3, <1>3, <1>4, LoadRowsShape
<1>5. ASSUME NEW l \in Loads, job[j].load = <<l>>, job[j].plan = CsvPlan(l)
      PROVE  LoadShape(Rows(j), l.date) /\ (~ Disordered(j) => InOrder(Rows(j)))
  <2>1. CASE job[j].tx = 1
    <3>1. Rows(j) = LoadRows(l.date, l.items, l.ranks, <<>>)
      BY <2>1, <1>5 DEF Rows, CsvPlan
    <3>2. Len(<<>>) = 0 /\ DOMAIN <<>> = 1 .. 0
      OBVIOUS
    <3>3. DOMAIN l.items = 1 .. Len(l.items)
      BY LoadFacts
    <3>4. Len(<<>>) \in Nat /\ \A i \in 1 .. 0 : <<>>[i] \in Ticker
      OBVIOUS
    <3>5. /\ LoadShape(LoadRows(l.date, l.items, l.ranks, <<>>), l.date)
          /\ (\A i, k \in 1 .. Len(l.items) : i < k => l.items[i] < l.items[k])
             => InOrder(LoadRows(l.date, l.items, l.ranks, <<>>))
      BY <3>2, <3>4, LoadRowsShape
    <3>6. QED
      BY <3>1, <3>3, <3>5, <1>3, <1>5
  <2>2. CASE job[j].tx = 2
    <3>1. Rows(j) = [i \in DOMAIN l.story |-> <<"xai", l.story[i], l.date>>]
      BY <2>2, <1>5 DEF Rows, CsvPlan
    <3>2. QED
      BY <3>1, <1>3, <1>5, StoryShape
  <2>3. QED
    BY <1>1, <1>5, <2>1, <2>2 DEF CsvPlan
<1>6. QED
  BY <1>2, <1>4, <1>5 DEF PlanInv

\* In short: a running request's transaction is a sequence of rows.
LEMMA RunRows ==
  ASSUME PlanInv, NEW j \in Job, job[j].pc = "run"
  PROVE  RowSeq(Rows(j)) /\ job[j].pos \in 0 .. Len(Rows(j))
<1>1. SyncShape(Rows(j)) \/ \E l \in Loads : LoadShape(Rows(j), l.date)
  BY RunShape
<1>2. RowSeq(Rows(j))
  BY <1>1 DEF SyncShape, LoadShape
<1>3. QED
  BY <1>2 DEF PlanInv

\* A load's transaction, from one of its rows.
LEMMA LoadRowOf ==
  ASSUME PlanInv, NEW j \in Job, job[j].pc = "run", NEW p \in 1 .. Len(Rows(j)),
         Rows(j)[p][1] \in {"pred", "grade", "xai"}
  PROVE  \E l \in Loads : job[j].load = <<l>> /\ LoadShape(Rows(j), l.date)
<1>1. ~ SyncShape(Rows(j))
  BY DEF SyncShape
<1>2. QED
  BY <1>1, RunShape
------------------------------------------------------------------------------
(* Deadlocks *)

\* A request of a circle does not wait for a grade, if all loads of the circle are of one date.
LEMMA NoWaitForGrade ==
  ASSUME PlanInv, Exclusive, NEW D \in SUBSET Job, Stuck(D),
         \A j, h \in D : job[j].load # <<>> /\ job[h].load # <<>> => job[j].load[1].date = job[h].load[1].date,
         NEW j \in D
  PROVE  Wanted(j)[1] # "grade"
<1> SUFFICES ASSUME Wanted(j)[1] = "grade" PROVE FALSE
  OBVIOUS
<1> DEFINE r == Wanted(j)
<1>1. job[j].pc = "run" /\ job[j].pos < Len(Rows(j))
  BY DEF Stuck, More
<1>2. PICK h \in D \ {j} : r \in Held(h)
  BY DEF Stuck
<1>3. job[h].pc = "run" /\ job[h].pos < Len(Rows(h))
  BY <1>2 DEF Stuck, More
<1>4. PICK p \in 1 .. job[h].pos : r = Rows(h)[p]
  BY <1>2, <1>3 DEF Held
<1>5. job[j].pos + 1 \in 1 .. Len(Rows(j)) /\ job[j].pos \in Nat /\ r = Rows(j)[job[j].pos + 1]
  BY <1>1, RunRows DEF Wanted, RowSeq
<1>6. p \in 1 .. Len(Rows(h)) /\ job[h].pos \in Nat
  BY <1>3, <1>4, RunRows DEF RowSeq
<1>7. PICK l \in Loads : job[j].load = <<l>> /\ LoadShape(Rows(j), l.date)
  BY <1>1, <1>5, LoadRowOf
<1>8. PICK k \in Loads : job[h].load = <<k>> /\ LoadShape(Rows(h), k.date)
  BY <1>3, <1>4, <1>6, LoadRowOf
<1>9. l.date = k.date
  BY <1>7, <1>8
<1>10. r \in Row
  BY <1>5, <1>7 DEF LoadShape, RowSeq
<1>11. PICK t \in Ticker : r = <<"grade", t, 0>>
  BY <1>10 DEF Row
<1>12. PICK a \in 1 .. Len(Rows(j)) : a < job[j].pos + 1 /\ Rows(j)[a] = <<"pred", t, l.date>>
  BY <1>5, <1>7, <1>11 DEF LoadShape
<1>13. <<"pred", t, l.date>> \in Held(j)
  BY <1>1, <1>5, <1>12 DEF Held
<1>l. LoadShape(Rows(h), l.date) /\ Rows(h)[p] = <<"grade", t, 0>>
  BY <1>4, <1>8, <1>9, <1>11
<1>14. PICK b \in 1 .. Len(Rows(h)) : b < p /\ Rows(h)[b] = <<"pred", t, l.date>>
  BY <1>l, <1>6 DEF LoadShape
<1>15. <<"pred", t, l.date>> \in Held(h)
  BY <1>3, <1>4, <1>6, <1>14 DEF Held
<1>16. QED
  BY <1>2, <1>13, <1>15 DEF Exclusive

\* The row a request wants lies below what the request that holds it wants.
LEMMA WaitsAscend ==
  ASSUME PlanInv, NEW j \in Job, NEW h \in Job, More(h), Wanted(j) \in Held(h),
         Wanted(j)[1] # "grade", Wanted(h)[1] # "grade", ~ Disordered(h)
  PROVE  Less(Wanted(j), Wanted(h))
<1>1. job[h].pc = "run" /\ job[h].pos < Len(Rows(h))
  BY DEF More
<1>2. PICK p \in 1 .. job[h].pos : Wanted(j) = Rows(h)[p]
  BY <1>1 DEF Held
<1>3. job[h].pos + 1 \in 1 .. Len(Rows(h)) /\ p \in 1 .. Len(Rows(h)) /\ p < job[h].pos + 1
  BY <1>1, RunRows DEF RowSeq
<1>4. Wanted(h) = Rows(h)[job[h].pos + 1]
  BY DEF Wanted
<1>5. SyncShape(Rows(h)) \/ InOrder(Rows(h))
  BY <1>1, RunShape
<1>6. QED
  BY <1>2, <1>3, <1>4, <1>5 DEF SyncShape, InOrder

\* Syncs, in any number, and loads of one date with their items in order never deadlock.
LEMMA OrderedNeverStuck == PlanInv /\ Exclusive => DeadlockNeedsDisorder
<1> SUFFICES ASSUME PlanInv, Exclusive, NEW D \in SUBSET Job, Stuck(D),
                    \A j \in D : ~ Disordered(j),
                    \A j, h \in D : job[j].load # <<>> /\ job[h].load # <<>>
                                     => job[j].load[1].date = job[h].load[1].date
             PROVE  FALSE
  BY DEF DeadlockNeedsDisorder
<1> DEFINE w == [j \in D |-> Wanted(j)]
<1>1. ASSUME NEW j \in D PROVE Wanted(j) \in Row
  <2>1. job[j].pc = "run" /\ job[j].pos < Len(Rows(j))
    BY DEF Stuck, More
  <2>2. QED
    BY <2>1, RunRows DEF RowSeq, Wanted
<1>2. \A j \in D : Wanted(j)[1] # "grade"
  BY NoWaitForGrade
<1>3. ASSUME NEW j \in D PROVE \E h \in D : Less(w[j], w[h])
  <2>1. PICK h \in D : Wanted(j) \in Held(h) /\ More(h)
    BY DEF Stuck
  <2>2. Less(Wanted(j), Wanted(h))
    BY <2>1, <1>2, WaitsAscend
  <2>3. QED
    BY <2>2
<1>4. D # {} /\ w \in [D -> Row]
  BY <1>1 DEF Stuck
<1> HIDE DEF w
<1>5. QED
  BY <1>3, <1>4, NoCircle
------------------------------------------------------------------------------
(* The invariant is inductive *)

\* Plans are sequences of transactions.
LEMMA PlanDomain ==
  ASSUME NEW plan, NEW k \in Nat, k \in DOMAIN plan, k < Len(plan),
         plan \in SyncPlans \/ \E l \in Loads : plan = JsonPlan(l) \/ plan = CsvPlan(l)
  PROVE  k + 1 \in DOMAIN plan
<1>1. CASE plan \in PricePlans \cup TickerPlans
  BY <1>1 DEF PricePlans, TickerPlans
<1>2. CASE plan \in MacroPlans
  <2>1. DOMAIN plan = 1 .. NCode
    BY <1>2 DEF MacroPlans, Code
  <2>2. plan \in [1 .. NCode -> {plan[c] : c \in 1 .. NCode}]
    <3>1. plan = [c \in 1 .. NCode |-> plan[c]]
      BY <1>2 DEF MacroPlans, Code
    <3>2. QED
      BY <3>1
  <2>3. Len(plan) = NCode
    BY <2>2, BulkNumbers, FunctionIsList
  <2>4. QED
    BY <2>1, <2>3, BulkNumbers
<1>3. CASE \E l \in Loads : plan = JsonPlan(l) \/ plan = CsvPlan(l)
  BY <1>3 DEF JsonPlan, CsvPlan
<1>4. QED
  BY <1>1, <1>2, <1>3 DEF SyncPlans

LEMMA PlanRows ==
  ASSUME NEW plan, NEW k \in DOMAIN plan,
         plan \in SyncPlans \/ \E l \in Loads : plan = JsonPlan(l) \/ plan = CsvPlan(l)
  PROVE  Len(plan[k]) \in Nat
<1>1. CASE plan \in SyncPlans
  BY <1>1, PriceShape, MacroShape, TickerShape DEF SyncPlans, SyncShape, RowSeq
<1>2. ASSUME NEW l \in Loads, NEW story,
             Len(story) \in Nat, DOMAIN story = 1 .. Len(story),
             \A i \in 1 .. Len(story) : story[i] \in Ticker
      PROVE  Len(LoadRows(l.date, l.items, l.ranks, story)) \in Nat
  <2>1. LoadShape(LoadRows(l.date, l.items, l.ranks, story), l.date)
    BY <1>2, LoadRowsShape
  <2>2. QED
    BY <2>1 DEF LoadShape, RowSeq
<1>3. ASSUME NEW l \in Loads, plan = JsonPlan(l)
      PROVE  Len(plan[k]) \in Nat
  <2>1. plan[k] = LoadRows(l.date, l.items, l.ranks, l.story)
    BY <1>3 DEF JsonPlan
  <2>2. QED
    BY <2>1, <1>2, LoadFacts
<1>4. ASSUME NEW l \in Loads, plan = CsvPlan(l)
      PROVE  Len(plan[k]) \in Nat
  <2>1. CASE k = 1
    <3>1. plan[k] = LoadRows(l.date, l.items, l.ranks, <<>>)
      BY <2>1, <1>4 DEF CsvPlan
    <3>2. Len(<<>>) \in Nat /\ DOMAIN <<>> = 1 .. Len(<<>>) /\ \A i \in 1 .. Len(<<>>) : <<>>[i] \in Ticker
      OBVIOUS
    <3>3. QED
      BY <3>1, <3>2, <1>2
  <2>2. CASE k = 2
    <3>1. plan[k] = [i \in DOMAIN l.story |-> <<"xai", l.story[i], l.date>>]
      BY <2>2, <1>4 DEF CsvPlan
    <3>2. LoadShape(plan[k], l.date)
      BY <3>1, StoryShape
    <3>3. QED
      BY <3>2 DEF LoadShape, RowSeq
  <2>3. QED
    BY <1>4, <2>1, <2>2 DEF CsvPlan
<1>5. QED
  BY <1>1, <1>3, <1>4

LEMMA InitBulk == Init => BulkInv
<1> SUFFICES ASSUME Init PROVE BulkInv
  OBVIOUS
<1>1. PlanInv
  BY DEF Init, NewJob, PlanInv, JobType, Plans
<1>2. Exclusive
  BY DEF Init, NewJob, Exclusive, Held
<1>3. SavedInv /\ LoadsAsOne
  <2>1. \A t \in Ticker : <<"grade", t, 0>> \in Row
    BY DEF Row
  <2>2. \A r \in Row : saved[r].by = NoJob
    BY DEF Init
  <2>3. saved \in [Row -> [by : Job \cup {NoJob}, asOf : 0 .. NDay]]
    BY BulkNumbers DEF Init
  <2>4. QED
    BY <2>1, <2>2, <2>3 DEF SavedInv, LoadsAsOne
<1>4. QED
  BY <1>1, <1>2, <1>3 DEF BulkInv

\* A step of one request that leaves the tables alone and locks nothing that another holds.
LEMMA QuietStep ==
  ASSUME BulkInv, PlanInv', NEW j \in Job, UNCHANGED saved,
         \A h \in Job \ {j} : job'[h] = job[h],
         \A h \in Job \ {j} : Held(j)' \cap Held(h) = {}
  PROVE  BulkInv'
<1>1. \A h \in Job \ {j} : Held(h)' = Held(h)
  BY DEF Held, Rows
<1>2. Exclusive'
  BY <1>1 DEF BulkInv, Exclusive
<1>3. SavedInv' /\ LoadsAsOne'
  BY DEF BulkInv, SavedInv, LoadsAsOne
<1>4. QED
  BY <1>2, <1>3 DEF BulkInv

\* A request that starts.
LEMMA StartKeeps ==
  ASSUME BulkInv, NEW j \in Job, NEW load \in {<<>>} \cup {<<l>> : l \in Loads}, NEW plan \in Plans,
         job' = [job EXCEPT ![j] = [pc |-> "run", load |-> load, plan |-> plan, tx |-> 1, pos |-> 0]],
         UNCHANGED saved,
         \/ load = <<>> /\ plan \in SyncPlans
         \/ \E l \in Loads :
              /\ load = <<l>>
              /\ ((InItemOrder(l) /\ plan = JsonPlan(l)) \/ plan = CsvPlan(l)),
         1 \in DOMAIN plan
  PROVE  BulkInv'
<1>1. job \in [Job -> JobType]
  BY DEF BulkInv, PlanInv
<1>2. \A h \in Job \ {j} : job'[h] = job[h]
  BY <1>1
<1>3. job'[j] = [pc |-> "run", load |-> load, plan |-> plan, tx |-> 1, pos |-> 0]
  BY <1>1
<1>4. job'[j] \in JobType
  BY <1>3 DEF JobType
<1>5. Held(j)' = {}
  BY <1>3 DEF Held
<1>6. job' \in [Job -> JobType]
  BY <1>1, <1>2, <1>4
<1>7. Len(Rows(j)') \in Nat
  <2>1. Rows(j)' = plan[1]
    BY <1>3 DEF Rows
  <2>2. QED
    BY <2>1, PlanRows
<1>8. \A h \in Job \ {j} : Rows(h)' = Rows(h)
  BY <1>2 DEF Rows
<1>9. ASSUME NEW h \in Job, job'[h].pc = "run"
      PROVE  /\ \/ job'[h].load = <<>> /\ job'[h].plan \in SyncPlans
                \/ \E l \in Loads :
                     /\ job'[h].load = <<l>>
                     /\ ((InItemOrder(l) /\ job'[h].plan = JsonPlan(l)) \/ job'[h].plan = CsvPlan(l))
             /\ job'[h].tx \in DOMAIN job'[h].plan
             /\ job'[h].pos \in 0 .. Len(Rows(h)')
  <2>1. CASE h = j
    BY <2>1, <1>3, <1>7
  <2>2. CASE h # j
    BY <2>2, <1>2, <1>8, <1>9 DEF BulkInv, PlanInv
  <2>3. QED
    BY <2>1, <2>2
<1>10. PlanInv'
  BY <1>6, <1>9 DEF PlanInv
<1>11. QED
  BY <1>2, <1>5, <1>10, QuietStep

\* A request that fails, by itself or as the victim of a circle.
LEMMA FailKeeps ==
  ASSUME BulkInv, NEW j \in Job, job' = [job EXCEPT ![j] = [NewJob EXCEPT !.pc = "failed"]],
         UNCHANGED saved
  PROVE  BulkInv'
<1>1. job \in [Job -> JobType]
  BY DEF BulkInv, PlanInv
<1>2. \A h \in Job \ {j} : job'[h] = job[h]
  BY <1>1
<1>3. job'[j] = [pc |-> "failed", load |-> <<>>, plan |-> <<>>, tx |-> 1, pos |-> 0]
  BY <1>1 DEF NewJob
<1>4. job'[j] \in JobType
  BY <1>3 DEF JobType, Plans
<1>5. job' \in [Job -> JobType]
  BY <1>1, <1>2, <1>4
<1>6. Held(j)' = {}
  BY <1>3 DEF Held
<1>7. \A h \in Job \ {j} : Rows(h)' = Rows(h)
  BY <1>2 DEF Rows
<1>8. PlanInv'
  BY <1>2, <1>3, <1>5, <1>7 DEF BulkInv, PlanInv
<1>9. QED
  BY <1>2, <1>6, <1>8, QuietStep

LEMMA TakeKeeps == ASSUME BulkInv, NEW j \in Job, Take(j) PROVE BulkInv'
<1>1. job \in [Job -> JobType] /\ PlanInv
  BY DEF BulkInv, PlanInv
<1>2. job' = [job EXCEPT ![j].pos = @ + 1] /\ UNCHANGED saved /\ job[j].pc = "run"
      /\ job[j].pos < Len(Rows(j)) /\ \A h \in Job \ {j} : Wanted(j) \notin Held(h)
  BY DEF Take, More
<1>3. job[j].pos \in 0 .. Len(Rows(j)) /\ Len(Rows(j)) \in Nat
  BY <1>1, <1>2, RunRows DEF RowSeq
<1>4. \A h \in Job \ {j} : job'[h] = job[h]
  BY <1>1, <1>2
<1>5. job'[j] = [job[j] EXCEPT !.pos = job[j].pos + 1]
  BY <1>1, <1>2
<1>6. /\ job'[j].pc = job[j].pc /\ job'[j].load = job[j].load /\ job'[j].plan = job[j].plan
      /\ job'[j].tx = job[j].tx /\ job'[j].pos = job[j].pos + 1 /\ job'[j] \in JobType
  BY <1>1, <1>5 DEF JobType
<1>7. job' \in [Job -> JobType]
  BY <1>1, <1>2, <1>4, <1>6
<1>8. Rows(j)' = Rows(j) /\ \A h \in Job \ {j} : Rows(h)' = Rows(h)
  BY <1>4, <1>6 DEF Rows
<1>9. Held(j)' = Held(j) \cup {Wanted(j)}
  <2>1. Held(j) = {Rows(j)[p] : p \in 1 .. job[j].pos}
    BY <1>2 DEF Held
  <2>2. Held(j)' = {Rows(j)[p] : p \in 1 .. job[j].pos + 1}
    BY <1>2, <1>6, <1>8 DEF Held
  <2>3. 1 .. job[j].pos + 1 = (1 .. job[j].pos) \cup {job[j].pos + 1}
    BY <1>3
  <2>4. QED
    BY <2>1, <2>2, <2>3 DEF Wanted
<1>10. \A h \in Job \ {j} : Held(j)' \cap Held(h) = {}
  BY <1>2, <1>9 DEF BulkInv, Exclusive
<1>11. ASSUME NEW h \in Job, job'[h].pc = "run"
       PROVE  /\ \/ job'[h].load = <<>> /\ job'[h].plan \in SyncPlans
                 \/ \E l \in Loads :
                      /\ job'[h].load = <<l>>
                      /\ ((InItemOrder(l) /\ job'[h].plan = JsonPlan(l)) \/ job'[h].plan = CsvPlan(l))
              /\ job'[h].tx \in DOMAIN job'[h].plan
              /\ job'[h].pos \in 0 .. Len(Rows(h)')
  <2>1. CASE h = j
    BY <2>1, <1>1, <1>2, <1>3, <1>6, <1>8 DEF PlanInv
  <2>2. CASE h # j
    BY <2>2, <1>1, <1>4, <1>8, <1>11 DEF PlanInv
  <2>3. QED
    BY <2>1, <2>2
<1>12. PlanInv'
  BY <1>7, <1>11 DEF PlanInv
<1>13. QED
  BY <1>2, <1>4, <1>10, <1>12, QuietStep

\* What a commit publishes: a whole transaction.
LEMMA CommitSaves ==
  ASSUME BulkInv, NEW j \in Job, Commit(j)
  PROVE  SavedInv' /\ LoadsAsOne'
<1> DEFINE mine == [by |-> j, asOf |-> DateOf(j)]
<1>1. PlanInv /\ SavedInv /\ LoadsAsOne /\ job[j].pc = "run" /\ job[j].pos = Len(Rows(j))
  BY DEF BulkInv, Commit
<1>2. saved' = [r \in Row |-> IF r \in Held(j) THEN mine ELSE saved[r]]
  BY DEF Commit
<1>3. RowSeq(Rows(j)) /\ Held(j) = {Rows(j)[p] : p \in 1 .. Len(Rows(j))}
  BY <1>1, RunRows DEF Held
<1>4. DateOf(j) \in 0 .. NDay
  BY <1>1, BulkNumbers, LoadFacts DEF DateOf, PlanInv, Day
<1>5. saved' \in [Row -> [by : Job \cup {NoJob}, asOf : 0 .. NDay]]
  <2> HIDE DEF mine
  <2>1. mine \in [by : Job \cup {NoJob}, asOf : 0 .. NDay]
    BY <1>4 DEF mine
  <2>2. QED
    BY <1>1, <1>2, <2>1 DEF SavedInv
<1>6. ASSUME NEW t \in Ticker, saved'[<<"grade", t, 0>>].by # NoJob
      PROVE  /\ saved'[<<"grade", t, 0>>].asOf \in Day
             /\ saved'[<<"pred", t, saved'[<<"grade", t, 0>>].asOf>>] = saved'[<<"grade", t, 0>>]
  <2> DEFINE g == <<"grade", t, 0>>
  <2>1. g \in Row /\ \A d \in Day : <<"pred", t, d>> \in Row
    BY DEF Row
  <2>2. CASE g \in Held(j)
    <3>1. PICK p \in 1 .. Len(Rows(j)) : Rows(j)[p] = g
      BY <2>2, <1>3
    <3>2. PICK l \in Loads : job[j].load = <<l>> /\ LoadShape(Rows(j), l.date)
      BY <1>1, <3>1, LoadRowOf
    <3>3. DateOf(j) = l.date /\ l.date \in Day
      BY <3>2, LoadFacts DEF DateOf
    <3>4. <<"pred", t, l.date>> \in Held(j)
      BY <1>3, <3>1, <3>2 DEF LoadShape
    <3>5. saved'[g] = mine /\ saved'[<<"pred", t, l.date>>] = mine
      BY <1>2, <2>1, <2>2, <3>3, <3>4
    <3>6. QED
      BY <3>3, <3>5
  <2>3. CASE g \notin Held(j)
    <3>1. saved'[g] = saved[g]
      BY <1>2, <2>1, <2>3
    <3>2. saved[g].asOf \in Day /\ saved[<<"pred", t, saved[g].asOf>>] = saved[g]
      BY <1>1, <1>6, <3>1 DEF SavedInv, LoadsAsOne
    <3>3. <<"pred", t, saved[g].asOf>> \notin Held(j)
      <4> SUFFICES ASSUME <<"pred", t, saved[g].asOf>> \in Held(j) PROVE FALSE
        OBVIOUS
      <4>1. PICK p \in 1 .. Len(Rows(j)) : Rows(j)[p] = <<"pred", t, saved[g].asOf>>
        BY <1>3
      <4>2. PICK l \in Loads : job[j].load = <<l>> /\ LoadShape(Rows(j), l.date)
        BY <1>1, <4>1, LoadRowOf
      <4>3. PICK q \in 1 .. Len(Rows(j)) : Rows(j)[q] = g
        BY <3>2, <4>1, <4>2 DEF LoadShape
      <4>4. QED
        BY <1>3, <2>3, <4>3
    <3>4. saved'[<<"pred", t, saved[g].asOf>>] = saved[<<"pred", t, saved[g].asOf>>]
      BY <1>2, <2>1, <3>2, <3>3
    <3>5. QED
      BY <3>1, <3>2, <3>4
  <2>4. QED
    BY <2>2, <2>3
<1>7. QED
  BY <1>5, <1>6 DEF SavedInv, LoadsAsOne

LEMMA CommitKeeps == ASSUME BulkInv, NEW j \in Job, Commit(j) PROVE BulkInv'
<1>1. job \in [Job -> JobType] /\ PlanInv
  BY DEF BulkInv, PlanInv
<1>2. job[j] \in JobType /\ job[j].pc = "run" /\ job[j].tx \in DOMAIN job[j].plan /\ job[j].tx \in Nat
  BY <1>1 DEF Commit, PlanInv, JobType
<1>3. \A h \in Job \ {j} : job'[h] = job[h]
  BY <1>1 DEF Commit
<1>4. \A h \in Job \ {j} : Rows(h)' = Rows(h) /\ Held(h)' = Held(h)
  BY <1>3 DEF Rows, Held
<1>5. CASE job[j].tx < Len(job[j].plan)
  <2>1. job'[j] = [job[j] EXCEPT !.tx = job[j].tx + 1, !.pos = 0]
    BY <1>1, <1>5 DEF Commit
  <2>2. /\ job'[j].pc = "run" /\ job'[j].load = job[j].load /\ job'[j].plan = job[j].plan
        /\ job'[j].tx = job[j].tx + 1 /\ job'[j].pos = 0 /\ job'[j] \in JobType
    <3>1. job[j].tx + 1 \in Nat /\ 0 \in Nat
      BY <1>2
    <3>2. job'[j] \in JobType
      BY <1>2, <2>1, <3>1 DEF JobType
    <3>3. QED
      BY <1>2, <2>1, <3>2 DEF JobType
  <2>3. job' \in [Job -> JobType]
    BY <1>1, <1>3, <2>2 DEF Commit
  <2>4. job[j].tx + 1 \in DOMAIN job[j].plan
    BY <1>1, <1>2, <1>5, PlanDomain DEF PlanInv
  <2>5. Rows(j)' = job[j].plan[job[j].tx + 1]
    BY <2>2 DEF Rows
  <2>6. Len(Rows(j)') \in Nat
    BY <1>1, <1>2, <2>4, <2>5, PlanRows DEF PlanInv
  <2>7. PlanInv'
    <3>1. ASSUME NEW h \in Job, job'[h].pc = "run"
          PROVE  /\ \/ job'[h].load = <<>> /\ job'[h].plan \in SyncPlans
                    \/ \E l \in Loads :
                         /\ job'[h].load = <<l>>
                         /\ ((InItemOrder(l) /\ job'[h].plan = JsonPlan(l)) \/ job'[h].plan = CsvPlan(l))
                 /\ job'[h].tx \in DOMAIN job'[h].plan
                 /\ job'[h].pos \in 0 .. Len(Rows(h)')
      <4>1. CASE h = j
        BY <4>1, <1>1, <1>2, <2>2, <2>4, <2>6 DEF PlanInv
      <4>2. CASE h # j
        BY <4>2, <1>1, <1>3, <1>4, <3>1 DEF PlanInv
      <4>3. QED
        BY <4>1, <4>2
    <3>2. QED
      BY <2>3, <3>1 DEF PlanInv
  <2>8. Held(j)' = {}
    BY <2>2 DEF Held
  <2>9. Exclusive'
    BY <1>4, <2>8 DEF BulkInv, Exclusive
  <2>10. QED
    BY <2>7, <2>9, CommitSaves DEF BulkInv
<1>6. CASE ~ (job[j].tx < Len(job[j].plan))
  <2>1. job'[j] = [job[j] EXCEPT !.pc = "done", !.load = <<>>]
    BY <1>1, <1>6 DEF Commit
  <2>2. job'[j].pc = "done" /\ job'[j] \in JobType
    BY <1>2, <2>1 DEF JobType
  <2>3. job' \in [Job -> JobType]
    BY <1>1, <1>3, <2>2 DEF Commit
  <2>4. PlanInv'
    BY <1>1, <1>3, <1>4, <2>2, <2>3 DEF PlanInv
  <2>5. Held(j)' = {}
    BY <2>2 DEF Held
  <2>6. Exclusive'
    BY <1>4, <2>5 DEF BulkInv, Exclusive
  <2>7. QED
    BY <2>4, <2>6, CommitSaves DEF BulkInv
<1>7. QED
  BY <1>5, <1>6

LEMMA NextKeeps == BulkInv /\ [Next]_vars => BulkInv'
<1> SUFFICES ASSUME BulkInv, [Next]_vars PROVE BulkInv'
  OBVIOUS
<1>1. CASE UNCHANGED vars
  <2>1. job' = job /\ saved' = saved
    BY <1>1 DEF vars
  <2>2. \A j \in Job : Rows(j)' = Rows(j) /\ Held(j)' = Held(j)
    BY <2>1 DEF Held, Rows
  <2>3. PlanInv'
    BY <2>1, <2>2 DEF BulkInv, PlanInv
  <2>4. Exclusive'
    BY <2>2 DEF BulkInv, Exclusive
  <2>5. QED
    BY <2>1, <2>3, <2>4 DEF BulkInv, SavedInv, LoadsAsOne
<1>2. ASSUME NEW j \in Job, NEW plan \in PricePlans \cup MacroPlans \cup TickerPlans, StartSync(j, plan)
      PROVE  BulkInv'
  <2>1. 1 \in DOMAIN plan
    <3>1. CASE plan \in MacroPlans
      BY <3>1, BulkNumbers DEF MacroPlans, Code
    <3>2. CASE plan \in PricePlans \cup TickerPlans
      BY <3>2 DEF PricePlans, TickerPlans
    <3>3. QED
      BY <3>1, <3>2
  <2>2. plan \in SyncPlans /\ plan \in Plans
    BY DEF SyncPlans, Plans
  <2>3. QED
    BY <1>2, <2>1, <2>2, StartKeeps DEF StartSync
<1>3. ASSUME NEW j \in Job, NEW l \in Loads, NEW plan \in {JsonPlan(l), CsvPlan(l)}, StartLoad(j, l, plan),
             plan = JsonPlan(l) => InItemOrder(l)
      PROVE  BulkInv'
  <2>1. plan \in Plans /\ 1 \in DOMAIN plan
    BY DEF Plans, JsonPlan, CsvPlan
  <2>2. QED
    BY <1>3, <2>1, StartKeeps DEF StartLoad
<1>4. ASSUME NEW j \in Job, NEW l \in Loads, InItemOrder(l) /\ StartLoad(j, l, JsonPlan(l))
      PROVE  BulkInv'
  BY <1>3, <1>4
<1>5. ASSUME NEW j \in Job, NEW l \in Loads, StartLoad(j, l, CsvPlan(l))
      PROVE  BulkInv'
  <2>1. CsvPlan(l) # JsonPlan(l)
    BY DEF CsvPlan, JsonPlan
  <2>2. QED
    BY <1>3, <1>5, <2>1
<1>6. ASSUME NEW j \in Job, Victim(j) \/ Fail(j)
      PROVE  BulkInv'
  BY <1>6, FailKeeps DEF Victim, Fail
<1>7. QED
  BY <1>1, <1>2, <1>4, <1>5, <1>6, TakeKeeps, CommitKeeps DEF Next

\* The inductive invariant: requests follow their plans, locks exclude, tables agree.
THEOREM BulkInvariant == Spec => []BulkInv
<1>1. Init => BulkInv
  BY InitBulk
<1>2. BulkInv /\ [Next]_vars => BulkInv'
  BY NextKeeps
<1>3. QED
  BY <1>1, <1>2, PTL DEF Spec

\* No row is locked by two requests, and every request is within its plan.
THEOREM LocksExclude == Spec => []LocksInv
<1>1. BulkInv => LocksInv
  <2> SUFFICES ASSUME BulkInv PROVE LocksInv
    OBVIOUS
  <2>1. \A j \in Job : job[j].pc \in {"new", "run", "done", "failed"}
    BY DEF BulkInv, PlanInv, JobType
  <2>2. ASSUME NEW j \in Job, job[j].pc = "run"
        PROVE  /\ job[j].tx \in DOMAIN job[j].plan
               /\ job[j].pos \in 0 .. Len(Rows(j))
               /\ \A p \in DOMAIN Rows(j) : Rows(j)[p] \in Row
    <3>1. RowSeq(Rows(j))
      BY <2>2, RunRows DEF BulkInv
    <3>2. QED
      BY <2>2, <3>1 DEF BulkInv, PlanInv, RowSeq
  <2>3. QED
    BY <2>1, <2>2 DEF LocksInv, BulkInv, SavedInv, Exclusive
<1>2. QED
  BY <1>1, BulkInvariant, PTL

\* Requests lose one of them to a deadlock only if a load has its items out of order or two
\* loads are of different dates, for any numbers of symbols, dates, series and requests.
THEOREM DeadlocksExplained == Spec => []DeadlockNeedsDisorder
<1>1. BulkInv => DeadlockNeedsDisorder
  BY OrderedNeverStuck DEF BulkInv
<1>2. QED
  BY <1>1, BulkInvariant, PTL

\* A request that its locks let go on: the guards of Take and Commit.
Free(j) ==
  job[j].pc = "run" /\ (job[j].pos = Len(Rows(j)) \/ (More(j) /\ \A h \in Job \ {j} : Wanted(j) \notin Held(h)))

\* Requests of which none can go on are waiting for one another.
LEMMA WaitersCircle ==
  ASSUME PlanInv, NEW j \in Job, job[j].pc = "run", \A h \in Job : ~Free(h)
  PROVE  Stuck({h \in Job : job[h].pc = "run"})
<1> DEFINE D == {h \in Job : job[h].pc = "run"}
<1>1. ASSUME NEW h \in D PROVE More(h) /\ \E k \in D \ {h} : Wanted(h) \in Held(k)
  <2>1. job[h].pos \in 0 .. Len(Rows(h)) /\ Len(Rows(h)) \in Nat
    BY RunRows DEF RowSeq
  <2>2. More(h)
    BY <2>1 DEF Free, More
  <2>3. PICK k \in Job \ {h} : Wanted(h) \in Held(k)
    BY <2>2 DEF Free
  <2>4. k \in D
    BY <2>3 DEF Held
  <2> QED BY <2>2, <2>3, <2>4
<1>2. D # {}
  OBVIOUS
<1> QED BY <1>1, <1>2 DEF Stuck

\* While no request under way has its items out of order and all loads under way have one date,
\* the locks always let one of them go on: the syncs and the loads of the daily batch need no
\* deadlock detector.  (What RequestsEnd adds is that it does go on.)
THEOREM OrderedRequestsGoOn ==
  Spec => [](/\ \E j \in Job : job[j].pc = "run"
             /\ \A j \in Job : job[j].pc = "run" => ~Disordered(j)
             /\ \A j, h \in Job : /\ job[j].pc = "run" /\ job[j].load # <<>>
                                  /\ job[h].pc = "run" /\ job[h].load # <<>>
                                 => job[j].load[1].date = job[h].load[1].date
             => \E j \in Job : Free(j))
<1>1. ASSUME BulkInv, NEW j \in Job, job[j].pc = "run",
             \A h \in Job : job[h].pc = "run" => ~Disordered(h),
             \A g, h \in Job : /\ job[g].pc = "run" /\ job[g].load # <<>>
                              /\ job[h].pc = "run" /\ job[h].load # <<>>
                             => job[g].load[1].date = job[h].load[1].date,
             \A h \in Job : ~Free(h)
      PROVE  FALSE
  <2> DEFINE D == {h \in Job : job[h].pc = "run"}
  <2>1. Stuck(D)
    BY <1>1, WaitersCircle DEF BulkInv
  <2>2. \/ \E h \in D : Disordered(h)
        \/ \E g, h \in D : job[g].load # <<>> /\ job[h].load # <<>> /\ job[g].load[1].date # job[h].load[1].date
    BY <1>1, <2>1, OrderedNeverStuck DEF BulkInv, DeadlockNeedsDisorder
  <2> QED BY <1>1, <2>2
<1>2. BulkInv =>
        (/\ \E j \in Job : job[j].pc = "run"
         /\ \A j \in Job : job[j].pc = "run" => ~Disordered(j)
         /\ \A j, h \in Job : /\ job[j].pc = "run" /\ job[j].load # <<>>
                              /\ job[h].pc = "run" /\ job[h].load # <<>>
                             => job[j].load[1].date = job[h].load[1].date
         => \E j \in Job : Free(j))
  BY <1>1
<1>3. QED
  BY <1>2, BulkInvariant, PTL

\* The committed grade of a ticker and the prediction it was derived from are of one load.
THEOREM LoadsAreAtomic == Spec => []LoadsAsOne
<1>1. BulkInv => LoadsAsOne
  BY DEF BulkInv
<1>2. QED
  BY <1>1, BulkInvariant, PTL
------------------------------------------------------------------------------
(* Loads are atomic *)

\* The rows of a list of rows.
LEMMA ListRange ==
  ASSUME NEW k \in Nat, NEW R, R = [i \in 1 .. k |-> R[i]]
  PROVE  Len(R) = k
<1>1. R \in [1 .. k -> {R[i] : i \in 1 .. k}]
  <2>1. \A i \in 1 .. k : R[i] \in {R[x] : x \in 1 .. k}
    OBVIOUS
  <2> QED BY <2>1
<1> QED BY <1>1, FunctionIsList

\* The rows of a transaction, and those of a load of S at d with features for X.
RowsIn(R) == {R[p] : p \in 1 .. Len(R)}
RowsOfLoad(S, X, d) ==
  {<<"pred", t, d>> : t \in S} \cup {<<"grade", t, 0>> : t \in S} \cup {<<"xai", t, d>> : t \in X}

\* What the first transaction of a load writes, and a JSON load in all: the predictions and
\* grades of its items, and features of those in story.
LEMMA LoadWrites ==
  ASSUME NEW l \in Loads, NEW story, Len(story) \in Nat, DOMAIN story = 1 .. Len(story)
  PROVE  RowsIn(LoadRows(l.date, l.items, l.ranks, story)) = RowsOfLoad(Values(l.items), Values(story), l.date)
<1> DEFINE n == Len(l.items)
           m == Len(story)
           d == l.date
           R == LoadRows(d, l.items, l.ranks, story)
<1>1. n \in Nat /\ m \in Nat /\ 2 * n + m \in Nat
  BY LoadFacts
<1>2. Len(R) = 2 * n + m
  <2>1. R = [i \in 1 .. 2 * n + m |-> R[i]]
    BY DEF LoadRows
  <2> HIDE DEF R, n, m
  <2> QED BY <1>1, <2>1, ListRange
<1>3. \A i \in 1 .. n : i \in 1 .. Len(R) /\ R[i] = <<"pred", l.items[i], d>>
  BY <1>1, <1>2 DEF LoadRows
<1>4. \A i \in 1 .. n : n + i \in 1 .. Len(R) /\ R[n + i] = <<"grade", l.ranks[i], 0>>
  BY <1>1, <1>2 DEF LoadRows
<1>5. \A i \in 1 .. m : 2 * n + i \in 1 .. Len(R) /\ R[2 * n + i] = <<"xai", story[i], d>>
  BY <1>1, <1>2 DEF LoadRows
<1>6. \A p \in 1 .. Len(R) :
        \/ p \in 1 .. n
        \/ p - n \in 1 .. n /\ p = n + (p - n)
        \/ p - 2 * n \in 1 .. m /\ p = 2 * n + (p - 2 * n)
  BY <1>1, <1>2
<1>7. /\ Values(l.items) = {l.items[i] : i \in 1 .. n} /\ Values(l.items) = {l.ranks[i] : i \in 1 .. n}
      /\ Values(story) = {story[i] : i \in 1 .. m}
  <2>1. Values(l.items) = {l.items[i] : i \in 1 .. n}
    BY LoadFacts DEF Values
  <2>2. Values(l.ranks) = {l.ranks[i] : i \in 1 .. n}
    BY LoadFacts DEF Values
  <2>3. Values(l.ranks) = Values(l.items)
    BY DEF Loads
  <2>4. Values(story) = {story[i] : i \in 1 .. m}
    BY DEF Values
  <2> QED BY <2>1, <2>2, <2>3, <2>4
<1> HIDE DEF R, n, m, d
<1>8. ASSUME NEW p \in 1 .. Len(R)
      PROVE  R[p] \in {<<"pred", t, d>> : t \in Values(l.items)} \cup {<<"grade", t, 0>> : t \in Values(l.items)}
                      \cup {<<"xai", t, d>> : t \in Values(story)}
  BY <1>3, <1>4, <1>5, <1>6, <1>7
<1>9. ASSUME NEW t \in Values(l.items) PROVE <<"pred", t, d>> \in {R[p] : p \in 1 .. Len(R)}
  BY <1>3, <1>7
<1>10. ASSUME NEW t \in Values(l.items) PROVE <<"grade", t, 0>> \in {R[p] : p \in 1 .. Len(R)}
  BY <1>4, <1>7
<1>11. ASSUME NEW t \in Values(story) PROVE <<"xai", t, d>> \in {R[p] : p \in 1 .. Len(R)}
  BY <1>5, <1>7
<1>12. {R[p] : p \in 1 .. Len(R)} =
         {<<"pred", t, d>> : t \in Values(l.items)} \cup {<<"grade", t, 0>> : t \in Values(l.items)}
         \cup {<<"xai", t, d>> : t \in Values(story)}
  BY <1>8, <1>9, <1>10, <1>11
<1> QED BY <1>12 DEF R, d, RowsIn, RowsOfLoad

\* What the second transaction of a CSV load writes.
LEMMA StoryWrites ==
  ASSUME NEW l \in Loads
  PROVE  RowsIn([i \in DOMAIN l.story |-> <<"xai", l.story[i], l.date>>]) = RowsOfLoad({}, Values(l.story), l.date)
<1> DEFINE m == Len(l.story)
           R == [i \in DOMAIN l.story |-> <<"xai", l.story[i], l.date>>]
<1>1. m \in Nat /\ DOMAIN l.story = 1 .. m
  BY LoadFacts
<1>2. Len(R) = m
  <2>1. R = [i \in 1 .. m |-> R[i]]
    BY <1>1
  <2> HIDE DEF R, m
  <2> QED BY <1>1, <2>1, ListRange
<1>3. \A i \in 1 .. m : R[i] = <<"xai", l.story[i], l.date>>
  BY <1>1
<1>4. Values(l.story) = {l.story[i] : i \in 1 .. m}
  BY <1>1 DEF Values
<1> HIDE DEF R, m
<1>5. {R[p] : p \in 1 .. Len(R)} = {<<"xai", t, l.date>> : t \in Values(l.story)}
  <2>1. {R[p] : p \in 1 .. Len(R)} = {<<"xai", l.story[p], l.date>> : p \in 1 .. m}
    BY <1>2, <1>3
  <2>2. \A r : r \in {<<"xai", l.story[p], l.date>> : p \in 1 .. m}
              <=> r \in {<<"xai", t, l.date>> : t \in Values(l.story)}
    BY <1>4
  <2> QED BY <2>1, <2>2
<1>6. RowsOfLoad({}, Values(l.story), l.date) = {<<"xai", t, l.date>> : t \in Values(l.story)}
  BY DEF RowsOfLoad
<1> QED BY <1>5, <1>6 DEF R, RowsIn

\* The refinement mapping, by parts.
PredOf == [t \in Ticker |-> [d \in Day |-> saved[<<"pred", t, d>>].by]]
GradeOf == [t \in Ticker |-> saved[<<"grade", t, 0>>]]
FeatOf == [t \in Ticker |-> [d \in Day |-> saved[<<"xai", t, d>>].by]]
OpenOf == {LoadOf(j) : j \in {h \in Job : Between(h)}}

\* A load of S at d by j, with features for X, becomes visible.
Published(j, S, X, d) ==
  /\ PredOf' = [t \in Ticker |-> [e \in Day |-> IF t \in S /\ e = d THEN j ELSE PredOf[t][e]]]
  /\ GradeOf' = [t \in Ticker |-> IF t \in S THEN [by |-> j, asOf |-> d] ELSE GradeOf[t]]
  /\ FeatOf' = [t \in Ticker |-> [e \in Day |-> IF t \in X /\ e = d THEN j ELSE FeatOf[t][e]]]

\* What a commit that holds the rows of a load publishes.
LEMMA CommitPublishes ==
  ASSUME SavedInv, NEW j \in Job, Commit(j), NEW S \in SUBSET Ticker, NEW X \in SUBSET Ticker,
         NEW d \in Day, DateOf(j) = d, Held(j) = RowsOfLoad(S, X, d)
  PROVE  Published(j, S, X, d)
<1>1. saved' = [r \in Row |-> IF r \in Held(j) THEN [by |-> j, asOf |-> d] ELSE saved[r]]
  BY DEF Commit
<1>2. \A t \in Ticker, e \in Day : <<"pred", t, e>> \in Row /\ <<"xai", t, e>> \in Row
  BY DEF Row
<1>3. \A t \in Ticker : <<"grade", t, 0>> \in Row
  BY DEF Row
<1>4. ASSUME NEW t \in Ticker, NEW e \in Day
      PROVE  /\ <<"pred", t, e>> \in Held(j) <=> t \in S /\ e = d
             /\ <<"grade", t, 0>> \in Held(j) <=> t \in S
             /\ <<"xai", t, e>> \in Held(j) <=> t \in X /\ e = d
  BY DEF RowsOfLoad
<1>5. ASSUME NEW t \in Ticker, NEW e \in Day
      PROVE  saved'[<<"pred", t, e>>].by = IF t \in S /\ e = d THEN j ELSE saved[<<"pred", t, e>>].by
  BY <1>1, <1>2, <1>4
<1>6. ASSUME NEW t \in Ticker
      PROVE  saved'[<<"grade", t, 0>>] = IF t \in S THEN [by |-> j, asOf |-> d] ELSE saved[<<"grade", t, 0>>]
  BY <1>1, <1>3, <1>4
<1>7. ASSUME NEW t \in Ticker, NEW e \in Day
      PROVE  saved'[<<"xai", t, e>>].by = IF t \in X /\ e = d THEN j ELSE saved[<<"xai", t, e>>].by
  BY <1>1, <1>2, <1>4
<1> QED BY <1>5, <1>6, <1>7 DEF Published, PredOf, GradeOf, FeatOf

\* A commit that holds no row of a load publishes nothing of one.
LEMMA CommitHides ==
  ASSUME SavedInv, NEW j \in Job, Commit(j), \A r \in Held(j) : r[1] \notin {"pred", "grade", "xai"}
  PROVE  UNCHANGED <<PredOf, GradeOf, FeatOf>>
<1>1. saved' = [r \in Row |-> IF r \in Held(j) THEN [by |-> j, asOf |-> DateOf(j)] ELSE saved[r]]
  BY DEF Commit
<1>2. \A t \in Ticker, e \in Day : <<"pred", t, e>> \in Row /\ <<"xai", t, e>> \in Row
  BY DEF Row
<1>3. \A t \in Ticker : <<"grade", t, 0>> \in Row
  BY DEF Row
<1>4. ASSUME NEW t \in Ticker, NEW e \in Day
      PROVE  /\ saved'[<<"pred", t, e>>] = saved[<<"pred", t, e>>]
             /\ saved'[<<"xai", t, e>>] = saved[<<"xai", t, e>>]
  BY <1>1, <1>2
<1>5. ASSUME NEW t \in Ticker PROVE saved'[<<"grade", t, 0>>] = saved[<<"grade", t, 0>>]
  BY <1>1, <1>3
<1> QED BY <1>4, <1>5 DEF PredOf, GradeOf, FeatOf

\* The sets a load is about.
LEMMA LoadSets ==
  ASSUME NEW l \in Loads
  PROVE  /\ l.date \in Day /\ Values(l.items) \in SUBSET Ticker /\ Values(l.items) # {}
         /\ Values(l.story) \in SUBSET Values(l.items) /\ Values(l.story) \in SUBSET Ticker
<1>1. l.date \in Day /\ DOMAIN l.items = 1 .. Len(l.items) /\ \A i \in 1 .. Len(l.items) : l.items[i] \in Ticker
  BY LoadFacts
<1>2. Values(l.items) \in SUBSET Ticker
  BY <1>1 DEF Values
<1>3. Values(l.story) \subseteq Values(l.items)
  BY DEF Loads
<1>4. l.items[1] \in Values(l.items)
  <2>1. 1 \in DOMAIN l.items
    BY <1>1 DEF Loads
  <2> QED BY <2>1 DEF Values
<1> QED BY <1>1, <1>2, <1>3, <1>4

\* A request that is not between two transactions, before and after a step of its own.
LEMMA OpenStays ==
  ASSUME NEW j \in Job, \A h \in Job \ {j} : job'[h] = job[h], ~Between(j), ~Between(j)'
  PROVE  UNCHANGED OpenOf
<1>1. \A h \in Job \ {j} : (Between(h)' <=> Between(h)) /\ LoadOf(h)' = LoadOf(h)
  BY DEF Between, LoadOf
<1>2. \A h \in Job : Between(h)' <=> Between(h)
  BY <1>1
<1> QED BY <1>1, <1>2 DEF OpenOf

\* A request that enters its second transaction.
LEMMA OpenGrows ==
  ASSUME NEW j \in Job, \A h \in Job \ {j} : job'[h] = job[h], ~Between(j), Between(j)'
  PROVE  OpenOf' = OpenOf \cup {LoadOf(j)'} /\ \A o \in OpenOf : o.by # j
<1>1. \A h \in Job \ {j} : (Between(h)' <=> Between(h)) /\ LoadOf(h)' = LoadOf(h)
  BY DEF Between, LoadOf
<1>2. OpenOf' = OpenOf \cup {LoadOf(j)'}
  BY <1>1 DEF OpenOf
<1>3. \A o \in OpenOf : o.by # j
  BY DEF OpenOf, LoadOf
<1> QED BY <1>2, <1>3

\* A request that leaves its second transaction.
LEMMA OpenShrinks ==
  ASSUME NEW j \in Job, \A h \in Job \ {j} : job'[h] = job[h], Between(j), ~Between(j)'
  PROVE  OpenOf' = OpenOf \ {LoadOf(j)} /\ LoadOf(j) \in OpenOf
<1>1. \A h \in Job \ {j} : (Between(h)' <=> Between(h)) /\ LoadOf(h)' = LoadOf(h) /\ LoadOf(h) # LoadOf(j)
  BY DEF Between, LoadOf
<1> QED BY <1>1 DEF OpenOf

\* The second transaction of a load is that of a CSV load.
LEMMA SecondIsCsv ==
  ASSUME PlanInv, NEW j \in Job, Between(j)
  PROVE  \E l \in Loads : job[j].load = <<l>> /\ job[j].plan = CsvPlan(l)
<1>1. job[j].pc = "run" /\ job[j].load # <<>> /\ job[j].tx = 2 /\ job[j].tx \in DOMAIN job[j].plan
  BY DEF Between, PlanInv
<1>2. PICK l \in Loads : job[j].load = <<l>> /\ (job[j].plan = JsonPlan(l) \/ job[j].plan = CsvPlan(l))
  BY <1>1 DEF PlanInv
<1>3. job[j].plan # JsonPlan(l)
  BY <1>1 DEF JsonPlan
<1> QED BY <1>2, <1>3

\* Every step of a request that is not a commit leaves the tables, and may drop its load.
LEMMA QuietMaps ==
  ASSUME PlanInv, UNCHANGED saved, NEW j \in Job, \A h \in Job \ {j} : job'[h] = job[h],
         Between(j)' => Between(j) /\ LoadOf(j)' = LoadOf(j)
  PROVE  Store!Next \/ UNCHANGED Store!store
<1>1. UNCHANGED <<PredOf, GradeOf, FeatOf>>
  BY DEF PredOf, GradeOf, FeatOf
<1>2. CASE Between(j) /\ ~Between(j)'
  <2>1. OpenOf' = OpenOf \ {LoadOf(j)} /\ LoadOf(j) \in OpenOf
    BY <1>2, OpenShrinks
  <2>2. Store!Drop(LoadOf(j))
    BY <1>1, <2>1 DEF Store!Drop, PredOf, GradeOf, FeatOf, OpenOf
  <2> QED BY <2>1, <2>2 DEF Store!Next, OpenOf
<1>3. CASE ~Between(j) /\ ~Between(j)'
  BY <1>1, <1>3, OpenStays DEF Store!store, PredOf, GradeOf, FeatOf, OpenOf
<1>4. CASE Between(j)'
  <2>1. \A h \in Job : (Between(h)' <=> Between(h)) /\ LoadOf(h)' = LoadOf(h)
    BY <1>4 DEF Between, LoadOf
  <2>2. UNCHANGED OpenOf
    BY <2>1 DEF OpenOf
  <2> QED BY <1>1, <2>2 DEF Store!store, PredOf, GradeOf, FeatOf, OpenOf
<1> QED BY <1>2, <1>3, <1>4

\* A commit is a load, the features of one, or, of a sync, nothing to the readers of loads.
LEMMA CommitMaps ==
  ASSUME BulkInv, NEW j \in Job, Commit(j)
  PROVE  Store!Next \/ UNCHANGED Store!store
<1>1. PlanInv /\ SavedInv /\ job \in [Job -> JobType] /\ job[j].pc = "run" /\ job[j].pos = Len(Rows(j))
  BY DEF BulkInv, PlanInv, Commit
<1>2. /\ job[j] \in JobType /\ job[j].tx \in DOMAIN job[j].plan /\ job[j].tx \in Nat
      /\ \A h \in Job \ {j} : job'[h] = job[h]
  BY <1>1 DEF Commit, PlanInv, JobType
<1>3. RowSeq(Rows(j)) /\ Held(j) = RowsIn(Rows(j))
  BY <1>1, RunRows DEF Held, RowsIn
<1>4. \/ job'[j] = [job[j] EXCEPT !.tx = job[j].tx + 1, !.pos = 0] /\ job[j].tx < Len(job[j].plan)
      \/ job'[j] = [job[j] EXCEPT !.pc = "done", !.load = <<>>] /\ ~(job[j].tx < Len(job[j].plan))
  BY <1>1 DEF Commit
<1>f. \/ /\ job[j].tx < Len(job[j].plan)
         /\ job'[j].pc = job[j].pc /\ job'[j].load = job[j].load /\ job'[j].tx = job[j].tx + 1
      \/ job'[j].pc = "done" /\ ~(job[j].tx < Len(job[j].plan))
  <2>1. ASSUME job'[j] = [job[j] EXCEPT !.tx = job[j].tx + 1, !.pos = 0]
        PROVE  job'[j].pc = job[j].pc /\ job'[j].load = job[j].load /\ job'[j].tx = job[j].tx + 1
    BY <1>2, <2>1 DEF JobType
  <2>2. ASSUME job'[j] = [job[j] EXCEPT !.pc = "done", !.load = <<>>]
        PROVE  job'[j].pc = "done"
    BY <1>2, <2>2 DEF JobType
  <2> QED BY <1>4, <2>1, <2>2
<1>5. CASE job[j].load = <<>>
  <2>1. ~Between(j) /\ ~Between(j)'
    BY <1>f, <1>5 DEF Between
  <2>2. SyncShape(Rows(j))
    BY <1>1, <1>5, RunShape
  <2>3. \A r \in Held(j) : r[1] \notin {"pred", "grade", "xai"}
    BY <1>3, <2>2 DEF SyncShape, RowsIn
  <2>4. UNCHANGED <<PredOf, GradeOf, FeatOf>>
    BY <1>1, <2>3, CommitHides
  <2> QED BY <1>2, <2>1, <2>4, OpenStays DEF Store!store, PredOf, GradeOf, FeatOf, OpenOf
<1>6. ASSUME NEW l \in Loads, job[j].load = <<l>>, job[j].plan = JsonPlan(l) PROVE Store!Next
  <2> DEFINE S == Values(l.items)
             X == Values(l.story)
  <2>1. S \in SUBSET Ticker /\ S # {} /\ X \in SUBSET S /\ X \in SUBSET Ticker /\ l.date \in Day
    BY LoadSets
  <2>2. DateOf(j) = l.date
    BY <1>6 DEF DateOf
  <2>3. job[j].tx = 1 /\ Len(job[j].plan) = 1 /\ Rows(j) = LoadRows(l.date, l.items, l.ranks, l.story)
    BY <1>2, <1>6 DEF JsonPlan, Rows
  <2>4. ~Between(j) /\ ~Between(j)'
    BY <1>f, <2>3 DEF Between
  <2>5. Held(j) = RowsOfLoad(S, X, l.date)
    BY <1>3, <2>3, LoadFacts, LoadWrites
  <2>6. UNCHANGED OpenOf /\ \A o \in OpenOf : o.by # j
    BY <1>2, <2>4, OpenStays DEF OpenOf, LoadOf
  <2> HIDE DEF S, X
  <2>7. Published(j, S, X, l.date)
    BY <1>1, <2>1, <2>2, <2>5, CommitPublishes
  <2>8. Store!LoadJson(j, S, l.date, X)
    BY <2>6, <2>7 DEF Published, Store!LoadJson, Store!Publish, Store!Explain, PredOf, GradeOf, FeatOf, OpenOf
  <2>9. S \in (SUBSET Ticker) \ {{}}
    BY <2>1
  <2> QED BY <2>1, <2>8, <2>9 DEF Store!Next
<1>7. ASSUME NEW l \in Loads, job[j].load = <<l>>, job[j].plan = CsvPlan(l), job[j].tx = 1 PROVE Store!Next
  <2> DEFINE S == Values(l.items)
             X == Values(<<>>)
  <2>1. S \in SUBSET Ticker /\ S # {} /\ X = {} /\ X \in SUBSET Ticker /\ l.date \in Day
    BY LoadSets DEF Values
  <2>2. DateOf(j) = l.date
    BY <1>7 DEF DateOf
  <2>3. Len(job[j].plan) = 2 /\ Rows(j) = LoadRows(l.date, l.items, l.ranks, <<>>)
    BY <1>7 DEF CsvPlan, Rows
  <2>4. /\ ~Between(j) /\ Between(j)'
        /\ LoadOf(j)' = [by |-> j, tickers |-> S, date |-> l.date]
    BY <1>1, <1>f, <1>7, <2>3 DEF Between, LoadOf
  <2>5. Held(j) = RowsOfLoad(S, X, l.date)
    <3>1. Len(<<>>) \in Nat /\ DOMAIN <<>> = 1 .. Len(<<>>)
      OBVIOUS
    <3> QED BY <1>3, <2>3, <3>1, LoadWrites
  <2>6. /\ OpenOf' = OpenOf \cup {[by |-> j, tickers |-> S, date |-> l.date]}
        /\ \A o \in OpenOf : o.by # j
    BY <1>2, <2>4, OpenGrows
  <2> HIDE DEF S, X
  <2>7. Published(j, S, X, l.date)
    BY <1>1, <2>1, <2>2, <2>5, CommitPublishes
  <2>8. FeatOf' = FeatOf
    BY <2>1, <2>7 DEF Published, FeatOf
  <2>9. Store!LoadCsv(j, S, l.date)
    BY <2>6, <2>7, <2>8 DEF Published, Store!LoadCsv, Store!Publish, PredOf, GradeOf, FeatOf, OpenOf
  <2>10. S \in (SUBSET Ticker) \ {{}}
    BY <2>1
  <2> QED BY <2>1, <2>9, <2>10 DEF Store!Next
<1>8. ASSUME NEW l \in Loads, job[j].load = <<l>>, job[j].plan = CsvPlan(l), job[j].tx = 2 PROVE Store!Next
  <2> DEFINE X == Values(l.story)
  <2>o. PICK o : o = LoadOf(j)
    OBVIOUS
  <2>1. X \in SUBSET Ticker /\ {} \in SUBSET Ticker /\ X \subseteq Values(l.items) /\ l.date \in Day
    BY LoadSets
  <2>2. DateOf(j) = l.date /\ o = [by |-> j, tickers |-> Values(l.items), date |-> l.date]
    BY <1>8, <2>o DEF DateOf, LoadOf
  <2>3. Len(job[j].plan) = 2 /\ Rows(j) = [i \in DOMAIN l.story |-> <<"xai", l.story[i], l.date>>]
    BY <1>8 DEF CsvPlan, Rows
  <2>4. Between(j) /\ ~Between(j)'
    BY <1>1, <1>f, <1>8, <2>3 DEF Between
  <2>5. Held(j) = RowsOfLoad({}, X, l.date)
    BY <1>3, <2>3, StoryWrites
  <2>6. OpenOf' = OpenOf \ {o} /\ o \in OpenOf
    BY <1>2, <2>4, <2>o, OpenShrinks
  <2> HIDE DEF X
  <2>7. Published(j, {}, X, l.date)
    BY <1>1, <2>1, <2>2, <2>5, CommitPublishes
  <2>8. PredOf' = PredOf /\ GradeOf' = GradeOf
    BY <2>7 DEF Published, PredOf, GradeOf
  <2>9. Store!LoadFeatures(o, X)
    BY <2>2, <2>6, <2>7, <2>8 DEF Published, Store!LoadFeatures, Store!Explain, PredOf, GradeOf, FeatOf, OpenOf
  <2>10. X \in SUBSET o.tickers
    BY <2>1, <2>2
  <2>11. \E w \in OpenOf : \E Y \in SUBSET w.tickers : Store!LoadFeatures(w, Y)
    BY <2>6, <2>9, <2>10
  <2> QED BY <2>11 DEF Store!Next, OpenOf
<1>9. ASSUME NEW l \in Loads, job[j].plan = CsvPlan(l) PROVE job[j].tx \in {1, 2}
  BY <1>2, <1>9 DEF CsvPlan
<1> QED BY <1>1, <1>5, <1>6, <1>7, <1>8, <1>9 DEF PlanInv

\* Every step of a request is one of the atomic loads, or is not seen by their readers.
LEMMA StoreMaps == BulkInv /\ [Next]_vars => [Store!Next]_(Store!store)
<1> SUFFICES ASSUME BulkInv, [Next]_vars PROVE Store!Next \/ UNCHANGED Store!store
  OBVIOUS
<1>1. PlanInv /\ job \in [Job -> JobType]
  BY DEF BulkInv, PlanInv
<1>2. CASE UNCHANGED vars
  <2>1. job' = job /\ saved' = saved
    BY <1>2 DEF vars
  <2>2. UNCHANGED <<PredOf, GradeOf, FeatOf, OpenOf>>
    BY <2>1 DEF PredOf, GradeOf, FeatOf, OpenOf, Between, LoadOf
  <2> QED BY <2>2 DEF Store!store, PredOf, GradeOf, FeatOf, OpenOf
<1>3. ASSUME NEW j \in Job, NEW plan, StartSync(j, plan) PROVE Store!Next \/ UNCHANGED Store!store
  <2>1. UNCHANGED saved /\ (\A h \in Job \ {j} : job'[h] = job[h]) /\ ~Between(j)'
    BY <1>1, <1>3 DEF StartSync, Between
  <2> QED BY <1>1, <2>1, QuietMaps
<1>4. ASSUME NEW j \in Job, NEW l, NEW plan, StartLoad(j, l, plan) PROVE Store!Next \/ UNCHANGED Store!store
  <2>1. UNCHANGED saved /\ (\A h \in Job \ {j} : job'[h] = job[h]) /\ ~Between(j)'
    BY <1>1, <1>4 DEF StartLoad, Between
  <2> QED BY <1>1, <2>1, QuietMaps
<1>5. ASSUME NEW j \in Job, Take(j) PROVE Store!Next \/ UNCHANGED Store!store
  <2>1. /\ UNCHANGED saved /\ \A h \in Job \ {j} : job'[h] = job[h]
        /\ job'[j].pc = job[j].pc /\ job'[j].load = job[j].load /\ job'[j].tx = job[j].tx
    BY <1>1, <1>5 DEF Take, JobType
  <2>2. Between(j)' => Between(j) /\ LoadOf(j)' = LoadOf(j)
    BY <2>1 DEF Between, LoadOf
  <2> QED BY <1>1, <2>1, <2>2, QuietMaps
<1>6. ASSUME NEW j \in Job, Victim(j) \/ Fail(j) PROVE Store!Next \/ UNCHANGED Store!store
  <2>1. UNCHANGED saved /\ (\A h \in Job \ {j} : job'[h] = job[h]) /\ job'[j].pc = "failed"
    BY <1>1, <1>6 DEF Victim, Fail, NewJob
  <2>2. ~Between(j)'
    BY <2>1 DEF Between
  <2> QED BY <1>1, <2>1, <2>2, QuietMaps
<1>7. ASSUME NEW j \in Job, Commit(j) PROVE Store!Next \/ UNCHANGED Store!store
  BY <1>7, CommitMaps
<1> QED BY <1>2, <1>3, <1>4, <1>5, <1>6, <1>7 DEF Next

\* However many loads and syncs overlap, wait for each other, lose a deadlock or fail, what is
\* committed of predictions, grades and features is what whole loads leave, each done at once
\* (ingest_predictions_from_json, ingest_predictions_from_csv, ingest_xai_from_csv): what
\* RiskStore takes as one step is one, for any numbers of symbols, dates and requests.
THEOREM LoadsImplemented == Spec => StoreSpec
<1>1. Init => Store!Init
  <2> SUFFICES ASSUME Init PROVE Store!Init
    OBVIOUS
  <2>1. \A r \in Row : saved[r] = [by |-> NoJob, asOf |-> 0]
    BY DEF Init
  <2>2. \A t \in Ticker, d \in Day : <<"pred", t, d>> \in Row /\ <<"xai", t, d>> \in Row
    BY DEF Row
  <2>3. \A t \in Ticker : <<"grade", t, 0>> \in Row
    BY DEF Row
  <2>4. OpenOf = {}
    BY DEF Init, OpenOf, Between, NewJob
  <2>5. PredOf = [t \in Ticker |-> [d \in Day |-> NoJob]] /\ FeatOf = [t \in Ticker |-> [d \in Day |-> NoJob]]
    <3>1. \A t \in Ticker, d \in Day : saved[<<"pred", t, d>>].by = NoJob /\ saved[<<"xai", t, d>>].by = NoJob
      <4> SUFFICES ASSUME NEW t \in Ticker, NEW d \in Day
                   PROVE  saved[<<"pred", t, d>>].by = NoJob /\ saved[<<"xai", t, d>>].by = NoJob
        OBVIOUS
      <4>1. /\ saved[<<"pred", t, d>>] = [by |-> NoJob, asOf |-> 0]
            /\ saved[<<"xai", t, d>>] = [by |-> NoJob, asOf |-> 0]
        BY <2>1, <2>2
      <4> QED BY <4>1
    <3> QED BY <3>1 DEF PredOf, FeatOf
  <2>6. GradeOf = [t \in Ticker |-> [by |-> NoJob, asOf |-> 0]]
    BY <2>1, <2>3 DEF GradeOf
  <2> QED BY <2>4, <2>5, <2>6 DEF Store!Init, PredOf, FeatOf, GradeOf, OpenOf
<1>2. QED
  BY <1>1, InitBulk, NextKeeps, StoreMaps, PTL DEF Spec, StoreSpec, Store!Spec
==============================================================================
