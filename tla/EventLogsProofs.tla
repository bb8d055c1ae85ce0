---------------------------- MODULE EventLogsProofs ----------------------------
(***************************************************************************)
(* Proofs about EventLogs, for any channels, requests, page size, window   *)
(* and number of rows.                                                     *)
(*                                                                         *)
(* KeysFollowTime rests on when a row is published: not before any row     *)
(* with a smaller id has begun (RowsInv).  PagesExact rests on the cursor: *)
(* what was due lies below it or has been seen (PageInv).                  *)
(***************************************************************************)
EXTENDS EventLogs, FiniteSetTheorems, SequenceTheorems, WellFoundedInduction, NaturalsInduction, TLAPS

RowType == [topic : Topic, key : Nat, since : Nat, shown : Nat]

WriteType == [pc : {"idle", "begun", "inserted"}, topic : Topic, key : Nat, since : Nat, id : Nat]

Begun == {w \in Writer : writer[w].pc = "begun"}

\* A row carries its request's start, and appears after all rows of smaller ids have begun.
RowsInv ==
  /\ now \in Nat \ {0}
  /\ rows \in Seq(RowType)
  /\ \A i \in DOMAIN rows :
       rows[i].key = rows[i].since /\ rows[i].since <= now /\ rows[i].shown < now
  /\ \A i, j \in DOMAIN rows : j <= i /\ rows[i].shown > 0 => rows[j].since <= rows[i].shown

\* A request that has inserted owns a row nobody sees; ids are left for those that have not.
WriterInv ==
  /\ writer \in [Writer -> WriteType]
  /\ \A w \in Writer :
       /\ writer[w].pc = "begun" => writer[w].key = writer[w].since /\ writer[w].since <= now
       /\ writer[w].pc = "inserted" => writer[w].id \in DOMAIN rows /\ rows[writer[w].id].shown = 0
  /\ \A v, w \in Writer : v # w /\ writer[v].pc = "inserted" /\ writer[w].pc = "inserted" =>
       writer[v].id # writer[w].id
  /\ Len(rows) + Cardinality(Begun) <= MaxRow
------------------------------------------------------------------------------
(* Sets of ids *)

\* A bounded nonempty set of numbers has a least element.
LEMMA Least ==
  ASSUME NEW S \in SUBSET Nat, S # {}
  PROVE  \E m \in S : \A x \in S : m <= x
<1>1. IsWellFoundedOn(OpToRel(<, Nat), Nat)
  BY NatLessThanWellFounded
<1>2. PICK y \in S : \A z \in S : ~ (<<z, y>> \in OpToRel(<, Nat))
  BY <1>1, WFMin
<1>3. ASSUME NEW x \in S PROVE y <= x
  <2>1. CASE x < y
    <3>1. <<x, y>> \in OpToRel(<, Nat)
      BY <2>1 DEF OpToRel
    <3> QED BY <3>1, <1>2
  <2>2. CASE ~ (x < y)
    BY <2>2
  <2> QED BY <2>1, <2>2
<1> QED BY <1>3

\* And, with a bound, a greatest.
LEMMA Greatest ==
  ASSUME NEW N \in Nat, NEW S \in SUBSET (0 .. N), S # {}
  PROVE  \E m \in S : \A x \in S : x <= m
<1> DEFINE T == {y \in 0 .. N : N - y \in S}
<1>1. PICK x0 \in S : TRUE
  OBVIOUS
<1>2. N - x0 \in T /\ T \in SUBSET Nat
  OBVIOUS
<1>3. PICK y \in T : \A z \in T : y <= z
  <2>1. T # {}
    BY <1>2
  <2> HIDE DEF T
  <2> QED BY <1>2, <2>1, Least
<1>4. ASSUME NEW x \in S PROVE x <= N - y
  <2>1. N - x \in T
    OBVIOUS
  <2>2. y <= N - x
    BY <2>1, <1>3
  <2> QED BY <2>2
<1> QED BY <1>4

\* The ids in use.
LEMMA Ids ==
  ASSUME RowsInv
  PROVE  /\ Len(rows) \in Nat /\ DOMAIN rows = 1 .. Len(rows)
         /\ \A i \in DOMAIN rows : rows[i] \in RowType
BY LenProperties DEF RowsInv

\* The rows of a topic that can be seen are finitely many.
LEMMA VisibleFinite ==
  ASSUME RowsInv, NEW k
  PROVE  Visible(k) \subseteq 1 .. Len(rows) /\ IsFiniteSet(Visible(k)) /\ Cardinality(Visible(k)) \in Nat
<1>1. Visible(k) \subseteq 1 .. Len(rows) /\ Len(rows) \in Nat
  BY Ids DEF Visible
<1>2. IsFiniteSet(Visible(k))
  <2>1. IsFiniteSet(1 .. Len(rows))
    BY <1>1, FS_Interval
  <2> QED BY <1>1, <2>1, FS_Subset
<1> QED BY <1>1, <1>2, FS_CardinalityType

\* Top takes a page from above: not empty if anything is there, and all of it above the rest.
LEMMA TopFacts ==
  ASSUME NEW n \in Nat, NEW S \in SUBSET (1 .. n)
  PROVE  /\ Top(S) \subseteq S
         /\ S # {} => Top(S) # {}
         /\ \A i \in Top(S), j \in S \ Top(S) : j < i
<1>0. S \in SUBSET (0 .. n) /\ \A x \in S : x \in Nat
  OBVIOUS
<1>1. IsFiniteSet(S)
  <2>1. IsFiniteSet(1 .. n)
    BY FS_Interval
  <2> QED BY <2>1, FS_Subset
<1>2. Top(S) \subseteq S
  BY DEF Top
<1>3. ASSUME S # {} PROVE Top(S) # {}
  <2>1. PICK m \in S : \A x \in S : x <= m
    BY <1>0, <1>3, Greatest
  <2>2. {j \in S : j > m} = {}
    <3>1. \A j \in S : j \in Nat /\ m \in Nat /\ j <= m
      BY <1>0, <2>1
    <3>2. \A j \in S : ~ (j > m)
      BY <3>1
    <3> QED BY <3>2
  <2>3. Cardinality({j \in S : j > m}) < PageSize
    BY <2>2, FS_EmptySet, EventNumbers
  <2> QED BY <2>3 DEF Top
<1>4. ASSUME NEW i \in Top(S), NEW j \in S \ Top(S) PROVE j < i
  <2>0. i \in Nat /\ j \in Nat
    BY <1>0, <1>2
  <2>1. SUFFICES ASSUME j >= i PROVE FALSE
    BY <2>0
  <2> DEFINE A == {x \in S : x > i}
             B == {x \in S : x > j}
  <2>2. B \subseteq A /\ A \subseteq S
    <3>1. i \in Nat /\ j \in Nat
      BY <1>0, <1>2
    <3>2. \A x \in S : x > j => x > i
      BY <1>0, <2>1, <3>1
    <3> QED BY <3>2
  <2>3. Cardinality(A) < PageSize
    BY <1>4 DEF Top
  <2>4. ~ (Cardinality(B) < PageSize)
    BY <1>4 DEF Top
  <2> HIDE DEF A, B
  <2>5. IsFiniteSet(A) /\ IsFiniteSet(B) /\ Cardinality(B) <= Cardinality(A)
    BY <1>1, <2>2, FS_Subset
  <2>6. Cardinality(A) \in Nat /\ Cardinality(B) \in Nat
    BY <2>5, FS_CardinalityType
  <2> QED BY <2>3, <2>4, <2>5, <2>6, EventNumbers
<1> QED BY <1>2, <1>3, <1>4

\* The last row of a page.
LEMMA LastFacts ==
  ASSUME NEW S \in SUBSET Nat, S # {}
  PROVE  Last(S) \in S /\ \A i \in S : Last(S) <= i
<1>1. \E m \in S : \A x \in S : m <= x
  BY Least
<1> QED BY <1>1 DEF Last
------------------------------------------------------------------------------
(* Adding rows *)

\* Where nothing of the log moves, what is said of it stays.
LEMMA LogFrame ==
  ASSUME RowsInv, WriterInv, UNCHANGED <<now, rows, writer>>
  PROVE  RowsInv' /\ WriterInv' /\ \A k : Visible(k)' = Visible(k)
BY DEF RowsInv, WriterInv, Begun, Visible

\* A request begins: the clock goes on, and one more id is spoken for.
LEMMA BeginKeeps ==
  ASSUME RowsInv, WriterInv, NEW w \in Writer, NEW k \in Topic, Begin(w, k)
  PROVE  RowsInv' /\ WriterInv' /\ \A h : Visible(h)' = Visible(h)
<1>1. PICK t \in {now, now + 1} :
        /\ now' = t
        /\ writer' = [writer EXCEPT ![w] = [pc |-> "begun", topic |-> k, key |-> t, since |-> t, id |-> 0]]
  BY DEF Begin
<1>2. rows' = rows /\ writer[w].pc = "idle" /\ Len(rows) + Cardinality(Begun) < MaxRow
  BY DEF Begin, Drawn, Begun
<1>3. now \in Nat \ {0} /\ t \in Nat \ {0} /\ now <= t
  BY DEF RowsInv
<1>4. RowsInv'
  <2>1. \A i \in DOMAIN rows : rows[i].since \in Nat /\ rows[i].shown \in Nat
    BY Ids DEF RowType
  <2>2. \A i \in DOMAIN rows : rows[i].since <= t /\ rows[i].shown < t
    BY <1>3, <2>1 DEF RowsInv
  <2> QED BY <1>1, <1>2, <1>3, <2>2 DEF RowsInv
<1>5. Begun' = Begun \cup {w} /\ w \notin Begun
  BY <1>1, <1>2 DEF Begun, WriterInv
<1>6. Len(rows)' + Cardinality(Begun)' <= MaxRow
  <2>1. Begun \subseteq Writer
    BY DEF Begun
  <2>2. IsFiniteSet(Begun)
    BY <2>1, EventSlots, FS_Subset
  <2>3. Cardinality(Begun') = Cardinality(Begun) + 1 /\ Cardinality(Begun) \in Nat
    BY <1>5, <2>2, FS_AddElement, FS_CardinalityType
  <2> QED BY <1>2, <2>3, Ids, EventNumbers
<1>7. writer' \in [Writer -> WriteType]
  <2>1. [pc |-> "begun", topic |-> k, key |-> t, since |-> t, id |-> 0] \in WriteType
    BY <1>3 DEF WriteType
  <2> QED BY <1>1, <2>1 DEF WriterInv
<1>8. \A v \in Writer : v # w => writer'[v] = writer[v]
  BY <1>1 DEF WriterInv
<1>9. writer'[w].pc = "begun" /\ writer'[w].key = t /\ writer'[w].since = t
  BY <1>1 DEF WriterInv
<1>10. \A v \in Writer :
         /\ writer'[v].pc = "begun" => writer'[v].key = writer'[v].since /\ writer'[v].since <= now'
         /\ writer'[v].pc = "inserted" => writer'[v].id \in DOMAIN rows' /\ rows'[writer'[v].id].shown = 0
  <2> SUFFICES ASSUME NEW v \in Writer
               PROVE /\ writer'[v].pc = "begun" => writer'[v].key = writer'[v].since /\ writer'[v].since <= now'
                     /\ writer'[v].pc = "inserted" => writer'[v].id \in DOMAIN rows' /\ rows'[writer'[v].id].shown = 0
    OBVIOUS
  <2>1. CASE v = w
    BY <1>1, <1>3, <1>9, <2>1
  <2>2. CASE v # w
    <3>1. writer[v] \in WriteType
      BY DEF WriterInv
    <3>2. writer[v].since \in Nat
      BY <3>1 DEF WriteType
    <3> QED BY <1>1, <1>2, <1>3, <1>8, <2>2, <3>2 DEF WriterInv
  <2> QED BY <2>1, <2>2
<1>11. WriterInv'
  BY <1>6, <1>7, <1>8, <1>9, <1>10 DEF WriterInv
<1>12. \A h : Visible(h)' = Visible(h)
  BY <1>2 DEF Visible
<1> QED BY <1>4, <1>11, <1>12

\* The INSERT appends a row nobody sees, with the key of its request.
LEMMA InsertKeeps ==
  ASSUME RowsInv, WriterInv, NEW w \in Writer, Insert(w)
  PROVE  RowsInv' /\ WriterInv' /\ \A h : Visible(h)' = Visible(h)
<1> DEFINE new == [topic |-> writer[w].topic, key |-> writer[w].key, since |-> writer[w].since, shown |-> 0]
           n == Len(rows)
<1>1. /\ rows' = Append(rows, new) /\ now' = now /\ writer[w].pc = "begun"
      /\ writer' = [writer EXCEPT ![w].pc = "inserted", ![w].id = n + 1]
  BY DEF Insert
<1>2. writer[w] \in WriteType /\ writer[w].key = writer[w].since /\ writer[w].since <= now
  BY <1>1 DEF WriterInv
<1>3. new \in RowType /\ new.key = new.since /\ new.since <= now /\ new.shown = 0 /\ new.since \in Nat
  BY <1>2 DEF RowType, WriteType
<1>4. /\ rows \in Seq(RowType) /\ n \in Nat /\ DOMAIN rows = 1 .. n
      /\ \A i \in 1 .. n : rows[i] \in RowType
  BY Ids DEF RowsInv
<1> HIDE DEF new, n
<1>5. /\ rows' \in Seq(RowType) /\ Len(rows') = n + 1 /\ DOMAIN rows' = 1 .. n + 1
      /\ \A i \in 1 .. n : rows'[i] = rows[i]
      /\ rows'[n + 1] = new
  BY <1>1, <1>3, <1>4, AppendProperties, LenProperties DEF n
<1>6. now \in Nat \ {0}
  BY DEF RowsInv
<1>7. \A i \in 1 .. n + 1 : i = n + 1 \/ i \in 1 .. n
  BY <1>4
<1>8. RowsInv'
  <2>1. \A i \in DOMAIN rows' :
          rows'[i].key = rows'[i].since /\ rows'[i].since <= now /\ rows'[i].shown < now
    BY <1>3, <1>4, <1>5, <1>6, <1>7 DEF RowsInv
  <2>2. \A i, j \in DOMAIN rows' : j <= i /\ rows'[i].shown > 0 => rows'[j].since <= rows'[i].shown
    <3> SUFFICES ASSUME NEW i \in 1 .. n + 1, NEW j \in 1 .. n + 1, j <= i, rows'[i].shown > 0
                 PROVE  rows'[j].since <= rows'[i].shown
      BY <1>5
    <3>1. i # n + 1
      BY <1>3, <1>5
    <3>2. i \in 1 .. n /\ j \in 1 .. n
      BY <1>4, <3>1
    <3> QED BY <1>4, <1>5, <3>2 DEF RowsInv
  <2> QED BY <1>1, <1>5, <1>6, <2>1, <2>2 DEF RowsInv
<1>9. \A v \in Writer : v # w => writer'[v] = writer[v]
  BY <1>1 DEF WriterInv
<1>10. writer'[w].pc = "inserted" /\ writer'[w].id = n + 1 /\ writer' \in [Writer -> WriteType]
  <2>1. [writer[w] EXCEPT !.pc = "inserted", !.id = n + 1] \in WriteType
    <3>1. writer[w] \in WriteType /\ n + 1 \in Nat
      BY <1>2, <1>4
    <3> QED BY <3>1 DEF WriteType
  <2>2. writer' = [writer EXCEPT ![w] = [writer[w] EXCEPT !.pc = "inserted", !.id = n + 1]]
    BY <1>1 DEF WriterInv
  <2> QED BY <1>2, <2>1, <2>2 DEF WriterInv, WriteType
<1>11. n + 1 + Cardinality(Begun') <= MaxRow
  <2>1. Begun' = Begun \ {w} /\ w \in Begun
    BY <1>1, <1>9, <1>10 DEF Begun
  <2>2. Begun \subseteq Writer
    BY DEF Begun
  <2>3. IsFiniteSet(Begun)
    BY <2>2, EventSlots, FS_Subset
  <2>4. Cardinality(Begun') = Cardinality(Begun) - 1 /\ Cardinality(Begun) \in Nat
    BY <2>1, <2>3, FS_RemoveElement, FS_CardinalityType
  <2>5. n + Cardinality(Begun) <= MaxRow
    BY DEF WriterInv, n
  <2> QED BY <1>4, <2>4, <2>5, EventNumbers
<1>12. ASSUME NEW v \in Writer, v # w, writer[v].pc = "inserted"
       PROVE  writer[v].id \in 1 .. n /\ rows[writer[v].id].shown = 0
  BY <1>4, <1>12 DEF WriterInv
<1>13. \A v \in Writer :
         /\ writer'[v].pc = "begun" => writer'[v].key = writer'[v].since /\ writer'[v].since <= now'
         /\ writer'[v].pc = "inserted" => writer'[v].id \in DOMAIN rows' /\ rows'[writer'[v].id].shown = 0
  <2> SUFFICES ASSUME NEW v \in Writer
               PROVE  /\ writer'[v].pc = "begun" => writer'[v].key = writer'[v].since /\ writer'[v].since <= now'
                      /\ writer'[v].pc = "inserted" => writer'[v].id \in DOMAIN rows' /\ rows'[writer'[v].id].shown = 0
    OBVIOUS
  <2>1. CASE v = w
    BY <1>3, <1>4, <1>5, <1>10, <2>1
  <2>2. CASE v # w
    <3>1. writer'[v] = writer[v]
      BY <1>9, <2>2
    <3>2. writer[v].pc = "inserted" => writer[v].id \in 1 .. n + 1 /\ rows'[writer[v].id].shown = 0
      BY <1>4, <1>5, <1>12, <2>2
    <3> QED BY <1>1, <1>5, <3>1, <3>2 DEF WriterInv
  <2> QED BY <2>1, <2>2
<1>14. \A v, x \in Writer : v # x /\ writer'[v].pc = "inserted" /\ writer'[x].pc = "inserted" =>
         writer'[v].id # writer'[x].id
  <2> SUFFICES ASSUME NEW v \in Writer, NEW x \in Writer, v # x,
                      writer'[v].pc = "inserted", writer'[x].pc = "inserted"
               PROVE  writer'[v].id # writer'[x].id
    OBVIOUS
  <2>1. CASE v = w
    BY <1>4, <1>9, <1>10, <1>12, <2>1
  <2>2. CASE x = w
    BY <1>4, <1>9, <1>10, <1>12, <2>2
  <2>3. CASE v # w /\ x # w
    BY <1>9, <2>3 DEF WriterInv
  <2> QED BY <2>1, <2>2, <2>3
<1>15. WriterInv'
  BY <1>5, <1>10, <1>11, <1>13, <1>14 DEF WriterInv
<1>16. \A h : Visible(h)' = Visible(h)
  <2> SUFFICES ASSUME NEW h PROVE Visible(h)' = Visible(h)
    OBVIOUS
  <2>1. Visible(h) = {i \in 1 .. n : rows[i].topic = h /\ rows[i].shown > 0}
    BY <1>4 DEF Visible
  <2>2. Visible(h)' = {i \in 1 .. n + 1 : rows'[i].topic = h /\ rows'[i].shown > 0}
    BY <1>5 DEF Visible
  <2>3. ~ (rows'[n + 1].shown > 0)
    BY <1>3, <1>5
  <2> QED BY <1>4, <1>5, <1>7, <2>1, <2>2, <2>3
<1> QED BY <1>8, <1>15, <1>16

\* The COMMIT makes a row visible, later than all rows so far have begun.
LEMMA CommitKeeps ==
  ASSUME RowsInv, WriterInv, NEW w \in Writer, Commit(w)
  PROVE  RowsInv' /\ WriterInv' /\ \A h : Visible(h) \subseteq Visible(h)'
<1> DEFINE m == writer[w].id
<1>1. /\ writer[w].pc = "inserted" /\ rows' = [rows EXCEPT ![m].shown = now] /\ now' = now + 1
      /\ writer' = [writer EXCEPT ![w] = NoWrite]
  BY DEF Commit
<1>2. m \in DOMAIN rows /\ rows[m].shown = 0
  BY <1>1 DEF WriterInv
<1>3. now \in Nat \ {0} /\ rows \in Seq(RowType)
  BY DEF RowsInv
<1>4. Len(rows) \in Nat /\ DOMAIN rows = 1 .. Len(rows) /\ \A i \in DOMAIN rows : rows[i] \in RowType
  BY Ids
<1> HIDE DEF m
<1>5. [rows[m] EXCEPT !.shown = now] \in RowType
  BY <1>2, <1>3, <1>4 DEF RowType
<1>6. rows' = [rows EXCEPT ![m] = [rows[m] EXCEPT !.shown = now]]
  BY <1>1, <1>2
<1>7. rows' \in Seq(RowType) /\ Len(rows') = Len(rows) /\ DOMAIN rows' = DOMAIN rows
  BY <1>2, <1>3, <1>4, <1>5, <1>6, ExceptSeq, LenProperties
<1>8. \A i \in DOMAIN rows :
        /\ rows'[i].topic = rows[i].topic /\ rows'[i].key = rows[i].key /\ rows'[i].since = rows[i].since
        /\ rows'[i].shown = IF i = m THEN now ELSE rows[i].shown
  BY <1>2, <1>4, <1>6 DEF RowType
<1>9. \A i \in DOMAIN rows : rows[i].since \in Nat /\ rows[i].shown \in Nat /\ rows[i].key \in Nat /\ i \in Nat
  BY <1>4 DEF RowType
<1>10. RowsInv'
  <2>1. \A i \in DOMAIN rows' :
          rows'[i].key = rows'[i].since /\ rows'[i].since <= now' /\ rows'[i].shown < now'
    BY <1>1, <1>3, <1>7, <1>8, <1>9 DEF RowsInv
  <2>2. \A i, j \in DOMAIN rows' : j <= i /\ rows'[i].shown > 0 => rows'[j].since <= rows'[i].shown
    <3> SUFFICES ASSUME NEW i \in DOMAIN rows, NEW j \in DOMAIN rows, j <= i, rows'[i].shown > 0
                 PROVE  rows'[j].since <= rows'[i].shown
      BY <1>7
    <3>1. CASE i = m
      BY <1>8, <3>1 DEF RowsInv
    <3>2. CASE i # m
      BY <1>8, <3>2 DEF RowsInv
    <3> QED BY <3>1, <3>2
  <2>3. now' \in Nat \ {0}
    BY <1>1, <1>3
  <2> QED BY <1>7, <2>1, <2>2, <2>3 DEF RowsInv
<1>11. NoWrite \in WriteType
  BY DEF NoWrite, WriteType, Topic
<1>12. writer' \in [Writer -> WriteType] /\ writer'[w].pc = "idle" /\ \A v \in Writer : v # w => writer'[v] = writer[v]
  BY <1>1, <1>11 DEF WriterInv, NoWrite
<1>13. ASSUME NEW v \in Writer
       PROVE  /\ writer'[v].pc = "begun" => writer'[v].key = writer'[v].since /\ writer'[v].since <= now'
              /\ writer'[v].pc = "inserted" => writer'[v].id \in DOMAIN rows' /\ rows'[writer'[v].id].shown = 0
  <2>1. CASE v = w
    BY <1>12, <2>1
  <2>2. CASE v # w
    <3>1. writer'[v] = writer[v] /\ writer[v].since \in Nat
      BY <1>12, <2>2 DEF WriterInv, WriteType
    <3>2. writer[v].pc = "inserted" => writer[v].id # m /\ writer[v].id \in DOMAIN rows /\ rows[writer[v].id].shown = 0
      BY <1>1, <2>2 DEF WriterInv, m
    <3>3. writer[v].pc = "inserted" => rows'[writer[v].id].shown = 0
      BY <1>8, <3>2
    <3> QED BY <1>1, <1>3, <1>7, <3>1, <3>2, <3>3 DEF WriterInv
  <2> QED BY <2>1, <2>2
<1>14. Begun' = Begun
  BY <1>1, <1>12 DEF Begun
<1>15. WriterInv'
  BY <1>7, <1>12, <1>13, <1>14 DEF WriterInv
<1>16. \A h : Visible(h) \subseteq Visible(h)'
  BY <1>2, <1>7, <1>8 DEF Visible
<1> QED BY <1>10, <1>15, <1>16

\* A request that fails leaves at most a gap in the ids.
LEMMA FailKeeps ==
  ASSUME RowsInv, WriterInv, NEW w \in Writer, Fail(w)
  PROVE  RowsInv' /\ WriterInv' /\ \A h : Visible(h)' = Visible(h)
<1>1. now' = now /\ rows' = rows /\ writer' = [writer EXCEPT ![w] = NoWrite]
  BY DEF Fail
<1>2. NoWrite \in WriteType
  BY DEF NoWrite, WriteType, Topic
<1>3. writer' \in [Writer -> WriteType] /\ writer'[w].pc = "idle" /\ \A v \in Writer : v # w => writer'[v] = writer[v]
  BY <1>1, <1>2 DEF WriterInv, NoWrite
<1>4. Len(rows) + Cardinality(Begun') <= MaxRow
  <2>1. Begun' \subseteq Begun /\ Begun \subseteq Writer
    BY <1>3 DEF Begun
  <2>2. IsFiniteSet(Begun)
    BY <2>1, EventSlots, FS_Subset
  <2>3. IsFiniteSet(Begun') /\ Cardinality(Begun') <= Cardinality(Begun)
    BY <2>1, <2>2, FS_Subset
  <2>4. Cardinality(Begun) \in Nat /\ Cardinality(Begun') \in Nat /\ Len(rows) \in Nat
    BY <2>2, <2>3, FS_CardinalityType, Ids
  <2>5. Len(rows) + Cardinality(Begun) <= MaxRow
    BY DEF WriterInv
  <2> QED BY <2>3, <2>4, <2>5, EventNumbers
<1>5. RowsInv'
  BY <1>1 DEF RowsInv
<1>6. WriterInv'
  BY <1>1, <1>3, <1>4 DEF WriterInv
<1> QED BY <1>1, <1>5, <1>6 DEF Visible
------------------------------------------------------------------------------
(* Turning pages *)

ListType ==
  [pc : {"idle", "rows", "next", "end"}, cursor : 1 .. MaxRow + 1, more : BOOLEAN,
   page : SUBSET Nat, seen : SUBSET Nat, due : SUBSET Nat, total : Nat]

\* What has been shown lies at the cursor or above, what was due and has not been, below.
Passed(l) ==
  /\ \A i \in l.seen \cup l.page : i >= l.cursor
  /\ \A i \in l.due \ (l.seen \cup l.page) : i < l.cursor

\* How far a client's list is.
PageInv(c) ==
  LET l == list[c] IN
  /\ l \in ListType
  /\ l.page \cup l.seen \cup l.due \subseteq Visible(History)
  /\ l.page \cap l.seen = {}
  /\ l.pc = "idle" => l.page = {} /\ l.seen = {} /\ l.due = {} /\ l.cursor = MaxRow + 1
  /\ l.pc = "rows" => IF l.more THEN Passed(l) ELSE l.due \subseteq l.seen \cup l.page
  /\ l.pc = "next" => l.page = {} /\ Passed(l)
  /\ l.pc = "end" => l.page = {} /\ l.due \subseteq l.seen
  /\ l.pc \in {"next", "end"} => Cardinality(l.seen) <= l.total

\* Nothing of a list is lost when more rows appear.
LEMMA ListFrame ==
  ASSUME NEW c \in Client, PageInv(c), list'[c] = list[c], Visible(History) \subseteq Visible(History)'
  PROVE  PageInv(c)'
BY DEF PageInv, Passed

\* A page takes the next rows below the cursor, and moves it to the last of them.
LEMMA PageRowsKeeps ==
  ASSUME RowsInv, WriterInv, NEW c \in Client, list \in [Client -> ListType], PageInv(c), PageRows(c)
  PROVE  PageInv(c)' /\ \A d \in Client : d # c => list'[d] = list[d]
<1> DEFINE l == list[c]
           V == Visible(History)
           rest == {i \in V : i < l.cursor}
           page == Top(rest)
           more == page # rest
           low == IF more THEN Last(page) ELSE l.cursor
           due == IF l.pc = "idle" THEN V ELSE l.due
           new == list'[c]
<1>1. V \subseteq 1 .. Len(rows) /\ Len(rows) \in Nat
  BY VisibleFinite, Ids
<1>2. Len(rows) <= MaxRow
  <2>1. Begun \subseteq Writer
    BY DEF Begun
  <2>2. IsFiniteSet(Begun)
    BY <2>1, EventSlots, FS_Subset
  <2>3. Cardinality(Begun) \in Nat
    BY <2>2, FS_CardinalityType
  <2>4. Len(rows) + Cardinality(Begun) <= MaxRow
    BY DEF WriterInv
  <2> QED BY <1>1, <2>3, <2>4, EventNumbers
<1>3. \A i \in V : i \in 1 .. MaxRow /\ i \in Nat
  BY <1>1, <1>2, EventNumbers
<1>4. l \in ListType /\ l.pc \in {"idle", "next"} /\ l.page = {}
  BY DEF PageInv, PageRows
<1>5. rest \subseteq V /\ rest \in SUBSET (1 .. Len(rows))
  BY <1>1
<1>6. page \subseteq rest /\ (rest # {} => page # {}) /\ \A i \in page, j \in rest \ page : j < i
  <2> HIDE DEF rest
  <2> QED BY <1>1, <1>5, TopFacts
<1>7. more => low \in page /\ \A i \in page : low <= i
  <2> SUFFICES ASSUME more PROVE Last(page) \in page /\ \A i \in page : Last(page) <= i
    OBVIOUS
  <2>1. page # {} /\ page \in SUBSET Nat
    BY <1>3, <1>5, <1>6
  <2> HIDE DEF page
  <2> QED BY <2>1, LastFacts
<1>8. /\ new = [l EXCEPT !.pc = "rows", !.page = page, !.more = more, !.cursor = low, !.due = due]
      /\ \A d \in Client : d # c => list'[d] = list[d]
      /\ Visible(History)' = V
  <2>1. /\ list' = [list EXCEPT ![c] =
             [l EXCEPT !.pc = "rows", !.page = page, !.more = more, !.cursor = low, !.due = due]]
        /\ rows' = rows
    BY DEF PageRows
  <2> HIDE DEF page, more, low, due, l
  <2> QED BY <2>1 DEF Visible
<1>9. l.cursor \in 1 .. MaxRow + 1 /\ l.cursor \in Nat /\ low \in 1 .. MaxRow + 1 /\ low \in Nat
  <2>1. l.cursor \in 1 .. MaxRow + 1
    BY <1>4 DEF ListType
  <2>2. CASE more
    <3>1. low \in V
      BY <1>5, <1>6, <1>7, <2>2
    <3> QED BY <2>1, <3>1, <1>3, EventNumbers
  <2>3. CASE ~ more
    BY <2>1, <2>3, EventNumbers
  <2> QED BY <2>2, <2>3
<1>10. /\ \A i \in l.seen : i \in V /\ i >= l.cursor
       /\ due \subseteq V /\ \A i \in due \ l.seen : i \in rest
  <2>1. CASE l.pc = "idle"
    BY <1>3, <2>1, EventNumbers DEF PageInv
  <2>2. CASE l.pc = "next"
    BY <1>4, <2>2 DEF PageInv, Passed
  <2> QED BY <1>4, <2>1, <2>2
<1>11. \A i \in page : i \in V /\ i < l.cursor /\ i \in Nat
  BY <1>3, <1>5, <1>6
<1>12. \A i \in l.seen : i \in Nat /\ i \in V
  BY <1>3, <1>10
<1>13. \A i \in due : i \in Nat /\ i \in V
  BY <1>3, <1>10
<1>14. page \cap l.seen = {}
  BY <1>9, <1>10, <1>11, <1>12
<1>15. more => (\A i \in l.seen \cup page : i >= low) /\ \A i \in due \ (l.seen \cup page) : i < low
  <2> SUFFICES ASSUME more
               PROVE  (\A i \in l.seen \cup page : i >= low) /\ \A i \in due \ (l.seen \cup page) : i < low
    OBVIOUS
  <2>1. low \in page /\ low < l.cursor /\ \A i \in page : low <= i
    BY <1>7, <1>11
  <2>2. ASSUME NEW i \in l.seen PROVE i >= low
    BY <1>9, <1>10, <1>12, <2>1, <2>2
  <2>3. ASSUME NEW i \in page PROVE i >= low
    BY <1>9, <1>11, <2>1, <2>3
  <2>4. ASSUME NEW i \in due \ (l.seen \cup page) PROVE i < low
    BY <1>6, <1>10, <2>1, <2>4
  <2> HIDE DEF page, low, due
  <2> QED BY <2>2, <2>3, <2>4
<1>16. ~ more => due \subseteq l.seen \cup page
  BY <1>10
<1>17. /\ new \in ListType
       /\ new.pc = "rows" /\ new.page = page /\ new.more = more /\ new.cursor = low /\ new.due = due
       /\ new.seen = l.seen /\ new.total = l.total
  <2>1. page \in SUBSET Nat /\ l.seen \in SUBSET Nat /\ due \in SUBSET Nat
    BY <1>11, <1>12, <1>13
  <2>2. l.total \in Nat /\ more \in BOOLEAN
    BY <1>4 DEF ListType
  <2>3. l \in ListType /\ low \in 1 .. MaxRow + 1
    BY <1>4, <1>9
  <2>4. new = [l EXCEPT !.pc = "rows", !.page = page, !.more = more, !.cursor = low, !.due = due]
    BY <1>8
  <2> HIDE DEF page, more, low, due, l, new
  <2>5. new.pc = "rows" /\ new.page = page /\ new.more = more /\ new.cursor = low /\ new.due = due
    BY <2>3, <2>4 DEF ListType
  <2>6. new.seen = l.seen /\ new.total = l.total
    BY <2>3, <2>4 DEF ListType
  <2>7. new \in ListType
    BY <2>1, <2>2, <2>3, <2>4 DEF ListType
  <2> QED BY <2>5, <2>6, <2>7
<1>18. page \cup l.seen \cup due \subseteq V
  BY <1>11, <1>12, <1>13
<1>19. /\ new.page \cup new.seen \cup new.due \subseteq Visible(History)'
       /\ new.page \cap new.seen = {}
       /\ IF new.more THEN Passed(new) ELSE new.due \subseteq new.seen \cup new.page
  <2> HIDE DEF page, more, low, due, l, V, new
  <2> QED BY <1>8, <1>14, <1>15, <1>16, <1>17, <1>18 DEF Passed
<1>20. PageInv(c)'
  <2> HIDE DEF page, more, low, due, l, V
  <2> QED BY <1>17, <1>19 DEF PageInv, Passed
<1> QED BY <1>8, <1>20

\* The count of a page covers what the pages have shown.
LEMMA PageCountKeeps ==
  ASSUME RowsInv, NEW c \in Client, list \in [Client -> ListType], PageInv(c), PageCount(c)
  PROVE  PageInv(c)' /\ \A d \in Client : d # c => list'[d] = list[d]
<1> DEFINE l == list[c]
           V == Visible(History)
           pc == IF l.more THEN "next" ELSE "end"
           seen == l.seen \cup l.page
           new == list'[c]
<1>1. l \in ListType /\ l.pc = "rows"
  BY DEF PageInv, PageCount
<1>2. /\ new = [l EXCEPT !.pc = pc, !.total = Cardinality(V), !.seen = seen, !.page = {}]
      /\ \A d \in Client : d # c => list'[d] = list[d]
      /\ Visible(History)' = V
  <2>1. /\ list' = [list EXCEPT ![c] =
             [l EXCEPT !.pc = pc, !.total = Cardinality(V), !.seen = seen, !.page = {}]]
        /\ rows' = rows
    BY DEF PageCount
  <2> HIDE DEF pc, seen, l
  <2> QED BY <2>1 DEF Visible
<1>3. Cardinality(V) \in Nat /\ IsFiniteSet(V) /\ seen \subseteq V
  BY VisibleFinite DEF PageInv
<1>4. Cardinality(seen) <= Cardinality(V)
  <2> HIDE DEF V, seen
  <2> QED BY <1>3, FS_Subset
<1>5. /\ new \in ListType
      /\ new.pc = pc /\ new.page = {} /\ new.more = l.more /\ new.cursor = l.cursor /\ new.due = l.due
      /\ new.seen = seen /\ new.total = Cardinality(V)
  <2>1. seen \in SUBSET Nat /\ l.more \in BOOLEAN /\ l.cursor \in 1 .. MaxRow + 1 /\ l.due \in SUBSET Nat
    BY <1>1 DEF ListType
  <2>2. pc \in {"idle", "rows", "next", "end"} /\ {} \in SUBSET Nat
    OBVIOUS
  <2>3. l \in ListType /\ Cardinality(V) \in Nat
    BY <1>1, <1>3
  <2>4. new = [l EXCEPT !.pc = pc, !.total = Cardinality(V), !.seen = seen, !.page = {}]
    BY <1>2
  <2> HIDE DEF V, seen, pc, l, new
  <2>5. new.pc = pc /\ new.page = {} /\ new.seen = seen /\ new.total = Cardinality(V)
    BY <2>3, <2>4 DEF ListType
  <2>6. new.more = l.more /\ new.cursor = l.cursor /\ new.due = l.due
    BY <2>3, <2>4 DEF ListType
  <2>7. new \in ListType
    BY <2>1, <2>2, <2>3, <2>4 DEF ListType
  <2> QED BY <2>5, <2>6, <2>7
<1>6. /\ new.page \cup new.seen \cup new.due \subseteq Visible(History)'
      /\ IF l.more THEN Passed(new) ELSE new.due \subseteq new.seen
  <2>1. l.page \cup l.seen \cup l.due \subseteq V
    BY DEF PageInv
  <2>2. IF l.more THEN Passed(l) ELSE l.due \subseteq seen
    BY <1>1 DEF PageInv
  <2> HIDE DEF V, pc, l, new
  <2> QED BY <1>2, <1>5, <2>1, <2>2 DEF Passed
<1>7. PageInv(c)'
  <2> HIDE DEF V, l, seen
  <2> QED BY <1>4, <1>5, <1>6 DEF PageInv, Passed
<1> QED BY <1>2, <1>7

\* The client has seen enough.
LEMMA CloseListKeeps ==
  ASSUME NEW c \in Client, list \in [Client -> ListType], PageInv(c), CloseList(c)
  PROVE  PageInv(c)' /\ \A d \in Client : d # c => list'[d] = list[d]
<1>1. list'[c] = NoList /\ \A d \in Client : d # c => list'[d] = list[d]
  BY DEF CloseList
<1>2. NoList \in ListType
  BY EventNumbers DEF NoList, ListType
<1> QED BY <1>1, <1>2 DEF PageInv, NoList
------------------------------------------------------------------------------
(* Counting *)

StatType == [pc : {"idle", "total", "outcomes", "answer"}, total : Nat, outcomes : Nat, grades : Nat]

\* The parts that have been counted, in their order.
CountInv(r) ==
  LET s == stat[r]
      n == Cardinality(Visible(History))
  IN  /\ s.pc = "total" => s.total <= n
      /\ s.pc = "outcomes" => s.total <= s.outcomes /\ s.outcomes <= n
      /\ s.pc = "answer" => s.total <= s.outcomes /\ s.outcomes <= s.grades /\ s.grades <= n

StatsInv == stat \in [Reader -> StatType] /\ \A r \in Reader : CountInv(r)

\* More rows do not undo a count.
LEMMA StatsFrame ==
  ASSUME RowsInv, RowsInv', StatsInv, stat' = stat, Visible(History) \subseteq Visible(History)'
  PROVE  StatsInv'
<1> DEFINE n == Cardinality(Visible(History))
<1>1. n \in Nat
  BY VisibleFinite
<1>2. IsFiniteSet(Visible(History)') /\ n' \in Nat
  <2>1. DOMAIN rows' = 1 .. Len(rows') /\ Len(rows') \in Nat
    BY LenProperties DEF RowsInv
  <2>2. Visible(History)' \subseteq 1 .. Len(rows')
    BY <2>1 DEF Visible
  <2>3. IsFiniteSet(1 .. Len(rows'))
    BY <2>1, FS_Interval
  <2>4. IsFiniteSet(Visible(History)')
    BY <2>2, <2>3, FS_Subset
  <2> QED BY <2>4, FS_CardinalityType
<1>3. n <= n'
  BY <1>2, FS_Subset
<1> HIDE DEF n
<1>4. ASSUME NEW r \in Reader PROVE CountInv(r)'
  <2>1. stat[r] \in StatType /\ CountInv(r)
    BY DEF StatsInv
  <2>2. stat[r].total \in Nat /\ stat[r].outcomes \in Nat /\ stat[r].grades \in Nat
    BY <2>1 DEF StatType
  <2> QED BY <1>1, <1>2, <1>3, <2>1, <2>2 DEF CountInv, n
<1> QED BY <1>4 DEF StatsInv

\* Each statement counts at least what the one before it has counted.
LEMMA StatKeeps ==
  ASSUME RowsInv, StatsInv, NEW r \in Reader,
         StatTotal(r) \/ StatOutcomes(r) \/ StatGrades(r) \/ StatAnswer(r)
  PROVE  StatsInv'
<1> DEFINE n == Cardinality(Visible(History))
<1>1. n \in Nat
  BY VisibleFinite
<1>2. Visible(History)' = Visible(History)
  BY DEF StatTotal, StatOutcomes, StatGrades, StatAnswer, Visible
<1>3. stat[r] \in StatType /\ NoStat \in StatType /\ CountInv(r)
  BY DEF StatsInv, NoStat, StatType
<1>4. \A q \in Reader : q # r => stat'[q] = stat[q]
  BY DEF StatsInv, StatTotal, StatOutcomes, StatGrades, StatAnswer
<1> HIDE DEF n
<1>5. stat'[r] \in StatType /\ CountInv(r)' /\ stat' \in [Reader -> StatType]
  <2>1. CASE StatTotal(r)
    <3>1. stat' = [stat EXCEPT ![r] = [NoStat EXCEPT !.pc = "total", !.total = n]]
      BY <2>1 DEF StatTotal, n
    <3> DEFINE new == [NoStat EXCEPT !.pc = "total", !.total = n]
    <3>2. new \in StatType /\ new.pc = "total" /\ new.total = n
      BY <1>1, <1>3 DEF StatType
    <3>3. stat'[r] = new /\ stat' \in [Reader -> StatType]
      BY <3>1, <3>2 DEF StatsInv
    <3> HIDE DEF new
    <3> QED BY <1>1, <1>2, <3>2, <3>3 DEF CountInv, StatsInv, n
  <2>2. CASE StatOutcomes(r)
    <3>1. stat' = [stat EXCEPT ![r].pc = "outcomes", ![r].outcomes = n] /\ stat[r].pc = "total"
      BY <2>2 DEF StatOutcomes, n
    <3>2. stat'[r] \in StatType /\ stat'[r].pc = "outcomes" /\ stat'[r].outcomes = n /\ stat'[r].total = stat[r].total
      BY <1>1, <1>3, <3>1 DEF StatType, StatsInv
    <3> QED BY <1>1, <1>2, <1>3, <3>1, <3>2 DEF CountInv, StatsInv, n
  <2>3. CASE StatGrades(r)
    <3>1. stat' = [stat EXCEPT ![r].pc = "answer", ![r].grades = n] /\ stat[r].pc = "outcomes"
      BY <2>3 DEF StatGrades, n
    <3>2. /\ stat'[r] \in StatType /\ stat'[r].pc = "answer" /\ stat'[r].grades = n
          /\ stat'[r].total = stat[r].total /\ stat'[r].outcomes = stat[r].outcomes
      BY <1>1, <1>3, <3>1 DEF StatType, StatsInv
    <3> QED BY <1>1, <1>2, <1>3, <3>1, <3>2 DEF CountInv, StatsInv, n
  <2>4. CASE StatAnswer(r)
    BY <1>3, <2>4 DEF StatAnswer, CountInv, StatsInv, NoStat
  <2> QED BY <2>1, <2>2, <2>3, <2>4
<1>6. ASSUME NEW q \in Reader, q # r PROVE CountInv(q)'
  BY <1>2, <1>4, <1>6 DEF CountInv, StatsInv
<1> QED BY <1>5, <1>6 DEF StatsInv
------------------------------------------------------------------------------
(* The status *)

\* The window of the status cannot miss a channel, or the row that is_opted_in takes, unless as
\* many rows of other channels are as new.
LEMMA WindowShows == RowsInv => StatusShows
<1> SUFFICES ASSUME RowsInv, NEW k \in Channel, NEW S \in Windows, Visible(k) # {},
                    Cardinality({j \in UNION {Visible(h) : h \in Channel \ {k}} :
                                   \A i \in Newest(k) : rows[j].key >= rows[i].key}) < Window
             PROVE  ShownIn(S, k) # {} /\ ShownIn(S, k) \subseteq Newest(k)
  BY DEF StatusShows
<1> DEFINE all == UNION {Visible(h) : h \in Channel}
           others == {j \in UNION {Visible(h) : h \in Channel \ {k}} :
                        \A i \in Newest(k) : rows[j].key >= rows[i].key}
<1>1. /\ Len(rows) \in Nat /\ DOMAIN rows = 1 .. Len(rows)
      /\ \A i \in DOMAIN rows : rows[i].key \in 0 .. now /\ rows[i].key \in Nat
      /\ now \in Nat
  BY Ids DEF RowsInv, RowType
<1>2. /\ all \subseteq 1 .. Len(rows) /\ Visible(k) \subseteq all /\ others \subseteq all
      /\ \A i \in all : i \in DOMAIN rows
  BY <1>1 DEF Visible
<1>3. IsFiniteSet(all) /\ IsFiniteSet(others)
  <2>1. IsFiniteSet(1 .. Len(rows))
    BY <1>1, FS_Interval
  <2> HIDE DEF all, others
  <2>2. IsFiniteSet(all)
    BY <1>2, <2>1, FS_Subset
  <2> QED BY <1>2, <2>2, FS_Subset
<1>4. /\ S \subseteq all
      /\ Cardinality(S) = IF Cardinality(all) <= Window THEN Cardinality(all) ELSE Window
      /\ \A i \in S, j \in all \ S : rows[j].key <= rows[i].key
  BY DEF Windows
<1>5. PICK m \in Newest(k) : TRUE
  <2> DEFINE K == {rows[i].key : i \in Visible(k)}
  <2>1. K \in SUBSET (0 .. now) /\ K # {}
    BY <1>1, <1>2
  <2>2. PICK x \in K : \A y \in K : y <= x
    <3> HIDE DEF K
    <3> QED BY <1>1, <2>1, Greatest
  <2>3. PICK i \in Visible(k) : rows[i].key = x
    OBVIOUS
  <2>4. i \in Newest(k)
    BY <2>2, <2>3 DEF Newest
  <2> QED BY <2>4
<1>6. /\ \A i \in Newest(k) : i \in Visible(k) /\ rows[i].key = rows[m].key
      /\ \A i \in Visible(k) : rows[i].key <= rows[m].key
      /\ \A i \in Visible(k) : rows[i].key >= rows[m].key => i \in Newest(k)
  <2>1. m \in Visible(k) /\ \A i \in Visible(k) : rows[i].key <= rows[m].key
    BY DEF Newest
  <2>2. \A i \in Visible(k) : rows[i].key \in Nat
    BY <1>1, <1>2
  <2>3. \A i \in Newest(k) : i \in Visible(k) /\ rows[m].key <= rows[i].key
    BY <2>1 DEF Newest
  <2>4. \A i \in Visible(k) : rows[i].key >= rows[m].key => i \in Newest(k)
    BY <2>1, <2>2 DEF Newest
  <2> QED BY <2>1, <2>2, <2>3, <2>4
<1>7. \E s \in S : s \in Newest(k)
  <2>1. SUFFICES ASSUME \A s \in S : s \notin Newest(k) PROVE FALSE
    OBVIOUS
  <2>2. m \in all \ S
    BY <1>2, <1>6, <2>1
  <2>3. \A s \in S : rows[s].key >= rows[m].key
    <3>1. \A s \in S : rows[m].key <= rows[s].key
      BY <1>4, <2>2
    <3>2. \A s \in all : rows[s].key \in Nat
      BY <1>1, <1>2
    <3> QED BY <1>4, <2>2, <3>1, <3>2
  <2>4. \A s \in S : s \notin Visible(k)
    BY <1>6, <2>1, <2>3
  <2>5. S \subseteq others
    <3> SUFFICES ASSUME NEW s \in S PROVE s \in others
      OBVIOUS
    <3>1. PICK h \in Channel : s \in Visible(h)
      BY <1>4
    <3>2. h # k
      BY <2>4, <3>1
    <3>3. \A i \in Newest(k) : rows[s].key >= rows[i].key
      BY <1>6, <2>3
    <3> QED BY <3>1, <3>2, <3>3
  <2>6. Cardinality(others) < Window
    OBVIOUS
  <2> HIDE DEF all, others
  <2>7. IsFiniteSet(S) /\ Cardinality(S) <= Cardinality(others)
    BY <1>3, <2>5, FS_Subset
  <2>8. Cardinality(S) \in Nat /\ Cardinality(all) \in Nat /\ Cardinality(others) \in Nat
    BY <1>3, <2>7, FS_CardinalityType
  <2>9. Cardinality(S) = Cardinality(all)
    BY <1>4, <2>6, <2>7, <2>8, EventNumbers
  <2>10. S = all
    BY <1>3, <1>4, <2>9, FS_Subset
  <2> QED BY <2>2, <2>10
<1>8. PICK s \in S : s \in Newest(k)
  BY <1>7
<1>9. \A i \in DOMAIN rows : i \in Visible(rows[i].topic) \/ rows[i].shown = 0
  BY <1>1, Ids DEF Visible, RowType
<1>10. \A j \in S : rows[j].topic = k => j \in Visible(k)
  BY <1>2, <1>4 DEF Visible
<1>11. s \in Visible(k) /\ rows[s].topic = k /\ rows[s].key = rows[m].key
  BY <1>6, <1>8 DEF Visible
<1>12. s \in ShownIn(S, k)
  BY <1>6, <1>10, <1>11 DEF ShownIn
<1>13. ASSUME NEW i \in ShownIn(S, k) PROVE i \in Newest(k)
  <2>1. i \in S /\ rows[i].topic = k /\ rows[s].key <= rows[i].key
    BY <1>11 DEF ShownIn
  <2>2. i \in Visible(k)
    BY <1>10, <2>1
  <2>3. rows[i].key \in Nat /\ rows[m].key \in Nat
    BY <1>1, <1>2, <1>6, <2>2
  <2> QED BY <1>6, <1>11, <2>1, <2>2, <2>3
<1> QED BY <1>12, <1>13
------------------------------------------------------------------------------
LogsInv ==
  /\ RowsInv /\ WriterInv
  /\ list \in [Client -> ListType] /\ \A c \in Client : PageInv(c)
  /\ StatsInv

\* Empty logs.
LEMMA LogsInit == Init => LogsInv
<1> SUFFICES ASSUME Init PROVE LogsInv
  OBVIOUS
<1>1. rows \in Seq(RowType) /\ Len(rows) = 0 /\ DOMAIN rows = {}
  <2>1. rows = <<>>
    BY DEF Init
  <2> QED BY <2>1, EmptySeq
<1>2. RowsInv
  BY <1>1 DEF Init, RowsInv
<1>3. WriterInv
  <2>1. Begun = {} /\ NoWrite \in WriteType
    BY DEF Init, Begun, NoWrite, WriteType, Topic
  <2>2. Len(rows) + Cardinality(Begun) <= MaxRow
    BY <1>1, <2>1, FS_EmptySet, EventNumbers
  <2> QED BY <2>1, <2>2 DEF Init, WriterInv, NoWrite
<1>4. list \in [Client -> ListType] /\ \A c \in Client : PageInv(c)
  <2>1. NoList \in ListType
    BY EventNumbers DEF NoList, ListType
  <2>2. \A c \in Client : list[c] = NoList
    BY DEF Init
  <2> QED BY <2>1, <2>2 DEF Init, PageInv, NoList
<1>5. StatsInv
  BY DEF Init, StatsInv, CountInv, NoStat, StatType
<1> QED BY <1>2, <1>3, <1>4, <1>5 DEF LogsInv

\* Every step keeps the invariant.
LEMMA LogsStep == LogsInv /\ [Next]_vars => LogsInv'
<1> SUFFICES ASSUME LogsInv, [Next]_vars PROVE LogsInv'
  OBVIOUS
<1> USE DEF LogsInv
<1>1. ASSUME RowsInv', WriterInv', Visible(History) \subseteq Visible(History)', UNCHANGED <<list, stat>>
      PROVE  LogsInv'
  BY <1>1, ListFrame, StatsFrame
<1>2. ASSUME NEW w \in Writer, (\E k \in Topic : Begin(w, k)) \/ Insert(w) \/ Commit(w) \/ Fail(w)
      PROVE  LogsInv'
  <2>1. RowsInv' /\ WriterInv' /\ Visible(History) \subseteq Visible(History)'
    BY <1>2, BeginKeeps, InsertKeeps, CommitKeeps, FailKeeps
  <2>2. UNCHANGED <<list, stat>>
    BY <1>2 DEF Begin, Insert, Commit, Fail
  <2> QED BY <1>1, <2>1, <2>2
<1>3. ASSUME NEW c \in Client, PageRows(c) \/ PageCount(c) \/ CloseList(c)
      PROVE  LogsInv'
  <2>1. UNCHANGED <<now, rows, writer, stat>>
    BY <1>3 DEF PageRows, PageCount, CloseList
  <2>2. RowsInv' /\ WriterInv' /\ \A k : Visible(k)' = Visible(k)
    BY <2>1, LogFrame
  <2>3. PageInv(c)' /\ \A d \in Client : d # c => list'[d] = list[d]
    BY <1>3, PageRowsKeeps, PageCountKeeps, CloseListKeeps
  <2>4. \A d \in Client : PageInv(d)'
    BY <2>2, <2>3, ListFrame
  <2>5. \E x : list' = [list EXCEPT ![c] = x]
    BY <1>3 DEF PageRows, PageCount, CloseList
  <2>6. list' \in [Client -> ListType]
    BY <2>4, <2>5 DEF PageInv
  <2>7. StatsInv'
    BY <2>1, <2>2, StatsFrame
  <2> QED BY <2>2, <2>4, <2>6, <2>7
<1>4. ASSUME NEW r \in Reader, StatTotal(r) \/ StatOutcomes(r) \/ StatGrades(r) \/ StatAnswer(r)
      PROVE  LogsInv'
  <2>1. UNCHANGED <<now, rows, writer, list>>
    BY <1>4 DEF StatTotal, StatOutcomes, StatGrades, StatAnswer
  <2>2. RowsInv' /\ WriterInv' /\ \A k : Visible(k)' = Visible(k)
    BY <2>1, LogFrame
  <2>3. \A d \in Client : PageInv(d)'
    BY <2>1, <2>2, ListFrame
  <2>4. StatsInv'
    BY <1>4, StatKeeps
  <2> QED BY <2>1, <2>2, <2>3, <2>4
<1>5. CASE UNCHANGED vars
  <2>1. UNCHANGED <<now, rows, writer>> /\ UNCHANGED <<list, stat>>
    BY <1>5 DEF vars
  <2> QED BY <1>1, <2>1, LogFrame
<1> HIDE DEF LogsInv
<1> QED BY <1>2, <1>3, <1>4, <1>5 DEF Next

\* The inductive invariant: keys and ids of the rows, what requests in flight own, how far
\* lists and counts have come.
THEOREM LogsInvariant == Spec => []LogsInv
BY LogsInit, LogsStep, PTL DEF Spec

\* The tables, requests, lists and counts keep their types.
THEOREM TypeCorrect == Spec => []TypeOK
<1>1. LogsInv => TypeOK
  <2> SUFFICES ASSUME LogsInv PROVE TypeOK
    OBVIOUS
  <2>1. Len(rows) <= MaxRow
    <3>1. Begun \subseteq Writer
      BY DEF Begun
    <3>2. IsFiniteSet(Begun)
      BY <3>1, EventSlots, FS_Subset
    <3>3. Cardinality(Begun) \in Nat /\ Len(rows) \in Nat
      BY <3>2, FS_CardinalityType, Ids DEF LogsInv
    <3>4. Len(rows) + Cardinality(Begun) <= MaxRow
      BY DEF LogsInv, WriterInv
    <3> QED BY <3>3, <3>4, EventNumbers
  <2>2. \A i \in DOMAIN rows :
          /\ rows[i] \in [topic : Topic, key : Nat, since : Nat, shown : Nat]
          /\ rows[i].key = rows[i].since /\ rows[i].since <= now /\ rows[i].shown < now
    BY Ids DEF LogsInv, RowsInv, RowType
  <2>3. \A c \in Client :
          /\ list[c].pc \in {"idle", "rows", "next", "end"} /\ list[c].cursor \in 1 .. MaxRow + 1
          /\ list[c].page \cup list[c].seen \cup list[c].due \subseteq Visible(History)
    BY DEF LogsInv, PageInv, ListType
  <2> QED BY <2>1, <2>2, <2>3 DEF LogsInv, RowsInv, WriterInv, TypeOK
<1> QED BY <1>1, LogsInvariant, PTL

\* recorded_at, queried_at and the ids order requests that did not overlap (record_consent,
\* record_opt_out, get_verdict), for any number of requests in any order of their commits.
THEOREM KeysInTime == Spec => []KeysFollowTime
<1>1. LogsInv => KeysFollowTime
  <2> SUFFICES ASSUME LogsInv, NEW i \in DOMAIN rows, NEW j \in DOMAIN rows,
                      rows[i].shown > 0, rows[i].shown < rows[j].since
               PROVE  rows[i].key < rows[j].key /\ i < j
    BY DEF KeysFollowTime
  <2>1. /\ rows[i].since \in Nat /\ rows[i].shown \in Nat /\ rows[j].since \in Nat
        /\ i \in Nat /\ j \in Nat
    BY Ids DEF LogsInv, RowType
  <2>2. rows[i].key = rows[i].since /\ rows[j].key = rows[j].since
    BY DEF LogsInv, RowsInv
  <2>3. rows[i].since <= rows[i].shown /\ (j <= i => rows[j].since <= rows[i].shown)
    BY <2>1 DEF LogsInv, RowsInv
  <2> QED BY <2>1, <2>2, <2>3
<1> QED BY <1>1, LogsInvariant, PTL

\* The status shows every channel, and the row that decides, while fewer events of other channels
\* than its window are as new (get_current_status), for any number of channels and events.
THEOREM StatusIsShown == Spec => []StatusShows
<1>1. LogsInv => StatusShows
  BY WindowShows DEF LogsInv
<1> QED BY <1>1, LogsInvariant, PTL

\* Pages turned to the end have shown what was there at the first, and nothing twice
\* (list_history), whatever is added meanwhile.
THEOREM PagesAreExact == Spec => []PagesExact
<1>1. LogsInv => PagesExact
  BY DEF LogsInv, PageInv, PagesExact
<1> QED BY <1>1, LogsInvariant, PTL

\* The counts of a page cover what was shown; those of the statistics do not decrease from one
\* part to the next (list_history, get_stats).
THEOREM CountsAreCovered == Spec => []CountsCover
<1>1. LogsInv => CountsCover
  BY DEF LogsInv, PageInv, StatsInv, CountInv, CountsCover
<1> QED BY <1>1, LogsInvariant, PTL
==============================================================================
