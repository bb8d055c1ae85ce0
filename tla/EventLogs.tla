------------------------------ MODULE EventLogs ------------------------------
(***************************************************************************)
(* The two tables a user only ever adds rows to: marketing_consents        *)
(* (app/services/marketing_consent_service.py) and analysis_history        *)
(* (written by get_verdict of risk_query_service.py, read by               *)
(* history_service.py).                                                    *)
(*                                                                         *)
(* Both are read newest first by a key that a row gets before others can   *)
(* see it.  recorded_at and queried_at default to now(), the start of the  *)
(* transaction, which is the first SELECT of the request; the BIGSERIAL    *)
(* ids are drawn by the INSERT; the row appears with the COMMIT.  Requests *)
(* of one user overlap, so rows appear in another order than that of their *)
(* keys, below rows that a reader has gone past.                           *)
(*                                                                         *)
(* These are the rows of one user: every query filters by user_id, and     *)
(* rows of others only leave gaps in the ids, as a failed INSERT does.     *)
(* Nothing in the code ever sets an outcome, so all rows are 'pending'.    *)
(* Left out: what an event or an analysis says, the filters of the list by *)
(* date and grade.                                                         *)
(***************************************************************************)
EXTENDS Naturals, Sequences, FiniteSets

CONSTANTS
  Channel,   \* consent channels: EMAIL, PUSH
  History,   \* stands for analysis_history beside the channels
  Writer,    \* slots for requests that add a row
  Client,    \* slots for a client that turns the pages
  Reader,    \* slots for GET /history/stats
  Window,    \* rows the status looks at (50)
  PageSize,  \* limit of a page
  MaxRow,    \* bound on rows
  MaxTime    \* bound on the clock when a request begins

ASSUME EventNumbers == Window \in Nat \ {0} /\ PageSize \in Nat \ {0} /\ MaxRow \in Nat /\ MaxTime \in Nat

ASSUME EventTopics == History \notin Channel

ASSUME EventSlots == IsFiniteSet(Writer)

VARIABLES
  now,     \* the database's clock
  rows,    \* rows[id]: both tables, in the order of their INSERTs
  writer,  \* requests that add a row
  list,    \* clients turning the pages of GET /history
  stat     \* GET /history/stats in progress

vars == <<now, rows, writer, list, stat>>

Topic == Channel \cup {History}

NoWrite == [pc |-> "idle", topic |-> History, key |-> 0, since |-> 0, id |-> 0]

\* cursor: the next page lies below it.  due: what was visible to the first page.
NoList == [pc |-> "idle", cursor |-> MaxRow + 1, more |-> TRUE, page |-> {}, seen |-> {}, due |-> {},
           total |-> 0]

NoStat == [pc |-> "idle", total |-> 0, outcomes |-> 0, grades |-> 0]

Init ==
  /\ now = 1
  /\ rows = <<>>
  /\ writer = [w \in Writer |-> NoWrite]
  /\ list = [c \in Client |-> NoList]
  /\ stat = [r \in Reader |-> NoStat]
------------------------------------------------------------------------------
(* Adding a row: record_consent, record_opt_out, _record_analysis *)

Drawn == Len(rows) + Cardinality({w \in Writer : writer[w].pc = "begun"})

\* Mutation: the default is computed once, when the column is defined.
BeginFrozen(w, k) ==
  /\ writer[w].pc = "idle" /\ Drawn < MaxRow /\ now < MaxTime
  /\ \E t \in {now, now + 1} :
       /\ now' = t
       /\ writer' = [writer EXCEPT ![w] =
            [pc |-> "begun", topic |-> k, key |-> 1, since |-> t, id |-> 0]]
  /\ UNCHANGED <<rows, list, stat>>

\* The first statement of the request (get_current_user): the transaction's now().
\* Two may begin in one microsecond.
Begin(w, k) ==
  /\ writer[w].pc = "idle" /\ Drawn < MaxRow /\ now < MaxTime
  /\ \E t \in {now, now + 1} :
       /\ now' = t
       /\ writer' = [writer EXCEPT ![w] =
            [pc |-> "begun", topic |-> k, key |-> t, since |-> t, id |-> 0]]
  /\ UNCHANGED <<rows, list, stat>>

\* The INSERT draws the id and fills in the defaults; nobody else sees the row.
Insert(w) ==
  /\ writer[w].pc = "begun"
  /\ rows' = Append(rows, [topic |-> writer[w].topic, key |-> writer[w].key,
                           since |-> writer[w].since, shown |-> 0])
  /\ writer' = [writer EXCEPT ![w].pc = "inserted", ![w].id = Len(rows) + 1]
  /\ UNCHANGED <<now, list, stat>>

\* The row appears, and the request is answered.
Commit(w) ==
  /\ writer[w].pc = "inserted"
  /\ rows' = [rows EXCEPT ![writer[w].id].shown = now]
  /\ now' = now + 1
  /\ writer' = [writer EXCEPT ![w] = NoWrite]
  /\ UNCHANGED <<list, stat>>

\* The request fails on its way: rolled back.
Fail(w) ==
  /\ writer[w].pc # "idle"
  /\ writer' = [writer EXCEPT ![w] = NoWrite]
  /\ UNCHANGED <<now, rows, list, stat>>

Visible(k) == {i \in DOMAIN rows : rows[i].topic = k /\ rows[i].shown > 0}
------------------------------------------------------------------------------
(* GET /me/marketing-consent and the check before a message is sent *)

\* is_opted_in: ORDER BY recorded_at DESC LIMIT 1 may return any of these.
Newest(k) == {i \in Visible(k) : \A j \in Visible(k) : rows[j].key <= rows[i].key}

\* get_current_status: the newest rows of all channels together ...
Windows ==
  LET all == UNION {Visible(k) : k \in Channel} IN
  {S \in SUBSET all :
     /\ Cardinality(S) = IF Cardinality(all) <= Window THEN Cardinality(all) ELSE Window
     /\ \A i \in S, j \in all \ S : rows[j].key <= rows[i].key}

\* Mutation: the last row of a channel instead of the first.
ShownIn0(S, k) == {i \in S : rows[i].topic = k /\ \A j \in S : rows[j].topic = k => rows[j].key >= rows[i].key}

\* ... and of these the first of each channel: one of them, or no item.
ShownIn(S, k) == {i \in S : rows[i].topic = k /\ \A j \in S : rows[j].topic = k => rows[j].key <= rows[i].key}
------------------------------------------------------------------------------
(* GET /history, page after page *)

\* The PageSize largest of a set of ids.
Top(S) == {i \in S : Cardinality({j \in S : j > i}) < PageSize}

\* analysis_id of the page's last item.
Last(S) == CHOOSE i \in S : \A j \in S : i <= j

\* Mutation: the cursor is the first row of the next page (the limit + 1st).
PageRowsSkip(c) ==
  LET l    == list[c]
      rest == {i \in Visible(History) : i < l.cursor}
      page == Top(rest)
      more == page # rest
  IN /\ l.pc \in {"idle", "next"}
     /\ list' = [list EXCEPT ![c] =
          [l EXCEPT !.pc = "rows", !.page = page, !.more = more,
                    !.cursor = IF more THEN CHOOSE i \in rest \ page : \A j \in rest \ page : j <= i ELSE @,
                    !.due = IF l.pc = "idle" THEN Visible(History) ELSE @]]
     /\ UNCHANGED <<now, rows, writer, stat>>

\* list_history, first statement: limit + 1 rows below the cursor, newest id first.
PageRows(c) ==
  LET l    == list[c]
      rest == {i \in Visible(History) : i < l.cursor}
      page == Top(rest)
      more == page # rest
  IN /\ l.pc \in {"idle", "next"}
     /\ list' = [list EXCEPT ![c] =
          [l EXCEPT !.pc = "rows", !.page = page, !.more = more,
                    !.cursor = IF more THEN Last(page) ELSE @,
                    !.due = IF l.pc = "idle" THEN Visible(History) ELSE @]]
     /\ UNCHANGED <<now, rows, writer, stat>>

\* Mutation: only what the page left over is counted.
PageCountBelow(c) ==
  /\ list[c].pc = "rows"
  /\ list' = [list EXCEPT ![c].pc = IF list[c].more THEN "next" ELSE "end",
                          ![c].total = Cardinality({i \in Visible(History) : i <= list[c].cursor}),
                          ![c].seen = @ \cup list[c].page, ![c].page = {}]
  /\ UNCHANGED <<now, rows, writer, stat>>

\* Second statement: total_count.  The answer has a next_cursor if there was more.
PageCount(c) ==
  /\ list[c].pc = "rows"
  /\ list' = [list EXCEPT ![c].pc = IF list[c].more THEN "next" ELSE "end",
                          ![c].total = Cardinality(Visible(History)),
                          ![c].seen = @ \cup list[c].page, ![c].page = {}]
  /\ UNCHANGED <<now, rows, writer, stat>>

\* The client has seen enough.
CloseList(c) ==
  /\ list[c].pc \in {"next", "end"}
  /\ list' = [list EXCEPT ![c] = NoList]
  /\ UNCHANGED <<now, rows, writer, stat>>
------------------------------------------------------------------------------
(* GET /history/stats: three statements *)

StatTotal(r) ==
  /\ stat[r].pc = "idle"
  /\ stat' = [stat EXCEPT ![r] = [NoStat EXCEPT !.pc = "total", !.total = Cardinality(Visible(History))]]
  /\ UNCHANGED <<now, rows, writer, list>>

\* by_outcome, summed.
StatOutcomes(r) ==
  /\ stat[r].pc = "total"
  /\ stat' = [stat EXCEPT ![r].pc = "outcomes", ![r].outcomes = Cardinality(Visible(History))]
  /\ UNCHANGED <<now, rows, writer, list>>

\* by_grade_outcome, summed.
StatGrades(r) ==
  /\ stat[r].pc = "outcomes"
  /\ stat' = [stat EXCEPT ![r].pc = "answer", ![r].grades = Cardinality(Visible(History))]
  /\ UNCHANGED <<now, rows, writer, list>>

StatAnswer(r) ==
  /\ stat[r].pc = "answer"
  /\ stat' = [stat EXCEPT ![r] = NoStat]
  /\ UNCHANGED <<now, rows, writer, list>>

Next ==
  \/ \E w \in Writer :
       \/ \E k \in Topic : Begin(w, k)
       \/ Insert(w) \/ Commit(w) \/ Fail(w)
  \/ \E c \in Client : PageRows(c) \/ PageCount(c) \/ CloseList(c)
  \/ \E r \in Reader : StatTotal(r) \/ StatOutcomes(r) \/ StatGrades(r) \/ StatAnswer(r)

Spec == Init /\ [][Next]_vars
------------------------------------------------------------------------------
(* Properties *)

\* Types.  A row's key is its request's start, an unpublished row's request is in flight or failed.
TypeOK ==
  /\ now \in Nat /\ Len(rows) <= MaxRow
  /\ \A i \in DOMAIN rows :
       /\ rows[i] \in [topic : Topic, key : Nat, since : Nat, shown : Nat]
       /\ rows[i].key = rows[i].since /\ rows[i].since <= now /\ rows[i].shown < now
  /\ \A w \in Writer : writer[w].pc = "inserted" =>
       writer[w].id \in DOMAIN rows /\ rows[writer[w].id].shown = 0
  /\ \A v, w \in Writer : v # w /\ writer[v].pc = "inserted" /\ writer[w].pc = "inserted" =>
       writer[v].id # writer[w].id
  /\ \A c \in Client :
       /\ list[c].pc \in {"idle", "rows", "next", "end"} /\ list[c].cursor \in 1 .. MaxRow + 1
       /\ list[c].page \cup list[c].seen \cup list[c].due \subseteq Visible(History)

\* recorded_at, queried_at and the ids order what did not overlap: an event that was answered
\* before the request of another began has the smaller key and the smaller id, so the newest
\* row (is_opted_in) is the last answer of any two that a user gave one after the other.
KeysFollowTime ==
  \A i, j \in DOMAIN rows :
    rows[i].shown > 0 /\ rows[i].shown < rows[j].since => rows[i].key < rows[j].key /\ i < j

\* get_current_status shows a channel, and a row that is_opted_in may take, as long as fewer
\* than 50 events of other channels are as new: the bound the comment at
\* marketing_consent_service.py:90 leaves open.
StatusShows ==
  \A k \in Channel, S \in Windows :
    LET others == {j \in UNION {Visible(h) : h \in Channel \ {k}} :
                     \A i \in Newest(k) : rows[j].key >= rows[i].key}
    IN  Visible(k) # {} /\ Cardinality(others) < Window =>
          ShownIn(S, k) # {} /\ ShownIn(S, k) \subseteq Newest(k)

\* A client that follows next_cursor until there is none has seen every analysis that was in
\* the table when it asked for the first page, and none twice, whatever was added between the
\* pages; what appears meanwhile, even below the cursor, it may miss.
PagesExact ==
  \A c \in Client :
    /\ list[c].pc = "end" => list[c].due \subseteq list[c].seen
    /\ list[c].page \cap list[c].seen = {}

\* Counts read in statements of their own: total_count is never less than what the pages have
\* shown, and the three parts of GET /history/stats differ only by rows that appeared between
\* them, the later part counting more.
CountsCover ==
  /\ \A c \in Client : list[c].pc \in {"next", "end"} => Cardinality(list[c].seen) <= list[c].total
  /\ \A r \in Reader : stat[r].pc = "answer" =>
       /\ stat[r].total <= stat[r].outcomes /\ stat[r].outcomes <= stat[r].grades
       /\ stat[r].grades <= Cardinality(Visible(History))
==============================================================================
