----------------------------- MODULE CatalogApi -----------------------------
(***************************************************************************)
(* A client walks through a paged listing of the read API while ingest     *)
(* commands commit between its requests.  Listings are ordered by id, or,  *)
(* for rankings, by score and id; a page's last row becomes the cursor of  *)
(* the next request, and the server keeps nothing between two requests.    *)
(* (api/read_api.py, operations_read_api.py, catalog_api.py, detail_api.py)*)
(*                                                                         *)
(* A row of a listing is its id and its score as a fraction num / den:     *)
(* PostgreSQL divides the NUMERIC sum of BIGINT columns exactly, and only  *)
(* the cursor holds the whole part.                                        *)
(***************************************************************************)
EXTENDS TagAnalytics

CONSTANTS
    Listing,    \* [list, arg]: the listings a client may walk through
    PageLimit   \* limit of each request

Rankings == {"rank_works", "rank_authors", "rank_averages"}
Lists == {"sources", "observations", "schemas", "runs", "tasks", "quarantine",
          "works", "tags", "authors", "history", "rank_by_works"} \cup Rankings

ApiAssumption ==
    /\ PageLimit \in Nat \ {0}
    /\ \A l \in Listing : /\ l.list \in Lists
                          /\ l.list \in Rankings => l.arg \in Metric
ASSUME ApiAssumption

VARIABLE walk   \* the client: its listing, cursor, the rows it was shown
                \* and (history) those that did not move since it started

apivars == <<vars, walk>>

Start == [id |-> 0]      \* no cursor
Idle == [list |-> "none"]
NoWalk == [of |-> Idle, cursor |-> Start, shown |-> <<>>, stable |-> {},
           over |-> FALSE]

ApiInit == Init /\ walk = NoWalk

Row(id) == [id |-> id, num |-> 0, den |-> 1]
Scored(id, num, den) == [id |-> id, num |-> num, den |-> den]
Coalesce(n) == IF n = Null THEN 0 ELSE n
-----------------------------------------------------------------------------
(* The rows that answer a request without a cursor *)

\* list_source_records, with or without an entity type
ListSourceRecords(S) == {Row(record[s].id) : s \in DOMAIN record \cap S}

\* list_observations: of one source record
ListObservations(s) ==
    {Row(obs[o].id) : o \in {q \in DOMAIN obs : q.source = s}}

\* list_schema_definitions: a schema is added with its first observation, so
\* the two have the same order.
ListSchemaDefinitions ==
    {Row(Min({obs[o].id : o \in {q \in DOMAIN obs : q.body.shape = h}})) :
        h \in {o.body.shape : o \in DOMAIN obs}}

\* list_operational_runs with a status
ListRuns(status) == {Row(i) : i \in {j \in 1 .. Len(crawls) :
                                        crawls[j].status = status}}

\* list_operational_tasks of one run; a run's tasks have successive ids.
ListTasks(run) ==
    {Row(i) : i \in IF run \in 1 .. Len(crawls)
                    THEN 1 .. Len(crawls[run].tasks) ELSE {}}

\* list_quarantine_summaries
ListQuarantine == {Row(i) : i \in 1 .. Len(quarantine)}

\* list_works, with or without a tag
ListWorks(T) ==
    {Row(works[w].id) : w \in {v \in DOMAIN works : T \subseteq links[v]}}

\* list_tag_aggregates
ListTagAggregates == {Row(i) : i \in 1 .. Len(tags)}

\* list_author_aggregates: authors without works too
ListAuthorAggregates == {Row(authors[a].id) : a \in DOMAIN authors}

\* list_work_metric_history
ListMetricHistory(w) ==
    {Row(i) : i \in {j \in 1 .. Len(snaps) : snaps[j].source = w}}

\* rank_works: a count that is not shown ranks as 0
RankWorks(k) ==
    {Scored(works[w].id, Coalesce(CountOf(w, k)), 1) : w \in DOMAIN works}

\* rank_authors: "works", a metric's total or its average in hundredths.  An
\* author with no work that shows the metric is left out.
RankAuthors(k, average) ==
    {Scored(authors[a].id, Total(WorksOf(a), k) * (IF average THEN 100 ELSE 1),
            IF average THEN Coverage(WorksOf(a), k) ELSE 1) :
        a \in {b \in DOMAIN authors : Coverage(WorksOf(b), k) > 0}}

RankAuthorsByWorks ==
    {Scored(authors[a].id, Cardinality(WorksOf(a)), 1) :
        a \in {b \in DOMAIN authors : WorksOf(b) # {}}}

Rows(l) ==
    CASE l.list = "sources" -> ListSourceRecords(l.arg)
      [] l.list = "observations" -> ListObservations(l.arg)
      [] l.list = "schemas" -> ListSchemaDefinitions
      [] l.list = "runs" -> ListRuns(l.arg)
      [] l.list = "tasks" -> ListTasks(l.arg)
      [] l.list = "quarantine" -> ListQuarantine
      [] l.list = "works" -> ListWorks(l.arg)
      [] l.list = "tags" -> ListTagAggregates
      [] l.list = "authors" -> ListAuthorAggregates
      [] l.list = "history" -> ListMetricHistory(l.arg)
      [] l.list = "rank_works" -> RankWorks(l.arg)
      [] l.list = "rank_authors" -> RankAuthors(l.arg, FALSE)
      [] l.list = "rank_averages" -> RankAuthors(l.arg, TRUE)
      [] l.list = "rank_by_works" -> RankAuthorsByWorks
-----------------------------------------------------------------------------
\* ORDER BY score DESC, id
Before(r, q) ==
    \/ r.num * q.den > q.num * r.den
    \/ r.num * q.den = q.num * r.den /\ r.id < q.id

\* encode_rank_cursor(int(score), id); for a listing without scores this is
\* encode_cursor(id).
EncodeCursor(r) == [id |-> r.id, score |-> r.num \div r.den]

\* Mutant: rows with the score of the cursor are taken as shown.
AfterScore(r, c) == c = Start \/ r.num < c.score * r.den

\* The rows after a cursor: score < c.score OR (score = c.score AND id > c.id).
After(r, c) ==
    \/ c = Start
    \/ r.num < c.score * r.den
    \/ r.num = c.score * r.den /\ r.id > c.id

\* The first limit + 1 rows after the cursor; the last of them only tells that
\* there is more.
PageRows(l, c) ==
    LET sorted == Ranked({r \in Rows(l) : After(r, c)},
                         LAMBDA q, r : q = r \/ Before(q, r))
    IN  SubSeq(sorted, 1, Min({PageLimit + 1, Len(sorted)}))

BeginWalk(l) ==
    /\ walk = NoWalk
    /\ walk' = [NoWalk EXCEPT !.of = l, !.stable = Rows(l)]
    /\ UNCHANGED vars

\* One GET, and the client's use of next_cursor.
NextPage ==
    LET rows == PageRows(walk.of, walk.cursor)
        page == SubSeq(rows, 1, Min({PageLimit, Len(rows)}))
    IN
    /\ walk.of # Idle /\ ~walk.over
    /\ walk' = [walk EXCEPT
                   !.shown = @ \o page,
                   !.over = Len(rows) <= PageLimit,
                   !.cursor = IF Len(rows) > PageLimit
                              THEN EncodeCursor(page[Len(page)]) ELSE @]
    /\ UNCHANGED vars

\* A command commits between two pages; a row moves when it enters or leaves the
\* listing or its score changes.
IngestCommand ==
    \E l \in {walk.of} :
        /\ CatalogNext
        /\ ~walk.over
        /\ walk' = IF l = Idle THEN walk
                   ELSE [walk EXCEPT !.stable = @ \cap Rows(l)']

ApiNext == (\E l \in Listing : BeginWalk(l)) \/ NextPage \/ IngestCommand

ApiSpec == ApiInit /\ [][ApiNext]_apivars
-----------------------------------------------------------------------------
(* Properties *)

ShownAt(r) == {i \in 1 .. Len(walk.shown) : walk.shown[i] = r}

ShownOnce ==
    \A r \in walk.stable :
        /\ Cardinality(ShownAt(r)) <= 1
        /\ walk.over => ShownAt(r) # {}

\* A client that follows next_cursor to the end is shown every row that did not
\* move while it read exactly once, whatever was ingested between its pages:
\* rows are not skipped and not repeated, equal scores included
\* (catalog_api.py:167, detail_api.py:231).
WalkIsExact == walk.of.list # "rank_averages" => ShownOnce

\* Its inductive invariant: the rows that did not move and are behind the cursor
\* were shown once, those after it not yet.
RowType == [id : Nat, num : Nat, den : {1}]

Unfractional ==
    /\ walk.shown \in Seq(RowType)
    /\ walk.cursor \in {Start} \cup [id : Nat, score : Nat]
    /\ walk.stable \subseteq Rows(walk.of)
    /\ \A r \in walk.stable :
           IF ~walk.over /\ After(r, walk.cursor) THEN ShownAt(r) = {}
           ELSE \E i \in 1 .. Len(walk.shown) : ShownAt(r) = {i}

WalkInv ==
    /\ DOMAIN walk = DOMAIN NoWalk
    /\ walk.of \in Listing \cup {Idle}
    /\ walk.over \in BOOLEAN
    /\ walk.of = Idle => walk = NoWalk
    /\ walk.of \in Listing /\ walk.of.list # "rank_averages" => Unfractional

\* "Average rankings ... use deterministic integer centi-unit scores"
\* (phase4-author-analytics.md:45), ordered "by score descending plus an
\* ascending stable key" (phase2-read-api.md:53): a walk through them shows every
\* author that did not move once.
AveragesArePaged == walk.of.list = "rank_averages" => ShownOnce
=============================================================================
