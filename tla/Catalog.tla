------------------------------ MODULE Catalog ------------------------------
(***************************************************************************)
(* The fixture ingest command: one transaction that records the responses  *)
(* of a manifest in the ledger (ingest/service.py) and, when it was given  *)
(* a schema policy, projects them into the normalized catalog              *)
(* (analytics/projection.py).  Manifests of any age may be replayed in any *)
(* order, with or without a policy, and under policies that approve more   *)
(* or less than the last one did.                                          *)
(*                                                                         *)
(* A payload is its own SHA-256, an observation the triple its unique key  *)
(* consists of.  Ids are numbered in the order rows are flushed.  One      *)
(* command runs at a time.                                                 *)
(***************************************************************************)
EXTENDS Integers, FiniteSets, Sequences, SequencesExt

CONSTANTS
    Work, Profile, Page,  \* source ids of works, authors and other entities
    Order,      \* the sources in the order manifests list them
    Payload,    \* [id, shape, author, count, tags]
    Manifest,   \* functions from some sources to [body, at, code]
    Policy,     \* [checked, approves, rejects]: is there one, and its decisions
    MaxRuns     \* bound of the commands run

Null == -1      \* a public count the source does not show
Metric == {"views", "bookmarks", "likes"}

Source == Work \cup Profile \cup Page
Code == {"ok", "missing", "unreadable"}
ErrorCodes == {"fixture_ingest_error", "schema_rejected", "unknown_schema"}
Observation == [source : Source, body : Payload, at : Nat]

CatalogAssumption ==
    /\ Order \in Seq(Source)
    /\ \A i, j \in 1 .. Len(Order) : Order[i] = Order[j] => i = j
    /\ \A b \in Payload : /\ b.count \in [Metric -> Nat \cup {Null}]
                          /\ b.tags \in Seq(Range(b.tags))
    /\ \A m \in Manifest :
           /\ DOMAIN m \subseteq {Order[i] : i \in 1 .. Len(Order)}
           /\ \A s \in DOMAIN m :
                  m[s].body \in Payload /\ m[s].at \in Nat /\ m[s].code \in Code
    /\ \A p \in Policy : p.checked \in BOOLEAN
    /\ MaxRuns \in Nat
ASSUME CatalogAssumption

VARIABLES
    runs,
    crawls,      \* crawl_runs by id, each with the statuses of its tasks
    record,      \* source_records: id, last_seen_at and current_availability
    obs,         \* raw_observations: id and status of each
    quarantine,  \* open quarantine_records by id: a source, its observation
                 \* and the error
    authors,     \* catalog_authors: id and latest observation
    works,       \* catalog_works: id and latest observation
    tags,        \* catalog_tags, by id
    links,       \* catalog_work_tags
    snaps,       \* catalog_work_metric_snapshots, by id
    refused,     \* history: the sources whose payload a policy refused
    replayed     \* history: works last projected from an older observation

ledger == <<crawls, record, obs, quarantine>>
catalog == <<authors, works, tags, links, snaps, replayed>>
vars == <<runs, ledger, catalog, refused>>

NoObservation == [none |-> TRUE]
Empty == [x \in {} |-> {}]
NoPolicy == [checked |-> FALSE, approves |-> {}, rejects |-> {}]

Init ==
    /\ runs = 0
    /\ crawls = <<>> /\ record = Empty /\ obs = Empty /\ quarantine = <<>>
    /\ authors = Empty /\ works = Empty /\ links = Empty
    /\ tags = <<>> /\ snaps = <<>>
    /\ refused = {} /\ replayed = {}

\* f with g's values where g is defined.
Over(g, f) ==
    [x \in DOMAIN f \cup DOMAIN g |-> IF x \in DOMAIN g THEN g[x] ELSE f[x]]

\* The elements of S in a total order: as many are up to the k-th as k.
Ranked(S, UpTo(_, _)) ==
    [k \in 1 .. Cardinality(S) |->
        CHOOSE x \in S : Cardinality({y \in S : UpTo(y, x)}) = k]

Place(s) == CHOOSE i \in 1 .. Len(Order) : Order[i] = s

\* The sources of S in the order a manifest lists them.
Listed(S) == Ranked(S, LAMBDA s, t : Place(s) <= Place(t))

\* The id of the row that x gets when the rows of fresh are added to a table.
NewId(table, fresh, x) ==
    Cardinality(DOMAIN table) + (CHOOSE i \in 1 .. Len(fresh) : fresh[i] = x)
-----------------------------------------------------------------------------
(* ingest_fixture_provider *)

\* provider.fetch raises for a file that cannot be read.
Fetched(m) == {s \in DOMAIN m : m[s].code # "unreadable"}

\* Only 2xx responses reach _persist_response.
Answered(m) == {s \in DOMAIN m : m[s].code = "ok"}

Observed(m) == [s \in Answered(m) |->
                   [source |-> s, body |-> m[s].body, at |-> m[s].at]]

\* validate_response: an exact policy entry, or quarantine.
Validate(p, body) ==
    IF ~p.checked THEN "pending"
    ELSE IF body.shape \in p.approves THEN "valid" ELSE "quarantined"

Refused(m, p) ==
    {s \in Answered(m) : Validate(p, m[s].body) = "quarantined"}

\* _update_source_availability: the time seen is the response's, whatever was
\* there before.
Availability(m, s) ==
    [seen |-> m[s].at,
     available |-> IF m[s].code = "ok" THEN "available" ELSE "missing"]

\* _get_or_create_source_record for every request of the manifest.
Records(m) ==
    LET fresh == Listed(DOMAIN m \ DOMAIN record)
        row(s) == IF s \in DOMAIN record THEN record[s]
                  ELSE [id |-> NewId(record, fresh, s), seen |-> 0,
                        available |-> "unknown"]
    IN  Over([s \in DOMAIN m |->
                 IF s \in Fetched(m) THEN Over(Availability(m, s), row(s))
                 ELSE row(s)],
             record)

\* A task succeeds when its response was recorded, valid or not.
Crawl(m, p) ==
    [status |-> IF DOMAIN m = Answered(m) /\ Refused(m, p) = {} THEN "completed"
                ELSE "completed_with_errors",
     tasks |-> [i \in 1 .. Len(Listed(DOMAIN m)) |->
                   IF Listed(DOMAIN m)[i] \in Answered(m) THEN "succeeded"
                   ELSE "failed"]]

FreshObservations(m) ==
    LET fresh == Listed({s \in Answered(m) : Observed(m)[s] \notin DOMAIN obs})
    IN  [i \in 1 .. Len(fresh) |-> Observed(m)[fresh[i]]]

\* _persist_response: a known observation keeps its verdict once it has one.
Observations(m, p) ==
    Over([o \in Range(Observed(m)) |->
             IF o \notin DOMAIN obs
             THEN [id |-> NewId(obs, FreshObservations(m), o),
                   status |-> Validate(p, o.body)]
             ELSE IF p.checked /\ obs[o].status = "pending"
             THEN [obs[o] EXCEPT !.status = Validate(p, o.body)]
             ELSE obs[o]],
         obs)

\* A shape the policy rejects, or has no entry for; or the task failed.
ErrorCode(m, p, s) ==
    IF s \notin Answered(m) THEN "fixture_ingest_error"
    ELSE IF m[s].body.shape \in p.rejects THEN "schema_rejected" ELSE "unknown_schema"

Item(m, p, s) ==
    [source |-> s, code |-> ErrorCode(m, p, s),
     obs |-> IF s \in Answered(m) THEN Observed(m)[s] ELSE NoObservation]

\* Mutant: only new observations are put in quarantine.
QuarantinedIfNew(m, p) ==
    LET fresh == Listed({s \in Refused(m, p) : Observed(m)[s] \notin DOMAIN obs}
                            \cup (DOMAIN m \ Answered(m)))
    IN  quarantine \o [i \in 1 .. Len(fresh) |-> Item(m, p, fresh[i])]

\* _persist_validation_quarantine, once for each observation and error, and a
\* record for every task that fails.
Quarantined(m, p) ==
    LET fresh == Listed({s \in Refused(m, p) : Item(m, p, s) \notin Range(quarantine)}
                            \cup (DOMAIN m \ Answered(m)))
    IN  quarantine \o [i \in 1 .. Len(fresh) |-> Item(m, p, fresh[i])]
-----------------------------------------------------------------------------
(* project_fixture_catalog, over the observations O of the same transaction *)

\* _validated_observation: this very payload, found valid at some time.
Exact(m, O, s) ==
    {o \in DOMAIN O : o.source = s /\ o.body = m[s].body /\ O[o].status = "valid"}

Newest(S) == CHOOSE o \in S : \A q \in S : q.at <= o.at

Projected(m) == DOMAIN m \ Page

\* The first request that cannot be tied to its observation raises.
Projectable(m, O) ==
    \A s \in Projected(m) :
        /\ s \in Fetched(m)
        /\ Exact(m, O, s) # {}
        /\ m[s].body.id = s

Lineage(m, O) == [s \in Projected(m) |-> Newest(Exact(m, O, s))]

Named(L, a) == {s \in DOMAIN L : L[s].body.author = a}

\* The authors new to the catalog, in the order they are first named.
FreshAuthors(L) ==
    LET namesFirst(s) == \A q \in Named(L, L[s].body.author) : Place(s) <= Place(q)
        fresh == Listed({s \in DOMAIN L : /\ L[s].body.author \notin DOMAIN authors
                                          /\ namesFirst(s)})
    IN  [i \in 1 .. Len(fresh) |-> L[fresh[i]].body.author]

\* _upsert_author for each request that names the author: the newest
\* observation wins, the last of several as new.
Authors(L) ==
    LET at(i) == L[Order[i]].at
        named(a) == {i \in 1 .. Len(Order) : Order[i] \in Named(L, a)}
        best(a) == CHOOSE i \in named(a) :
                       \A j \in named(a) : at(j) < at(i) \/ (at(j) = at(i) /\ j <= i)
    IN  Over([a \in {L[s].body.author : s \in DOMAIN L} |->
                 IF a \notin DOMAIN authors
                 THEN [id |-> NewId(authors, FreshAuthors(L), a),
                       obs |-> L[Order[best(a)]]]
                 ELSE IF at(best(a)) >= authors[a].obs.at
                 THEN [authors[a] EXCEPT !.obs = L[Order[best(a)]]]
                 ELSE authors[a]],
             authors)

ProjectedWorks(L) == DOMAIN L \cap Work

Older(L, w) == w \in DOMAIN works /\ L[w].at < works[w].obs.at

\* Mutant: the row takes whatever was projected last.
WorksReplayed(L) ==
    LET fresh == Listed(ProjectedWorks(L) \ DOMAIN works)
    IN  Over([w \in ProjectedWorks(L) |->
                 [id |-> IF w \in DOMAIN works THEN works[w].id
                         ELSE NewId(works, fresh, w),
                  obs |-> L[w]]],
             works)

\* _upsert_work: an older observation leaves the row alone.
Works(L) ==
    LET fresh == Listed(ProjectedWorks(L) \ DOMAIN works)
    IN  Over([w \in ProjectedWorks(L) |->
                 IF w \notin DOMAIN works
                 THEN [id |-> NewId(works, fresh, w), obs |-> L[w]]
                 ELSE IF Older(L, w) THEN works[w]
                 ELSE [works[w] EXCEPT !.obs = L[w]]],
             works)

\* _upsert_metric_snapshot: one for each observation.
Snapshots(L) ==
    LET fresh == Listed({w \in ProjectedWorks(L) : L[w] \notin Range(snaps)})
    IN  snaps \o [i \in 1 .. Len(fresh) |-> L[fresh[i]]]

\* Mutant: the old links are not deleted.
LinksAdded(L) ==
    Over([w \in ProjectedWorks(L) |->
             Range(L[w].body.tags) \cup (IF w \in DOMAIN links THEN links[w] ELSE {})],
         links)

\* The links of a work are replaced by those of the payload, old or new.
Links(L) == Over([w \in ProjectedWorks(L) |-> Range(L[w].body.tags)], links)

\* _upsert_tag for each tag of each work; no tag is ever removed.
Tags(L) ==
    LET W == Listed(ProjectedWorks(L))
        named == FlattenSeq([i \in 1 .. Len(W) |-> L[W[i]].body.tags])
        first(t) == CHOOSE i \in 1 .. Len(named) :
                        named[i] = t /\ \A j \in 1 .. i - 1 : named[j] # t
        fresh == (UNION {Range(L[w].body.tags) : w \in ProjectedWorks(L)}) \ Range(tags)
    IN  tags \o Ranked(fresh, LAMBDA t, u : first(t) <= first(u))
-----------------------------------------------------------------------------
(* pyuri-db ingest-fixtures: session_scope commits all of it or nothing *)

Command(m, p) ==
    /\ runs < MaxRuns
    /\ runs' = runs + 1
    /\ refused' = refused \cup Refused(m, p)

Ingest(m, p) ==
    /\ crawls' = Append(crawls, Crawl(m, p))
    /\ record' = Records(m)
    /\ obs' = Observations(m, p)
    /\ quarantine' = Quarantined(m, p)

\* Without a policy nothing is projected.
IngestOnly(m, p) ==
    /\ ~p.checked
    /\ Command(m, p)
    /\ Ingest(m, p)
    /\ UNCHANGED catalog

IngestAndProject(m, p) ==
    LET L == Lineage(m, Observations(m, p)) IN
    /\ p.checked
    /\ Projectable(m, Observations(m, p))
    /\ Command(m, p)
    /\ Ingest(m, p)
    /\ authors' = Authors(L)
    /\ works' = Works(L)
    /\ snaps' = Snapshots(L)
    /\ tags' = Tags(L)
    /\ links' = Links(L)
    /\ replayed' = {w \in replayed \cup ProjectedWorks(L) :
                       w \in ProjectedWorks(L) => Older(L, w)}

\* The projection raises, and the ledger's part is rolled back with it.
RollBack(m, p) ==
    /\ p.checked
    /\ ~Projectable(m, Observations(m, p))
    /\ Command(m, p)
    /\ UNCHANGED <<ledger, catalog>>

CatalogNext ==
    \E m \in Manifest, p \in Policy :
        IngestOnly(m, p) \/ IngestAndProject(m, p) \/ RollBack(m, p)

CatalogSpec == Init /\ [][CatalogNext]_vars
-----------------------------------------------------------------------------
(* Properties *)

SnapsOf(w) == {snaps[i] : i \in {j \in 1 .. Len(snaps) : snaps[j].source = w}}

\* "Every work and author projection references the exact validated immutable
\* observation that produced it" (normalized-catalog.md:18), and however old
\* the manifests replayed since are, that observation is the newest one the
\* work's metric history holds.  "Each unique validated work observation
\* produces at most one metric snapshot" (normalized-catalog.md:22).
WorkIsNewest ==
    \A w \in DOMAIN works :
        /\ works[w].obs \in SnapsOf(w)
        /\ obs[works[w].obs].status = "valid"
        /\ \A o \in SnapsOf(w) : o.at <= works[w].obs.at
        /\ Cardinality({i \in 1 .. Len(snaps) : snaps[i].source = w})
               = Cardinality(SnapsOf(w))

\* A work's tags are those of the observation its row references, unless it
\* was last projected from an older one: _upsert_work then keeps the row, but
\* the loop that replaces the links does not look at the observation's time.
TagsFollowRow ==
    \A w \in DOMAIN works \ replayed : links[w] = Range(works[w].obs.body.tags)

\* The inductive invariants of these two.  Observations are finitely many; the
\* snapshots are distinct valid observations of works the catalog has.
LedgerTyped ==
    /\ IsFiniteSet(DOMAIN obs)
    /\ DOMAIN obs \subseteq Observation
    /\ snaps \in Seq(Observation)
    /\ DOMAIN works \subseteq Range(Order)
    /\ works \in [DOMAIN works -> [id : Nat, obs : Observation]]

SnapsDistinct ==
    \A i, j \in 1 .. Len(snaps) : snaps[i] = snaps[j] => i = j

SnapsValid ==
    \A i \in 1 .. Len(snaps) :
        /\ snaps[i] \in DOMAIN obs
        /\ obs[snaps[i]].status = "valid"
        /\ snaps[i].source \in DOMAIN works

RowsNewest ==
    \A w \in DOMAIN works :
        /\ works[w].obs \in SnapsOf(w)
        /\ \A o \in SnapsOf(w) : o.at <= works[w].obs.at

HistoryInv == LedgerTyped /\ SnapsDistinct /\ SnapsValid /\ RowsNewest

\* The rows of a table are numbered from 1, each with a number of its own.
Numbered(table) ==
    /\ IsFiniteSet(DOMAIN table)
    /\ \A x \in DOMAIN table : /\ "id" \in DOMAIN table[x]
                               /\ table[x].id \in 1 .. Cardinality(DOMAIN table)
    /\ \A x, y \in DOMAIN table : table[x].id = table[y].id => x = y

IdsInv ==
    /\ Numbered(record) /\ Numbered(obs) /\ Numbered(authors) /\ Numbered(works)
    /\ crawls \in Seq([status : {"completed", "completed_with_errors"},
                       tasks : Seq({"succeeded", "failed"})])
    /\ quarantine \in Seq([source : Source, code : ErrorCodes,
                           obs : Observation \cup {NoObservation}])
    /\ tags \in Seq(Range(tags))

LinksInv ==
    /\ works \in [DOMAIN works -> [id : Nat, obs : Observation]]
    /\ DOMAIN links = DOMAIN works
    /\ TagsFollowRow

\* The foreign key of a work's row: the catalog has its author.
AuthorsKnown ==
    \A w \in DOMAIN works : works[w].obs.body.author \in DOMAIN authors

\* Every observation in quarantine is in the review queue, though its verdict
\* may come with a later command than the observation itself, and though policies
\* change between commands; and no question is asked twice, however often the
\* manifest is replayed: an error of an observation has one open item
\* (ingest/service.py:298).
ReviewsAreQueued ==
    /\ \A o \in DOMAIN obs :
           obs[o].status = "quarantined" =>
               \E i \in 1 .. Len(quarantine) : quarantine[i].obs = o
    /\ \A i, j \in 1 .. Len(quarantine) :
           quarantine[i] = quarantine[j] /\ quarantine[i].obs # NoObservation => i = j

\* "With --schema-policy, ... unknown/rejected/parser failures record
\* quarantined plus an open review item" (ingest-ledger.md:37).
QuarantineIsRecorded ==
    \A s \in refused : \E i \in 1 .. Len(quarantine) : quarantine[i].source = s
=============================================================================
