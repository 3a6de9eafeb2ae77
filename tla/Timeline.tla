------------------------------ MODULE Timeline ------------------------------
(***************************************************************************)
(* The timeline API: internal/application/timeline/service.go over the     *)
(* queries of internal/platform/database/timeline.sql.go.  A reader walks  *)
(* a list page by page, each page a statement of its own that starts after *)
(* the last item of the page before, while collectors insert series and    *)
(* revisions.  The cursor is the key of that item; its encoding is left    *)
(* out.  The value, unit and provenance of an item go with its row.        *)
(***************************************************************************)
EXTENDS Revisions

CONSTANTS
    SeriesRow,      \* series id -> [source, code, ...], ids in the order of UUIDs
    LaterSeries,    \* ids of series that are inserted after the start
    WalkRequest,    \* [list, series, mode, from, to, asOf, limit]
    MaxWalks        \* bound on walks

\* Of the observations of one series, or of several combined; revisions are
\* listed of one series only.
ASSUME TimelineAssumption ==
    /\ IsFiniteSet(DOMAIN SeriesRow) /\ LaterSeries \subseteq DOMAIN SeriesRow
    /\ \A s \in DOMAIN SeriesRow : s \in Int /\ SeriesRow[s].source \in Int /\ SeriesRow[s].code \in Int
    /\ \A a \in Arrival : a.kind = "observation" => a.of \in Int
    /\ \A q \in WalkRequest :
          /\ q.list \in {"series", "observations", "combined"}
          /\ q.mode \in {"latest", "system_as_of", "source_as_of", "revisions"}
          /\ q.list = "observations" => \E s \in DOMAIN SeriesRow : q.series = {s}
          /\ q.list = "combined" => q.mode # "revisions"
          /\ q.asOf \in Int /\ q.limit \in Nat \ {0}

VARIABLES
    created,        \* series id -> created_at, of the series in the table
    reader,         \* the walk in progress
    walks           \* walks that came to their end

timelineVars == <<created, reader, walks>>

NoReader == [phase |-> "idle"]

TimelineInit ==
    /\ created = [s \in DOMAIN SeriesRow \ LaterSeries |-> 0]
    /\ reader = NoReader
    /\ walks = <<>>

-----------------------------------------------------------------------------
(* Lists and their order.                                                  *)

InSpan(q) ==
    {r \in Visible : r.kind = "observation" /\ r.of \in q.series /\ q.from <= r.obs /\ r.obs < q.to}

\* DISTINCT ON (series_id, observation_time), the greatest key first.
NewestOfEach(S, Key(_)) ==
    {r \in S : \A s \in S : s.of = r.of /\ s.obs = r.obs => s = r \/ Before(Key(s), Key(r))}

SystemKey(r) == <<r.system, r.id>>
SourceKey(r) == <<r.source, r.system, r.id>>

LatestRows(q) == NewestOfEach(InSpan(q), SystemKey)
SystemAsOfRows(q) == NewestOfEach({r \in InSpan(q) : r.system <= q.asOf}, SystemKey)
SourceAsOfRows(q) ==
    NewestOfEach({r \in InSpan(q) : r.source # NoTime /\ r.source <= q.asOf}, SourceKey)

SeriesKey(s) == <<SeriesRow[s].source, SeriesRow[s].code, s>>
ObservationKey(r) == <<r.obs, r.id>>
CombinedKey(r) == <<r.obs, r.of, r.id>>
RevisionKey(r) == <<r.obs, r.system, r.id>>

\* WHERE key > cursor ORDER BY key LIMIT n; the first page has no cursor.
Keyset(key, cursor, n) ==
    LET rest == {x \in DOMAIN key : cursor = <<>> \/ Before(cursor, key[x])}
        rows == InOrder([x \in rest |-> key[x]]) IN
    SubSeq(rows, 1, Min({n, Len(rows)}))

ListTimelineSeries(cursor, n) == Keyset([s \in DOMAIN created |-> SeriesKey(s)], cursor, n)
ObservationsLatest(q, cursor, n) == Keyset([r \in LatestRows(q) |-> ObservationKey(r)], cursor, n)
ObservationsSystemAsOf(q, cursor, n) == Keyset([r \in SystemAsOfRows(q) |-> ObservationKey(r)], cursor, n)
ObservationsSourceAsOf(q, cursor, n) == Keyset([r \in SourceAsOfRows(q) |-> ObservationKey(r)], cursor, n)
ObservationRevisions(q, cursor, n) == Keyset([r \in InSpan(q) |-> RevisionKey(r)], cursor, n)
CombinedLatest(q, cursor, n) == Keyset([r \in LatestRows(q) |-> CombinedKey(r)], cursor, n)
CombinedSystemAsOf(q, cursor, n) == Keyset([r \in SystemAsOfRows(q) |-> CombinedKey(r)], cursor, n)
CombinedSourceAsOf(q, cursor, n) == Keyset([r \in SourceAsOfRows(q) |-> CombinedKey(r)], cursor, n)

Observations(q, cursor, n) ==
    CASE q.mode = "latest"       -> ObservationsLatest(q, cursor, n)
      [] q.mode = "system_as_of" -> ObservationsSystemAsOf(q, cursor, n)
      [] q.mode = "source_as_of" -> ObservationsSourceAsOf(q, cursor, n)
      [] q.mode = "revisions"    -> ObservationRevisions(q, cursor, n)

CrossSource(q, cursor, n) ==
    CASE q.mode = "latest"       -> CombinedLatest(q, cursor, n)
      [] q.mode = "system_as_of" -> CombinedSystemAsOf(q, cursor, n)
      [] q.mode = "source_as_of" -> CombinedSourceAsOf(q, cursor, n)

Listed(q, cursor, n) ==
    CASE q.list = "series"       -> ListTimelineSeries(cursor, n)
      [] q.list = "observations" -> Observations(q, cursor, n)
      [] q.list = "combined"     -> CrossSource(q, cursor, n)

CursorOf(q, x) ==
    CASE q.list = "series"   -> SeriesKey(x)
      [] q.list = "combined" -> CombinedKey(x)
      [] OTHER -> IF q.mode = "revisions" THEN RevisionKey(x) ELSE ObservationKey(x)

-----------------------------------------------------------------------------
(* Pages.                                                                  *)

\* GetTimelineSeries: source_as_of_supported.
SourceAsOfSupported(s) == \E r \in Visible : r.kind = "observation" /\ r.of = s /\ r.source # NoTime

\* Unknown series, and a clock a series does not have, are refused.
Served(q) ==
    q.list # "series" =>
        \A s \in q.series : /\ s \in DOMAIN created
                            /\ q.mode = "source_as_of" => SourceAsOfSupported(s)

Everything == Cardinality(revisions) + Cardinality(DOMAIN SeriesRow)

\* What an item stands for: a revision of its own, or the newest one of its
\* series and observation time.
Standing(q, x) ==
    IF q.list = "series" THEN <<x>> ELSE IF q.mode = "revisions" THEN <<x.id>> ELSE <<x.of, x.obs>>

BeginWalk(q) ==
    /\ reader = NoReader
    /\ Len(walks) < MaxWalks
    /\ Served(q)
    /\ reader' = [phase |-> "reading", request |-> q, cursor |-> <<>>, items |-> <<>>, more |-> FALSE,
                  owed |-> {Standing(q, x) : x \in ToSet(Listed(q, <<>>, Everything))},
                  settled |-> q.list # "series" /\ q.mode = "system_as_of" /\ SettledBy(q.asOf)]
    /\ UNCHANGED <<created, walks>>

\* Variant of Page whose cursor is the row it has cut off.
PageAfterCut(q, cursor) ==
    LET rows == Listed(q, cursor, q.limit + 1)
        more == Len(rows) > q.limit IN
    [items  |-> SubSeq(rows, 1, Min({q.limit, Len(rows)})), more |-> more,
     cursor |-> IF more THEN CursorOf(q, rows[q.limit + 1]) ELSE cursor]

\* One row more than the page tells whether there is another page.
Page(q, cursor) ==
    LET rows == Listed(q, cursor, q.limit + 1)
        more == Len(rows) > q.limit IN
    [items  |-> SubSeq(rows, 1, Min({q.limit, Len(rows)})), more |-> more,
     cursor |-> IF more THEN CursorOf(q, rows[q.limit]) ELSE cursor]

\* A page that says there is more is followed by the next request.
ReadPage ==
    /\ reader # NoReader
    /\ LET q    == reader.request
           page == Page(q, reader.cursor)
           next == [reader EXCEPT !.items = @ \o page.items, !.more = page.more, !.cursor = page.cursor] IN
       IF page.more THEN reader' = next /\ UNCHANGED walks
       ELSE /\ reader' = NoReader
            /\ walks' = Append(walks,
                 [request |-> q, items |-> next.items, owed |-> reader.owed, settled |-> reader.settled,
                  promised |-> reader.more, last |-> page.items])
    /\ UNCHANGED created

\* The catalog of a starting collector, ON CONFLICT DO NOTHING.  One that differs
\* from the stored rows is refused with ErrCatalogChanged and rolled back, which
\* changes nothing.
InsertSeries(s) ==
    /\ s \notin DOMAIN created
    /\ created' = [x \in DOMAIN created \cup {s} |-> IF x = s THEN clock ELSE created[x]]
    /\ UNCHANGED <<reader, walks>>

TimelineNext ==
    \/ \E q \in WalkRequest : BeginWalk(q)
    \/ ReadPage
    \/ \E s \in LaterSeries : InsertSeries(s)

-----------------------------------------------------------------------------
(* Properties.                                                             *)

(* Items of a walk come in the order of its list, no row twice, however    *)
(* many revisions arrive between its pages.                                *)
WalkIsOrdered ==
    \A w \in ToSet(walks) \cup (IF reader = NoReader THEN {} ELSE {reader}) :
        /\ w.request \in WalkRequest
        /\ \A n \in 1..(Len(w.items) - 1) :
              Before(CursorOf(w.request, w.items[n]), CursorOf(w.request, w.items[n + 1]))

(* A walk to the last page misses nothing: each series, revision or        *)
(* observation time that was listed when it began is among its items, in   *)
(* its newest or in a newer revision.                                      *)
WalkMissesNothing ==
    \A n \in DOMAIN walks :
        walks[n].owed \subseteq {Standing(walks[n].request, x) : x \in ToSet(walks[n].items)}

(* A walk as of a settled instant can be repeated: its pages put together  *)
(* are the whole list, each observation once, whatever has arrived since.  *)
WalkReplays ==
    \A n \in DOMAIN walks :
        LET w == walks[n] IN
        w.settled => w.items = Listed(w.request, <<>>, Everything)

(* has_more is kept: the page after a page with has_more has items, even   *)
(* when corrections have replaced the rows that it was based on.           *)
MoreMeansMore == \A n \in DOMAIN walks : walks[n].promised => walks[n].last # <<>>

(* Paging is complete: whatever arrives between two pages, a walk lists    *)
(* what there was, in order and no row twice, and its has_more is kept.    *)
(* In the latest mode an observation that is corrected after it ended a    *)
(* page may appear again, as the newer row.                                *)
WalkIsComplete == WalkIsOrdered /\ WalkMissesNothing /\ MoreMeansMore
=============================================================================
