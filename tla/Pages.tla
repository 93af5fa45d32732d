------------------------------- MODULE Pages -------------------------------
(***************************************************************************)
(* Pages of rows and of catalog entries: what an adapter asks of its       *)
(* database for a cursor and a limit, what of the answer it keeps, and the *)
(* cursor it hands out.  Rows are numbers in the order of the read; S is   *)
(* the set of rows that the database holds when it is asked.               *)
(*                                                                         *)
(* A cursor is an offset, a row, or (CQL) a server page and a number of    *)
(* its rows.  An encoded cursor is its value: only what the encoding keeps *)
(* is in it.                                                               *)
(***************************************************************************)
EXTENDS Integers, Sequences, FiniteSets

CONSTANTS
    Bytes,          \* for each row, from 1 on, the bytes of its record
    MetaBytes,      \* the bytes of a result beside its records
    MaxRows,        \* policy.max_rows
    MaxBytes        \* policy.max_bytes

ASSUME PagesAssumption ==
    /\ Bytes \in Seq(Nat \ {0})
    /\ MetaBytes \in Nat /\ MaxRows \in Nat \ {0} /\ MaxBytes \in Nat

Cursor(at, skip, size) == [at |-> at, skip |-> skip, size |-> size]

Start == Cursor(0, 0, 0)

End == Cursor(-1, 0, 0)

\* encode_offset and encode_cursor: an offset, or the row that a scan is at.
encode_cursor(n) == Cursor(n, 0, 0)

Page(rows, next, truncated) ==
    [rows |-> rows, next |-> next, truncated |-> truncated, error |-> FALSE]

NoPage == [rows |-> <<>>, next |-> End, truncated |-> FALSE, error |-> TRUE]

-----------------------------------------------------------------------------
(***************************************************************************)
(* Limits.                                                                 *)
(***************************************************************************)
\* The elements of s that are in S, in their order.  (SelectSeq, as a recursive function: the
\* proofs need its equation.)
Only(s, S) ==
    LET upTo[i \in 0..Len(s)] ==
          IF i = 0 THEN <<>>
          ELSE IF s[i] \in S THEN Append(upTo[i - 1], s[i]) ELSE upTo[i - 1]
    IN  upTo[Len(s)]

InOrder(S) == Only([i \in 1..Len(Bytes) |-> i], S)

First(s, n) == SubSeq(s, 1, IF n < Len(s) THEN n ELSE Len(s))

Drop(s, n) == SubSeq(s, n + 1, Len(s))

\* OFFSET and LIMIT of a query.
Window(s, offset, n) == First(Drop(s, offset), n)

From(S, r) == InOrder({x \in S : x > r})

Size(s) ==
    LET upTo[i \in 0..Len(s)] == IF i = 0 THEN 0 ELSE upTo[i - 1] + Bytes[s[i]] IN upTo[Len(s)]

effective_row_limit(limit) == IF limit < MaxRows THEN limit ELSE MaxRows

\* The longest prefix that fits, with so many bytes beside it.
Within(s, beside) ==
    First(s, CHOOSE n \in 0..Len(s) :
               /\ n = 0 \/ Size(First(s, n)) + beside <= MaxBytes
               /\ n = Len(s) \/ Size(First(s, n + 1)) + beside > MaxBytes)

enforce_records_size(s) == Within(s, 0)

\* What is kept of the rows fetched: at most the limit, and what fits; whether something was
\* left out; and whether not even the first row fits.
Kept(fetched, limit, beside) ==
    LET rows == First(fetched, limit)
        kept == Within(rows, beside)
    IN  [rows |-> kept,
         truncated |-> Len(fetched) > limit \/ Len(kept) < Len(rows),
         oversize |-> rows # <<>> /\ kept = <<>>]

\* Mutant: a first row that does not fit is left for the next page.
OffsetPageGoesOn(fetched, offset, limit, beside) ==
    LET k == Kept(fetched, limit, beside) IN
    Page(k.rows, IF k.truncated THEN encode_cursor(offset + Len(k.rows)) ELSE End, k.truncated)

\* A page with an offset, of which the first row must fit.
OffsetPage(fetched, offset, limit, beside) ==
    LET k == Kept(fetched, limit, beside) IN
    IF k.oversize THEN NoPage
    ELSE Page(k.rows, IF k.truncated THEN encode_cursor(offset + Len(k.rows)) ELSE End, k.truncated)

-----------------------------------------------------------------------------
(***************************************************************************)
(* Relational reads: one row more than the limit, with OFFSET.  The pages  *)
(* of the four adapters differ in the statement only.                      *)
(***************************************************************************)
build_read(S, cursor, limit) == Window(InOrder(S), cursor.at, limit + 1)

truncate_records(fetched, offset, limit) == OffsetPage(fetched, offset, limit, MetaBytes)

SqlReadPage(S, cursor, limit) ==
    truncate_records(build_read(S, cursor, limit), cursor.at, limit)

-----------------------------------------------------------------------------
(***************************************************************************)
(* Document and wide-column reads.                                         *)
(***************************************************************************)
\* The server answers a page of the given size and, when it is full, the state to go on from.
query_single_page(S, state, size) == First(From(S, state), size)

encode_cql_page_cursor(cursor, skip, size) == Cursor(cursor.at, skip, size)

encode_cql_cursor(page, size) ==
    IF page # <<>> /\ Len(page) = size THEN encode_cursor(page[Len(page)]) ELSE End

\* A cursor inside a server page keeps the size of that page; one that the server gave starts
\* a page of the size asked for now.
decode_cql_cursor(cursor, limit) == IF cursor.size = 0 THEN limit ELSE cursor.size

CqlReadPage(S, cursor, limit) ==
    LET size == decode_cql_cursor(cursor, limit)
        page == query_single_page(S, cursor.at, size)
        k == Kept(Drop(page, cursor.skip), limit, 0)
        skip == cursor.skip + Len(k.rows)
        next == IF k.truncated THEN encode_cql_page_cursor(cursor, skip, size)
                ELSE encode_cql_cursor(page, size)
    IN  IF size > MaxRows \/ cursor.skip > Len(page) \/ k.oversize \/ (k.truncated /\ skip >= size)
        THEN NoPage
        ELSE Page(k.rows, next, next # End)

\* Not even the first document fits: a page without documents, and the cursor it was read at.
MongoReadPage(S, cursor, limit) ==
    LET k == Kept(Window(InOrder(S), cursor.at, limit + 1), limit, 0) IN
    Page(k.rows, IF k.truncated THEN encode_cursor(cursor.at + Len(k.rows)) ELSE End, k.truncated)

CouchbaseFinish(fetched, offset, limit) == OffsetPage(fetched, offset, limit, 0)

CouchbaseReadPage(S, cursor, limit) ==
    CouchbaseFinish(Window(InOrder(S), cursor.at, limit + 1), cursor.at, limit)

\* The first row key after a row: the row itself with a zero byte.
decode_scan_cursor(cursor) == cursor.at

HBaseScan(S, cursor, n) == First(From(S, decode_scan_cursor(cursor)), n)

\* After the last row that was kept.
ScanPage(k) ==
    IF k.oversize THEN NoPage
    ELSE Page(k.rows, IF k.truncated THEN encode_cursor(k.rows[Len(k.rows)]) ELSE End, k.truncated)

HBaseReadPage(S, cursor, limit) == ScanPage(Kept(HBaseScan(S, cursor, limit + 1), limit, 0))

\* A read by row key: one row, never with a cursor.
HBaseGet(S, ids) ==
    LET rows == Only(First(ids, 1), S) IN
    IF Kept(rows, 1, 0).oversize THEN NoPage ELSE Page(rows, End, FALSE)

-----------------------------------------------------------------------------
(***************************************************************************)
(* Search and vector databases.  An answer that is far too long is an      *)
(* error before any record is made of it.                                  *)
(***************************************************************************)
response_body_limit == 4 * MaxBytes

read_response(fetched, page) == IF Size(fetched) > response_body_limit THEN NoPage ELSE page

\* search_after the sort values of the last hit kept; without a sort there is no cursor.
ElasticReadPage(S, cursor, limit, sorted) ==
    LET hits == First(From(S, cursor.at), limit + 1)
        page == ScanPage(Kept(hits, limit, 0))
    IN  read_response(hits, [page EXCEPT !.next = IF sorted THEN @ ELSE End])

MilvusReadPage(S, cursor, limit) ==
    LET rows == Window(InOrder(S), cursor.at, limit + 1) IN
    read_response(rows, OffsetPage(rows, cursor.at, limit, 0))

\* Pinecone keeps the place: its token stands for the rows up to the last one it listed.
PineconeReadPage(S, cursor, limit) ==
    LET rows == First(From(S, cursor.at), limit)
        more == Len(From(S, cursor.at)) > limit
        next == IF more THEN encode_cursor(rows[limit]) ELSE End
    IN  IF Size(rows) > MaxBytes THEN NoPage ELSE read_response(rows, Page(rows, next, more))

PineconeFetch(S, ids, limit) ==
    LET rows == Only(ids, S) IN
    IF Len(ids) > limit \/ Size(rows) > MaxBytes THEN NoPage
    ELSE read_response(rows, Page(rows, End, FALSE))

\* The first point left out.
QdrantCursor(points, kept) == encode_cursor(points[Len(kept) + 1])

\* Qdrant's offset is the id of the first point of the page.
QdrantReadPage(S, cursor, limit) ==
    LET scroll == From(S, cursor.at - 1)
        points == First(scroll, limit)
        kept == enforce_records_size(points)
        next == IF Len(kept) < Len(points) THEN QdrantCursor(points, kept)
                ELSE IF Len(scroll) > limit THEN encode_cursor(scroll[limit + 1]) ELSE End
    IN  IF points # <<>> /\ kept = <<>> THEN NoPage
        ELSE read_response(points, Page(kept, next, next # End))

WeaviateReadPage(S, cursor, limit) ==
    LET objects == First(From(S, cursor.at), limit + 1) IN
    read_response(objects, ScanPage(Kept(objects, limit, 0)))

\* One request for each id; an id that is not found is passed over.
WeaviateFetch(S, ids, limit) ==
    LET k == Kept(Only(First(ids, limit), S), limit, 0) IN
    IF k.oversize THEN NoPage ELSE Page(k.rows, End, k.truncated \/ Len(ids) > limit)

\* finish_result of connectors-http: once more at most max_rows rows and max_bytes bytes.
finish_result(page) ==
    LET k == Kept(page.rows, MaxRows, 0) IN
    [page EXCEPT !.rows = k.rows,
                 !.truncated = Len(k.rows) < Len(page.rows) \/ page.next # End \/ @]

-----------------------------------------------------------------------------
(***************************************************************************)
(* Catalogs.  search_catalog returns up to n entries after an offset; all  *)
(* is the sequence of all entries, match the ones that fit the pattern.    *)
(***************************************************************************)
Matching(all, match) == Only(all, match)

PgSearchCatalog(all, match, offset, n) == Window(Matching(all, match), offset, n)

MySqlSearchCatalog(all, match, offset, n) == Window(Matching(all, match), offset, n)

OracleSearchCatalog(all, match, offset, n) == Window(Matching(all, match), offset, n)

TdsSearchCatalog(all, match, offset, n) == Window(Matching(all, match), offset, n)

\* These list everything, then filter, sort, skip and take.
CqlSearchCatalog(all, match, offset, n) == Window(Matching(all, match), offset, n)

MongoSearchCatalog(all, match, offset, n) == Window(Matching(all, match), offset, n)

CouchbaseSearchCatalog(all, match, offset, n) == Window(Matching(all, match), offset, n)

HBaseSearchCatalog(all, match, offset, n) == Window(Matching(all, match), offset, n)

catalog_page(fetched, offset, limit) ==
    Page(First(fetched, limit),
         IF Len(fetched) > limit THEN encode_cursor(offset + limit) ELSE End, FALSE)

bounded_catalog(entities, page) == IF Size(entities) > MaxBytes THEN NoPage ELSE page

\* The list of all indexes, collections or classes is one answer, and what is taken from it
\* must fit.
ListedPage(all, match, cursor, limit) ==
    LET fetched == Window(Matching(all, match), cursor.at, limit + 1) IN
    read_response(all, bounded_catalog(fetched, catalog_page(fetched, cursor.at, limit)))

ElasticCatalog(all, match, cursor, limit) == ListedPage(all, match, cursor, limit)

MilvusCatalog(all, match, cursor, limit) == ListedPage(all, match, cursor, limit)

QdrantCatalog(all, match, cursor, limit) == ListedPage(all, match, cursor, limit)

WeaviateCatalog(all, match, cursor, limit) == ListedPage(all, match, cursor, limit)

PineconeCatalog(all, match, cursor, limit) ==
    LET fetched == Window(Matching(all, match), cursor.at, limit + 1) IN
    read_response(all, bounded_catalog(First(fetched, limit),
                                     catalog_page(fetched, cursor.at, limit)))

\* Splunk is asked for at least 100 entries at a time, until as many match as the limit; the
\* cursor counts the entries looked at.
SplunkCatalog(all, match, cursor, limit) ==
    LET hits == InOrder({i \in cursor.at + 1 .. Len(all) : all[i] \in match})
        taken == [i \in 1..Len(First(hits, limit)) |-> all[hits[i]]]
        more == Len(taken) = limit /\ hits[limit] < Len(all)
    IN  read_response(Drop(all, cursor.at),
          bounded_catalog(taken,
            Page(taken, IF more THEN encode_cursor(hits[limit]) ELSE End, FALSE)))

\* The time-series pack reads no more than max_bytes of an answer.
read_checked(fetched, page) == IF Size(fetched) > MaxBytes THEN NoPage ELSE page

InfluxCatalog(all, match, cursor, limit) ==
    LET fetched == Window(Matching(all, match), cursor.at, limit + 1) IN
    read_checked(fetched, catalog_page(fetched, cursor.at, limit))

\* Without a pattern the server is asked for no more names than needed.
PrometheusNames(all, match, offset, n) ==
    IF match = DOMAIN Bytes THEN First(all, offset + n) ELSE all

PrometheusCatalog(all, match, cursor, limit) ==
    LET names == PrometheusNames(all, match, cursor.at, limit + 1) IN
    read_checked(names,
      catalog_page(Window(Matching(names, match), cursor.at, limit + 1), cursor.at, limit))
=============================================================================
