------------------------------- MODULE Paging -------------------------------
(***************************************************************************)
(* Clients that read a table or a catalog page by page over an open link,  *)
(* while other clients of the database insert and delete rows.  The pages  *)
(* are those of module Pages; on the way back the runtime holds every      *)
(* answer to the limits of the policy, runs the loop of a catalog search,  *)
(* and, when results are masked, hands out tokens in the place of cursors  *)
(* (MaskedCursorRegistry).                                                 *)
(***************************************************************************)
EXTENDS Pages, ConnectionSetup

CONSTANTS
    Sessions,       \* client sessions; all but Lead read only when results are masked
    Lead,
    InitialRows,    \* the sets of rows that a table, or a catalog, may hold at first
    Patterns,       \* the sets of entries that a catalog search may ask for
    Visible,        \* the entries that the policy lets a client see (metadata_visible)
    Limits,         \* the limits that a client may ask for
    IdLists,        \* the ids that a read by id may ask for
    MaskedAdapters, \* bound: the adapters whose results are masked in some behaviours
    MASKED_CURSOR_CAPACITY,
    TokenBytes,     \* the most bytes by which a token is longer than the cursor it replaces
    MaxChanges,     \* bound: rows that other clients insert or delete
    MaxLosses       \* bound: expirations and invalidations of tokens

ASSUME PagingAssumption ==
    /\ IsFiniteSet(Sessions) /\ Lead \in Sessions /\ Limits \subseteq Nat \ {0}
    /\ \A S \in InitialRows \cup Patterns \cup {Visible} : S \subseteq DOMAIN Bytes
    /\ \A ids \in IdLists : ids \in Seq(DOMAIN Bytes)
    /\ MASKED_CURSOR_CAPACITY \in Nat \ {0} /\ TokenBytes \in Nat /\ MaxChanges \in Nat /\ MaxLosses \in Nat

VARIABLES
    rows,           \* what the database holds
    masked,         \* policy.egress is CloudAllowedMasked
    readers,        \* session -> its traversal
    handles,        \* the registry of masked cursors, oldest first
    changes, losses

pagingVars == <<rows, masked, readers, handles, changes, losses>>

(***************************************************************************)
(* A traversal: cursor and token are what the client was handed last, acc  *)
(* and want belong to the catalog search under way; stable (rows that were *)
(* there all the time) and quiet (nothing has changed) are histories.      *)
(***************************************************************************)
Idle == [kind |-> "none", status |-> "idle", cursor |-> Start, token |-> 0,
         delivered |-> <<>>, acc |-> <<>>, want |-> 0, ids |-> <<>>, match |-> {},
         sorted |-> FALSE, stable |-> {}, quiet |-> TRUE]

Ready(s) == s = Lead \/ masked

Reading(s, kind) == readers[s].status = "reading" /\ readers[s].kind = kind

-----------------------------------------------------------------------------
(***************************************************************************)
(* The adapter's page.                                                     *)
(***************************************************************************)
Pageable == SqlAdapterNames \cup DocumentAdapterNames \cup (SearchAdapterNames \ {"splunk"})

ReadPageOf(S, cursor, limit, sorted) ==
    CASE adapter \in SqlAdapterNames -> SqlReadPage(S, cursor, limit)
      [] adapter = "cql" -> CqlReadPage(S, cursor, limit)
      [] adapter = "mongodb" -> MongoReadPage(S, cursor, limit)
      [] adapter = "couchbase" -> CouchbaseReadPage(S, cursor, limit)
      [] adapter = "hbase" -> HBaseReadPage(S, cursor, limit)
      [] adapter = "elasticsearch" -> ElasticReadPage(S, cursor, limit, sorted)
      [] adapter = "milvus" -> MilvusReadPage(S, cursor, limit)
      [] adapter = "pinecone" -> PineconeReadPage(S, cursor, limit)
      [] adapter = "qdrant" -> QdrantReadPage(S, cursor, limit)
      [] adapter = "weaviate" -> WeaviateReadPage(S, cursor, limit)

ReadsByIds == {"hbase", "pinecone", "weaviate"}

ReadIdsOf(S, ids, limit) ==
    CASE adapter = "hbase" -> HBaseGet(S, ids)
      [] adapter = "pinecone" -> PineconeFetch(S, ids, limit)
      [] adapter = "weaviate" -> WeaviateFetch(S, ids, limit)

\* The SQL and document packs are asked for one entry more than the limit
\* (catalog_fetch_inputs).
search_catalog_page(S, match, cursor, limit) ==
    LET all == InOrder(S)
        offset == cursor.at
        fetch == limit + 1
        Paged(fetched) == catalog_page(fetched, offset, limit)
    IN
    CASE adapter \in {"postgresql", "cockroachdb"} ->
           Paged(PgSearchCatalog(all, match, offset, fetch))
      [] adapter = "mysql" -> Paged(MySqlSearchCatalog(all, match, offset, fetch))
      [] adapter = "oracle" -> Paged(OracleSearchCatalog(all, match, offset, fetch))
      [] adapter = "sqlserver" -> Paged(TdsSearchCatalog(all, match, offset, fetch))
      [] adapter = "cql" -> Paged(CqlSearchCatalog(all, match, offset, fetch))
      [] adapter = "mongodb" -> Paged(MongoSearchCatalog(all, match, offset, fetch))
      [] adapter = "couchbase" -> Paged(CouchbaseSearchCatalog(all, match, offset, fetch))
      [] adapter = "hbase" -> Paged(HBaseSearchCatalog(all, match, offset, fetch))
      [] adapter = "elasticsearch" -> ElasticCatalog(all, match, cursor, limit)
      [] adapter = "milvus" -> MilvusCatalog(all, match, cursor, limit)
      [] adapter = "pinecone" -> PineconeCatalog(all, match, cursor, limit)
      [] adapter = "qdrant" -> QdrantCatalog(all, match, cursor, limit)
      [] adapter = "weaviate" -> WeaviateCatalog(all, match, cursor, limit)
      [] adapter = "splunk" -> SplunkCatalog(all, match, cursor, limit)
      [] adapter = "influxdb" -> InfluxCatalog(all, match, cursor, limit)
      [] adapter = "prometheus" -> PrometheusCatalog(all, match, cursor, limit)

\* The HTTP adapters end with finish_result.
Finished(page) == IF adapter \in SearchAdapterNames /\ ~page.error THEN finish_result(page) ELSE page

-----------------------------------------------------------------------------
(***************************************************************************)
(* The runtime's limits.                                                   *)
(***************************************************************************)
\* Mutant: the bytes beside the records are not counted.
enforce_result_limits_records_only(page) ==
    IF page.error \/ Size(page.rows) <= MaxBytes THEN page ELSE NoPage

\* enforce_result_limits_and_masking: first at most max_rows rows, with a cursor or without;
\* for max_bytes rows are dropped only where no cursor counts them.
enforce_result_limits(page) ==
    LET records == First(page.rows, MaxRows)
        kept == Within(records, MetaBytes)
    IN
    IF page.error THEN NoPage
    ELSE IF Size(records) + MetaBytes <= MaxBytes
    THEN Page(records, page.next, page.truncated \/ Len(records) < Len(page.rows))
    ELSE IF page.next # End \/ kept = <<>> THEN NoPage
    ELSE Page(kept, End, TRUE)

enforce_catalog_limits(entities) == Len(entities) <= MaxRows /\ Size(entities) <= MaxBytes

-----------------------------------------------------------------------------
(***************************************************************************)
(* MaskedCursorRegistry.                                                   *)
(***************************************************************************)
Tokens == {handles[i].token : i \in DOMAIN handles}

FreshToken(inUse) == CHOOSE t \in 1..(Cardinality(inUse) + 1) : t \notin inUse

\* Mutant: a token resolves for every session.
resolve_for_anyone(s, token) == {h \in Elements(handles) : h.token = token}

\* The entries that a token resolves to: those of the session.  (One connection, tool and
\* target here.)
resolve(s, token) == {h \in Elements(handles) : h.token = token /\ h.session = s}

\* A full registry drops the entry that expires first.
Insert(s, token, cursor) ==
    LET kept == IF Len(handles) >= MASKED_CURSOR_CAPACITY THEN Tail(handles) ELSE handles IN
    Append(kept, [session |-> s, token |-> token, cursor |-> cursor])

\* The tokens a client may present: the one it was handed last, or one it has seen elsewhere.
Presented(s) ==
    IF readers[s].token = 0 THEN {0} ELSE {readers[t].token : t \in Sessions} \ {0}

-----------------------------------------------------------------------------
PagingInit ==
    /\ rows = {} /\ masked = FALSE
    /\ readers = [s \in Sessions |-> Idle]
    /\ handles = <<>> /\ changes = 0 /\ losses = 0

\* The link is used for the first time: a table with some rows, under some policy.
FindRows ==
    /\ rows' \in InitialRows
    /\ masked' \in (IF adapter \in MaskedAdapters THEN BOOLEAN ELSE {FALSE})
    /\ UNCHANGED <<readers, handles, changes, losses>>

Traverse(s, kind, ids, match, sorted) ==
    /\ Ready(s) /\ readers[s] = Idle
    /\ readers' = [readers EXCEPT ![s] =
         [Idle EXCEPT !.kind = kind, !.status = "reading", !.ids = ids, !.match = match,
                      !.sorted = sorted, !.stable = rows]]
    /\ UNCHANGED <<rows, masked, handles, changes, losses>>

\* Reads without a cursor yet; a sort matters to Elasticsearch only.
StartRead(s, sorted) ==
    /\ adapter \in Pageable
    /\ sorted \/ adapter = "elasticsearch"
    /\ Traverse(s, "read", <<>>, DOMAIN Bytes, sorted)

StartReadByIds(s, ids) ==
    /\ s = Lead /\ ~masked /\ adapter \in ReadsByIds
    /\ adapter = "hbase" => Len(ids) = 1
    /\ Traverse(s, "ids", ids, Elements(ids), FALSE)

StartCatalog(s, match) == s = Lead /\ ~masked /\ Traverse(s, "catalog", <<>>, match, FALSE)

\* What the client makes of an answer.
Answered(r, page, token) ==
    IF page.error THEN [r EXCEPT !.status = "failed"]
    ELSE [r EXCEPT !.delivered = @ \o page.rows, !.cursor = page.next, !.token = token,
                   !.status = IF page.next # End THEN "reading"
                              ELSE IF page.truncated THEN "truncated" ELSE "done"]

\* A page of a read: resolve_masked_cursor, the adapter, the limits, protect_masked_cursor.
ReadPage(s, limit, token) ==
    LET r == readers[s]
        found == resolve(s, token)
        fresh == FreshToken(Tokens \cup {readers[t].token : t \in Sessions})
        Ask1(at) == ReadPageOf(rows, at, effective_row_limit(limit), r.sorted)
    IN  /\ Ready(s) /\ Reading(s, "read") /\ token \in Presented(s)
        /\ \/ /\ token # 0 /\ found = {}
              /\ readers' = [readers EXCEPT ![s].status = "failed"]
              /\ UNCHANGED handles
           \/ \E at \in IF token = 0 THEN {r.cursor} ELSE {h.cursor : h \in found} :
              \E answer \in {Ask1(at)} :
              \E finished \in {Finished(answer)} :
              \E page \in {enforce_result_limits(finished)} :
                LET hide == masked /\ ~page.error /\ page.next # End IN
                /\ readers' = [readers EXCEPT ![s] =
                                 Answered(r, page, IF hide THEN fresh ELSE 0)]
                /\ handles' = IF hide THEN Insert(s, fresh, page.next) ELSE handles
        /\ UNCHANGED <<rows, masked, changes, losses>>

ReadByIds(s, limit) ==
    /\ Ready(s) /\ Reading(s, "ids")
    /\ \E answer \in {ReadIdsOf(rows, readers[s].ids, effective_row_limit(limit))} :
       \E finished \in {Finished(answer)} :
         readers' = [readers EXCEPT ![s] = Answered(@, enforce_result_limits(finished), 0)]
    /\ UNCHANGED <<rows, masked, handles, changes, losses>>

\* A catalog search begins: the limit of its answer.
SearchCatalog(s, limit) ==
    /\ Ready(s) /\ Reading(s, "catalog") /\ readers[s].want = 0
    /\ readers' = [readers EXCEPT ![s].want = effective_row_limit(limit), ![s].acc = <<>>]
    /\ UNCHANGED <<rows, masked, handles, changes, losses>>

\* Its loop: a page of the adapter for what is still missing, without what the policy hides.
CatalogStep(s) ==
    LET r == readers[s]
        returned == [r EXCEPT !.want = 0, !.acc = <<>>]
    IN  /\ Ready(s) /\ Reading(s, "catalog") /\ r.want > 0
        /\ \E page \in {search_catalog_page(rows, r.match, r.cursor, r.want - Len(r.acc))} :
           \E acc \in {r.acc \o Only(page.rows, Visible)} :
           readers' = [readers EXCEPT ![s] =
             IF page.error THEN [returned EXCEPT !.status = "failed"]
             ELSE IF Len(acc) >= r.want \/ page.next = End
             THEN Answered(returned,
                           IF enforce_catalog_limits(acc) THEN Page(acc, page.next, FALSE)
                           ELSE NoPage, 0)
             ELSE IF page.next = r.cursor THEN [returned EXCEPT !.status = "failed"]
             ELSE [r EXCEPT !.acc = acc, !.cursor = page.next]]
        /\ UNCHANGED <<rows, masked, handles, changes, losses>>

-----------------------------------------------------------------------------
(***************************************************************************)
(* The surroundings.                                                       *)
(***************************************************************************)
\* Another client of the database.
ChangeRow(r) ==
    /\ changes < MaxChanges /\ changes' = changes + 1
    /\ \E s \in Sessions : readers[s].status = "reading"
    /\ rows' = IF r \in rows THEN rows \ {r} ELSE rows \cup {r}
    /\ readers' = [s \in Sessions |->
         IF readers[s].status = "reading"
         THEN [readers[s] EXCEPT !.stable = @ \ {r}, !.quiet = FALSE] ELSE readers[s]]
    /\ UNCHANGED <<masked, handles, losses>>

\* MASKED_CURSOR_TTL passes for the oldest token, or clear_masked_cursors drops them all.
LoseTokens ==
    /\ handles # <<>> /\ losses < MaxLosses /\ losses' = losses + 1
    /\ handles' \in {Tail(handles), <<>>}
    /\ UNCHANGED <<rows, masked, readers, changes>>

PagingNext ==
    \/ \E s \in Sessions :
         \/ \E b \in BOOLEAN : StartRead(s, b)
         \/ \E ids \in IdLists : StartReadByIds(s, ids)
         \/ \E m \in Patterns : StartCatalog(s, m)
         \/ \E n \in Limits : \/ \E t \in Presented(s) : ReadPage(s, n, t)
                                        \/ ReadByIds(s, n)
                                        \/ SearchCatalog(s, n)
         \/ CatalogStep(s)
    \/ \E r \in DOMAIN Bytes : ChangeRow(r)
    \/ LoseTokens

-----------------------------------------------------------------------------
Statuses == {"idle", "reading", "done", "truncated", "failed"}

PagingTypeOK ==
    /\ rows \subseteq DOMAIN Bytes /\ masked \in BOOLEAN
    /\ \A s \in Sessions :
         /\ readers[s].status \in Statuses
         /\ Elements(readers[s].delivered) \subseteq DOMAIN Bytes
         /\ readers[s].cursor.at \in -1..Cardinality(DOMAIN Bytes)
    /\ Len(handles) <= MASKED_CURSOR_CAPACITY
    /\ changes \in 0..MaxChanges /\ losses \in 0..MaxLosses

\* Cursors that name a row: what others insert or delete does not move them.
Keyset == {"hbase", "elasticsearch", "pinecone", "qdrant", "weaviate"}

Wanted(r) ==
    IF r.kind = "catalog" THEN r.stable \cap r.match \cap Visible ELSE r.stable \cap r.match

(***************************************************************************)
(* A traversal that comes to its end and was never told of a truncation    *)
(* has delivered every row that was there all the time, once, and in       *)
(* order, or in the order of the ids asked for: the pages of different     *)
(* limits, the cursors between them, the cuts for max_rows and max_bytes   *)
(* in the adapter and in the runtime, the entries that a policy hides and  *)
(* the tokens of masked results fit together.  An offset, and a place      *)
(* inside a page of CQL, keeps this only while nobody changes the table.   *)
(***************************************************************************)
PagesComplete ==
    \A s \in Sessions : LET r == readers[s] IN
      r.status = "done" /\ (r.quiet \/ (r.kind # "catalog" /\ adapter \in Keyset)) =>
        /\ Wanted(r) \subseteq Elements(r.delivered)
        /\ IF r.kind = "ids" THEN r.delivered = Only(r.ids, Elements(r.delivered))
           ELSE \A i, j \in DOMAIN r.delivered : i < j => r.delivered[i] < r.delivered[j]

\* The bytes of the answer that made a reader r into q: the records, what is beside them, and
\* what a token adds to it.
Answer(r, q) == Drop(q.delivered, Len(r.delivered))

AnswerBytes(r, q) ==
    Size(Answer(r, q)) +
      (IF r.kind = "catalog" \/ Answer(r, q) = <<>> THEN 0
       ELSE MetaBytes + (IF q.token = 0 THEN 0 ELSE TokenBytes))

(***************************************************************************)
(* No answer that a client gets is longer than max_rows or max_bytes       *)
(* allow, what is beside the records included.  A masked answer with a     *)
(* cursor may be: it is measured before protect_masked_cursor puts the     *)
(* token in, and then exceeds max_bytes by what the token is longer than   *)
(* the cursor, and by no more.                                             *)
(***************************************************************************)
AnswersWithinLimits ==
    [][\A s \in Sessions :
         LET bytes == AnswerBytes(readers[s], readers'[s]) IN
         /\ Len(Answer(readers[s], readers'[s])) <= MaxRows
         /\ \/ bytes <= MaxBytes
            \/ masked /\ readers'[s].token # 0 /\ bytes <= MaxBytes + TokenBytes]_pagingVars

(***************************************************************************)
(* A client that keeps asking comes to the end of a table that nobody      *)
(* changes: no page, of whatever limit, hands out a cursor that is not     *)
(* beyond the one it was asked with.  MongoDB's does when the first        *)
(* document of a page is longer than max_bytes.                            *)
(***************************************************************************)
Beyond(c, d) == c.at > d.at \/ (c.at = d.at /\ c.skip > d.skip)

Stalls(r) ==
    LET document == Window(InOrder(rows), r.cursor.at, 1) IN
    adapter = "mongodb" /\ r.kind = "read" /\ Size(document) > MaxBytes

PagesAdvance ==
    \A s \in Sessions, n \in Limits :
      LET r == readers[s]
          page == IF r.kind = "read" THEN ReadPageOf(rows, r.cursor, effective_row_limit(n), r.sorted)
                  ELSE search_catalog_page(rows, r.match, r.cursor, effective_row_limit(n))
      IN  r.status = "reading" /\ r.kind \in {"read", "catalog"} /\ ~Stalls(r) =>
            page.error \/ page.next = End \/ Beyond(page.next, r.cursor)
=============================================================================
