---------------------------- MODULE HttpAdapters ----------------------------
(***************************************************************************)
(* The adapters that speak HTTP: the search and vector databases           *)
(* (connectors-http) and the time-series databases                         *)
(* (connectors-timeseries).  Their clients are built without an exchange;  *)
(* a write is one request, or one for each record.                         *)
(*                                                                         *)
(* In the Fails operators, i is the exchange of the plan that failed and   *)
(* written says whether an earlier exchange of the call took effect.       *)
(***************************************************************************)
EXTENDS AdapterBase

SearchAdapterNames == {"elasticsearch", "milvus", "pinecone", "qdrant", "weaviate", "splunk"}

TimeSeriesAdapterNames == {"influxdb", "prometheus"}

Browsable == {"TestConnection", "Discover", "Describe"}

-----------------------------------------------------------------------------
(***************************************************************************)
(* Requests, common to connectors-http.                                    *)
(***************************************************************************)
\* A status that is not listed is a Protocol error.
map_http_status(f) ==
    [refused |-> "InvalidRequest", exists |-> "Conflict", missing |-> "NotFound",
     busy |-> "RateLimited", down |-> "Unavailable", ambiguous |-> "Timeout",
     misread |-> "Protocol"][f]

\* A connection that breaks once the request is under way is an unavailable endpoint.
map_reqwest_error(f) == IF f = "lost" THEN "Unavailable" ELSE map_http_status(f)

\* A body that is too long or is not JSON is a Protocol error.
send_json(f) == IF f = "garbled" THEN "Protocol" ELSE map_reqwest_error(f)

-----------------------------------------------------------------------------
(***************************************************************************)
(* Elasticsearch, OpenSearch: one bulk request, an answer for each item.   *)
(***************************************************************************)
ElasticManifest == Browsable \cup {"Read", "Insert", "Update", "Delete", "Batch",
                                   "NativeQuery", "TextSearch"}

ElasticRead == <<Ask>>

ElasticSearch == <<Ask>>

ElasticNativeQuery == <<Ask>>

ElasticBulk(s) == Batch(s)

ElasticInsert(s) == ElasticBulk(s)

ElasticUpdate(s) == ElasticBulk(s)

ElasticDelete(s) == ElasticBulk(s)

ElasticExecute(op, s) ==
    CASE op = "read" -> ElasticRead
      [] op = "search" -> ElasticSearch
      [] op = "native_query" -> ElasticNativeQuery
      [] op = "insert" -> ElasticInsert(s)
      [] op = "update" -> ElasticUpdate(s)
      [] op = "delete" -> ElasticDelete(s)
      [] OTHER -> NoPlan

\* Items that failed beside items that did not: the batch is in doubt.  When all failed, their
\* categories are reduced to one; two that differ, a conflict and a timeout say, become an
\* InvalidRequest.
ElasticBulkFails(f) ==
    CASE f = "partial" -> "UnknownOutcome"
      [] f = "mixed" -> "InvalidRequest"
      [] OTHER -> send_json(f)

-----------------------------------------------------------------------------
(***************************************************************************)
(* Milvus.                                                                 *)
(***************************************************************************)
MilvusManifest == Browsable \cup {"Read", "Insert", "Upsert", "Delete", "Batch",
                                  "NativeQuery", "VectorSearch"}

MilvusRead == <<Ask>>

MilvusSearch == <<Ask>>

MilvusVectorSearch == <<Ask>>

MilvusNativeQuery == <<Ask>>

MilvusInsert(s) == Batch(s)

primary_key_type == <<Ask>>

MilvusUpsert(s) == primary_key_type \o Batch(s)

MilvusDelete(s) == Batch(s)

MilvusExecute(op, s) ==
    CASE op = "read" -> MilvusRead
      [] op = "search" -> MilvusSearch
      [] op = "vector_search" -> MilvusVectorSearch
      [] op = "native_query" -> MilvusNativeQuery
      [] op = "insert" -> MilvusInsert(s)
      [] op = "vector_upsert" -> MilvusUpsert(s)
      [] op = "delete" -> MilvusDelete(s)
      [] OTHER -> NoPlan

\* An answer without a code, or with a code other than 0 that is not listed, whatever it means.
check_milvus_response(f) ==
    IF f \in {"garbled", "refused", "misread"} THEN "Protocol" ELSE send_json(f)

\* Fewer confirmed than asked for.
MilvusFails(f) == IF f = "partial" THEN "UnknownOutcome" ELSE check_milvus_response(f)

-----------------------------------------------------------------------------
(***************************************************************************)
(* Pinecone: the host of an index is looked up before it is used.          *)
(***************************************************************************)
PineconeManifest == Browsable \cup {"Read", "Upsert", "Delete", "Batch", "NativeQuery",
                                    "VectorSearch"}

PineconeDataUrl == <<Ask>>

PineconeRead == PineconeDataUrl \o <<Ask>>

PineconeSearch == PineconeDataUrl \o <<Ask>>

PineconeVectorSearch == PineconeDataUrl \o <<Ask>>

PineconeNativeQuery == <<Ask>>

PineconeUpsert(s) == PineconeDataUrl \o Batch(s)

PineconeDelete(s) == PineconeDataUrl \o Batch(s)

PineconeExecute(op, s) ==
    CASE op = "read" -> PineconeRead
      [] op = "search" -> PineconeSearch
      [] op = "vector_search" -> PineconeVectorSearch
      [] op = "native_query" -> PineconeNativeQuery
      [] op = "vector_upsert" -> PineconeUpsert(s)
      [] op = "delete" -> PineconeDelete(s)
      [] OTHER -> NoPlan

PineconeFails(f) == IF f = "partial" THEN "UnknownOutcome" ELSE send_json(f)

-----------------------------------------------------------------------------
(***************************************************************************)
(* Qdrant: a write asks to wait and must be answered "completed".          *)
(***************************************************************************)
QdrantManifest == Browsable \cup {"Read", "Upsert", "Delete", "Batch", "NativeQuery",
                                  "VectorSearch"}

QdrantRead == <<Ask>>

QdrantSearch == <<Ask>>

QdrantVectorSearch == <<Ask>>

QdrantNativeQuery == <<Ask>>

QdrantUpsert(s) == Batch(s)

QdrantDelete(s) == Batch(s)

QdrantExecute(op, s) ==
    CASE op = "read" -> QdrantRead
      [] op = "search" -> QdrantSearch
      [] op = "vector_search" -> QdrantVectorSearch
      [] op = "native_query" -> QdrantNativeQuery
      [] op = "vector_upsert" -> QdrantUpsert(s)
      [] op = "delete" -> QdrantDelete(s)
      [] OTHER -> NoPlan

ensure_qdrant_write_completed(f) == IF f = "ambiguous" THEN "UnknownOutcome" ELSE send_json(f)

-----------------------------------------------------------------------------
(***************************************************************************)
(* Weaviate: an upsert asks for each object whether it exists.             *)
(***************************************************************************)
WeaviateManifest == Browsable \cup {"Read", "Upsert", "Delete", "NativeQuery", "TextSearch",
                                    "VectorSearch"}

WeaviateRead == <<Ask>>

WeaviateGraphql == <<Ask>>

WeaviateSearch == WeaviateGraphql

WeaviateVectorSearch == WeaviateGraphql

WeaviateNativeQuery == <<Ask>>

WeaviateUpsert(s) == AskEach(s)

WeaviateDelete(s) == Each(s)

WeaviateExecute(op, s) ==
    CASE op = "read" -> WeaviateRead
      [] op = "search" -> WeaviateSearch
      [] op = "vector_search" -> WeaviateVectorSearch
      [] op = "native_query" -> WeaviateNativeQuery
      [] op = "vector_upsert" -> WeaviateUpsert(s)
      [] op = "delete" -> WeaviateDelete(s)
      [] OTHER -> NoPlan

WeaviateUpsertFails(i, f) ==
    LET head == i % 2 = 1 IN
    IF head /\ f = "lost" THEN map_reqwest_error(f)
    ELSE IF i > 2 \/ (~head /\ f = "garbled") THEN "UnknownOutcome"
    ELSE send_json(f)

\* Only a status that is not a success is told apart; a broken connection never is.
WeaviateDeleteFails(written, f) ==
    IF written /\ f # "lost" THEN "UnknownOutcome" ELSE map_reqwest_error(f)

WeaviateFails(op, i, written, f) ==
    CASE op = "vector_upsert" -> WeaviateUpsertFails(i, f)
      [] op = "delete" -> WeaviateDeleteFails(written, f)
      [] OTHER -> send_json(f)

-----------------------------------------------------------------------------
(***************************************************************************)
(* Splunk: searches through the management port, inserts through the HTTP  *)
(* event collector.                                                        *)
(***************************************************************************)
SplunkManifest == Browsable \cup {"Read", "Insert", "Batch", "NativeQuery", "TextSearch"}

SplunkRunSearch == <<Ask>>

SplunkHecInsert(s) == Batch(s)

SplunkExecute(op, s) ==
    CASE op \in {"read", "search", "native_query"} -> SplunkRunSearch
      [] op = "insert" -> SplunkHecInsert(s)
      [] OTHER -> NoPlan

ensure_hec_success(f) == IF f = "ambiguous" THEN "UnknownOutcome" ELSE send_json(f)

-----------------------------------------------------------------------------
(***************************************************************************)
(* InfluxDB and Prometheus.                                                *)
(***************************************************************************)
\* checked, and map_reqwest for an exchange that breaks: everything that is neither TLS, nor a
\* timeout, nor a failure to connect is a Protocol error.
map_reqwest(f) == IF f = "lost" THEN "Protocol" ELSE map_http_status(f)

checked(f) ==
    CASE f = "ambiguous" -> "Unavailable"       \* a status of class 5
      [] f \in {"garbled", "partial"} -> "InvalidRequest"
      [] OTHER -> map_reqwest(f)

InfluxManifest == Browsable \cup {"NativeQuery", "TimeSeriesQuery", "TimeSeriesWrite"}

InfluxNativeQuery == <<Ask>>

InfluxWritePoints(s) == Batch(s)

InfluxExecute(op, s) ==
    CASE op = "native_query" -> InfluxNativeQuery
      [] op = "time_series_write" -> InfluxWritePoints(s)
      [] OTHER -> NoPlan

influx_write_error(f) == IF f = "partial" THEN "UnknownOutcome" ELSE checked(f)

PrometheusManifest == Browsable \cup {"NativeQuery", "TimeSeriesQuery", "TimeSeriesWrite"}

PrometheusQuery == <<Ask>>

PrometheusRemoteWrite(s) == Batch(s)

PrometheusExecute(op, s) ==
    CASE op = "native_query" -> PrometheusQuery
      [] op = "time_series_write" -> PrometheusRemoteWrite(s)
      [] OTHER -> NoPlan

\* Every 400 is taken for a batch of which a part was rejected.
prometheus_write_error(f) ==
    IF f \in {"partial", "refused"} THEN "UnknownOutcome" ELSE checked(f)

-----------------------------------------------------------------------------
HttpManifest(a) ==
    CASE a = "elasticsearch" -> ElasticManifest
      [] a = "milvus" -> MilvusManifest
      [] a = "pinecone" -> PineconeManifest
      [] a = "qdrant" -> QdrantManifest
      [] a = "weaviate" -> WeaviateManifest
      [] a = "splunk" -> SplunkManifest
      [] a = "influxdb" -> InfluxManifest
      [] a = "prometheus" -> PrometheusManifest

HttpPlan(a, op, s) ==
    CASE a = "elasticsearch" -> ElasticExecute(op, s)
      [] a = "milvus" -> MilvusExecute(op, s)
      [] a = "pinecone" -> PineconeExecute(op, s)
      [] a = "qdrant" -> QdrantExecute(op, s)
      [] a = "weaviate" -> WeaviateExecute(op, s)
      [] a = "splunk" -> SplunkExecute(op, s)
      [] a = "influxdb" -> InfluxExecute(op, s)
      [] a = "prometheus" -> PrometheusExecute(op, s)

HttpFails(a, op, i, kind, written, f) ==
    CASE a = "weaviate" -> WeaviateFails(op, i, written, f)
      [] a = "influxdb" -> IF kind = "write" THEN influx_write_error(f) ELSE checked(f)
      [] a = "prometheus" -> IF kind = "write" THEN prometheus_write_error(f) ELSE checked(f)
      [] a = "elasticsearch" /\ kind = "write" -> ElasticBulkFails(f)
      [] a = "milvus" -> MilvusFails(f)
      [] a = "pinecone" -> PineconeFails(f)
      [] a = "qdrant" /\ kind = "write" -> ensure_qdrant_write_completed(f)
      [] a = "splunk" /\ kind = "write" -> ensure_hec_success(f)
      [] OTHER -> send_json(f)
=============================================================================
