------------------------ MODULE AdapterCallsProofs ------------------------
(***************************************************************************)
(* Theorems about AdapterCalls and the adapters it runs, for every number  *)
(* of calls, records, credentials and connections of a pool, and however   *)
(* exchanges fail or calls are interrupted.                                *)
(***************************************************************************)
EXTENDS AdapterCalls, FiniteSetTheorems, SequenceTheorems, TLAPS

(***************************************************************************)
(* The plans.  Whatever the adapter, an operation is refused, asks, writes *)
(* all its records in one exchange, with a question before it or inside a  *)
(* transaction, or writes them one after the other.                        *)
(***************************************************************************)
PlanOf(a, op, s) ==
    IF a \in SqlAdapterNames THEN SqlPlan(a, op, s)
    ELSE IF a \in DocumentAdapterNames THEN DocumentPlan(a, op, s) ELSE HttpPlan(a, op, s)

Reading(plan) == plan \in {<<Ask>>, <<Ask, Ask>>, <<Begin, Ask, Commit>>}

AtOnce(plan, s) == plan \in {<<Write(Elements(s))>>, <<Ask, Write(Elements(s))>>}

Transaction(plan, s) ==
    plan \in {<<Begin, Write(Elements(s)), Commit>>, <<Write(Elements(s)), Commit>>}

LEMMA TwoInRow == ASSUME NEW x, NEW y PROVE <<x>> \o <<y>> = <<x, y>>
<1> DEFINE s == <<x>>  t == <<y>>  u == <<x>> \o <<y>>
<1>1. s \in Seq({x, y}) /\ t \in Seq({x, y}) /\ Len(s) = 1 /\ Len(t) = 1 /\ s[1] = x /\ t[1] = y
  OBVIOUS
<1>2. u \in Seq({x, y}) /\ Len(u) = 2 /\ u[1] = x /\ u[2] = y
  BY <1>1, ConcatProperties
<1>3. <<x, y>> \in Seq({x, y}) /\ Len(<<x, y>>) = 2 /\ <<x, y>>[1] = x /\ <<x, y>>[2] = y
  OBVIOUS
<1> HIDE DEF u
<1>4. \A i \in 1..Len(u) : u[i] = <<x, y>>[i]
  <2>1. \A i \in 1..Len(u) : i = 1 \/ i = 2
    BY <1>2
  <2> QED
    BY <1>2, <1>3, <2>1
<1>5. u = <<x, y>>
  BY <1>2, <1>3, <1>4, SeqEqual
<1> QED
  BY <1>5 DEF u

LEMMA ThreeInRow == ASSUME NEW x, NEW y, NEW z PROVE <<x>> \o <<y>> \o <<z>> = <<x, y, z>>
<1> DEFINE S == {x, y, z}  s == <<x, y>>  t == <<z>>  u == <<x, y>> \o <<z>>
<1>1. /\ s \in Seq(S) /\ t \in Seq(S) /\ Len(s) = 2 /\ Len(t) = 1 /\ s[1] = x /\ s[2] = y
      /\ t[1] = z
  OBVIOUS
<1>2. u \in Seq(S) /\ Len(u) = 3 /\ u[1] = x /\ u[2] = y /\ u[3] = z
  BY <1>1, ConcatProperties
<1>3. /\ <<x, y, z>> \in Seq(S) /\ Len(<<x, y, z>>) = 3
      /\ <<x, y, z>>[1] = x /\ <<x, y, z>>[2] = y /\ <<x, y, z>>[3] = z
  OBVIOUS
<1> HIDE DEF u
<1>4. \A i \in 1..Len(u) : u[i] = <<x, y, z>>[i]
  <2>1. \A i \in 1..Len(u) : i = 1 \/ i = 2 \/ i = 3
    BY <1>2
  <2> QED
    BY <1>2, <1>3, <2>1
<1>5. u = <<x, y, z>>
  BY <1>2, <1>3, <1>4, SeqEqual
<1> QED
  BY <1>5, TwoInRow DEF u

\* The plans of the relational adapters.
LEMMA SqlPlans ==
  ASSUME NEW a \in SqlAdapterNames, NEW op \in Operations, NEW s
  PROVE  LET plan == PlanOf(a, op, s) IN
         \/ plan = NoPlan
         \/ ~operation_is_write(op) /\ Reading(plan) /\ (a = "sqlserver" => plan = <<Ask>>)
         \/ /\ operation_is_write(op) /\ AtOnce(plan, s)
            /\ op = "insert" \/ BoundedBySql(a, op)
         \/ operation_is_write(op) /\ Transaction(plan, s)
<1>1. PlanOf(a, op, s) = SqlPlan(a, op, s)
  BY DEF PlanOf
<1>2. <<Begin>> \o <<Ask>> \o <<Commit>> = <<Begin, Ask, Commit>>
  BY ThreeInRow
<1>3. InTransaction(s) = <<Begin, Write(Elements(s)), Commit>>
  BY DEF InTransaction
<1>4. Tail(InTransaction(s)) = <<Write(Elements(s)), Commit>>
  BY <1>3
<1>5. CASE a \in {"postgresql", "cockroachdb"}
  <2>1. SqlPlan(a, op, s) = PgExecute(a, op, s)
    BY <1>5 DEF SqlPlan
  <2> QED
    BY <1>1, <1>2, <1>3, <1>5, <2>1
       DEF PgExecute, PgQueryBuilt, PgNativeQuery, PgStructured, PgNativeExecute, PgTransactionally,
           PgExecuteBuilt, Batch, Reading, AtOnce, Transaction, operation_is_write, Operations,
           BoundedBySql
<1>6. CASE a = "mysql"
  <2>1. SqlPlan(a, op, s) = MySqlExecute(op, s)
    BY <1>6 DEF SqlPlan
  <2> QED
    BY <1>1, <1>2, <1>3, <1>6, <2>1
       DEF MySqlExecute, MySqlQueryBuilt, MySqlNativeQuery, MySqlExecuteBuilt, MySqlNativeExecute,
           Batch, Reading, AtOnce, Transaction, operation_is_write, Operations, BoundedBySql
<1>7. CASE a = "oracle"
  <2>1. SqlPlan(a, op, s) = OracleExecute(op, s)
    BY <1>7 DEF SqlPlan
  <2> QED
    BY <1>1, <1>4, <1>7, <2>1
       DEF OracleExecute, OracleQueryBuilt, OracleNativeQuery, OracleTransactionally,
           OracleNativeExecute, Reading, Transaction, operation_is_write, Operations
<1>8. CASE a = "sqlserver"
  <2>1. SqlPlan(a, op, s) = TdsExecute(op, s)
    BY <1>8 DEF SqlPlan
  <2> QED
    BY <1>1, <1>3, <1>8, <2>1
       DEF TdsExecute, TdsQueryBuilt, TdsNativeQuery, TdsExecuteBuilt, TdsNativeExecute,
           Batch, Reading, AtOnce, Transaction, operation_is_write, Operations, BoundedBySql
<1> QED
  BY <1>5, <1>6, <1>7, <1>8 DEF SqlAdapterNames

\* Those of the document and wide-column adapters.
LEMMA DocumentPlans ==
  ASSUME NEW a \in DocumentAdapterNames, NEW op \in Operations, NEW s
  PROVE  LET plan == PlanOf(a, op, s) IN
         \/ plan = NoPlan
         \/ ~operation_is_write(op) /\ plan = <<Ask>>
         \/ /\ operation_is_write(op) /\ AtOnce(plan, s)
            /\ a = "hbase" \/ (a = "couchbase" /\ op = "update") => plan = <<Ask, Write(Elements(s))>>
            /\ op = "insert" => a \in {"mongodb", "hbase"}
         \/ a \in {"cql", "couchbase"} /\ op = "insert" /\ plan = Each(s)
<1>1. a \notin SqlAdapterNames /\ PlanOf(a, op, s) = DocumentPlan(a, op, s)
  BY DEF PlanOf, SqlAdapterNames, DocumentAdapterNames
<1>2. <<Ask>> \o <<Write(Elements(s))>> = <<Ask, Write(Elements(s))>>
  BY TwoInRow
<1>3. CASE a = "cql"
  <2>1. DocumentPlan(a, op, s) = CqlExecute(op, s)
    BY <1>3 DEF DocumentPlan
  <2> QED
    BY <1>1, <1>2, <1>3, <2>1
       DEF CqlExecute, CqlRead, CqlInsert, CqlUpdate, CqlDelete, CqlNative, primary_key_columns,
           Batch, AtOnce, operation_is_write, Operations
<1>4. CASE a = "mongodb"
  <2>1. DocumentPlan(a, op, s) = MongoExecute(op, s)
    BY <1>4 DEF DocumentPlan
  <2> QED
    BY <1>1, <1>4, <2>1
       DEF MongoExecute, MongoRead, MongoInsert, MongoUpdate, MongoDelete, MongoNative,
           Batch, AtOnce, operation_is_write, Operations
<1>5. CASE a = "couchbase"
  <2>1. DocumentPlan(a, op, s) = CouchbaseExecute(op, s)
    BY <1>5 DEF DocumentPlan
  <2> QED
    BY <1>1, <1>2, <1>5, <2>1
       DEF CouchbaseExecute, CouchbaseRead, CouchbaseNativeQuery, CouchbaseInsert, CouchbaseUpdate,
           CouchbaseDelete, AskThen, Batch, AtOnce, operation_is_write, Operations
<1>6. CASE a = "hbase"
  <2>1. DocumentPlan(a, op, s) = HBaseExecute(op, s)
    BY <1>6 DEF DocumentPlan
  <2> QED
    BY <1>1, <1>2, <1>6, <2>1
       DEF HBaseExecute, HBaseRead, HBaseInsert, HBaseUpdate, HBaseDelete, AskThen, Batch, AtOnce,
           operation_is_write, Operations
<1> QED
  BY <1>3, <1>4, <1>5, <1>6 DEF DocumentAdapterNames

\* Those of the adapters that speak HTTP.
LEMMA HttpPlans ==
  ASSUME NEW a \in SearchAdapterNames \cup TimeSeriesAdapterNames, NEW op \in Operations, NEW s
  PROVE  LET plan == PlanOf(a, op, s) IN
         \/ plan = NoPlan
         \/ ~operation_is_write(op) /\ (plan = <<Ask>> \/ plan = <<Ask, Ask>>)
         \/ /\ operation_is_write(op) /\ AtOnce(plan, s) /\ a # "weaviate"
            /\ op = "insert" => a \in {"elasticsearch", "milvus", "splunk"}
            /\ op = "update" => a = "elasticsearch"
         \/ a = "weaviate" /\ op = "delete" /\ plan = Each(s)
         \/ a = "weaviate" /\ op = "vector_upsert" /\ plan = AskEach(s)
<1>1. /\ a \notin SqlAdapterNames /\ a \notin DocumentAdapterNames
      /\ PlanOf(a, op, s) = HttpPlan(a, op, s)
  BY DEF PlanOf, SqlAdapterNames, DocumentAdapterNames, SearchAdapterNames, TimeSeriesAdapterNames
<1>2. <<Ask>> \o <<Write(Elements(s))>> = <<Ask, Write(Elements(s))>> /\ <<Ask>> \o <<Ask>> = <<Ask, Ask>>
  BY TwoInRow
<1>3. CASE a \in {"elasticsearch", "splunk", "influxdb", "prometheus"}
  <2>1. /\ a = "elasticsearch" => HttpPlan(a, op, s) = ElasticExecute(op, s)
        /\ a = "splunk" => HttpPlan(a, op, s) = SplunkExecute(op, s)
        /\ a = "influxdb" => HttpPlan(a, op, s) = InfluxExecute(op, s)
        /\ a = "prometheus" => HttpPlan(a, op, s) = PrometheusExecute(op, s)
    BY DEF HttpPlan
  <2>2. CASE a = "elasticsearch"
    BY <1>1, <2>1, <2>2
       DEF ElasticExecute, ElasticRead, ElasticSearch, ElasticNativeQuery, ElasticBulk, ElasticInsert,
           ElasticUpdate, ElasticDelete, Batch, AtOnce, operation_is_write, Operations
  <2>3. CASE a = "splunk"
    BY <1>1, <2>1, <2>3
       DEF SplunkExecute, SplunkRunSearch, SplunkHecInsert, Batch, AtOnce, operation_is_write,
           Operations
  <2>4. CASE a \in {"influxdb", "prometheus"}
    BY <1>1, <2>1, <2>4
       DEF InfluxExecute, InfluxNativeQuery, InfluxWritePoints, PrometheusExecute, PrometheusQuery,
           PrometheusRemoteWrite, Batch, AtOnce, operation_is_write, Operations
  <2> QED
    BY <1>3, <2>2, <2>3, <2>4
<1>4. CASE a \in {"milvus", "qdrant"}
  <2>1. /\ a = "milvus" => HttpPlan(a, op, s) = MilvusExecute(op, s)
        /\ a = "qdrant" => HttpPlan(a, op, s) = QdrantExecute(op, s)
    BY DEF HttpPlan
  <2>2. CASE a = "milvus"
    BY <1>1, <1>2, <2>1, <2>2
       DEF MilvusExecute, MilvusRead, MilvusSearch, MilvusVectorSearch, MilvusNativeQuery, MilvusInsert,
           primary_key_type, MilvusUpsert, MilvusDelete, Batch, AtOnce, operation_is_write, Operations
  <2>3. CASE a = "qdrant"
    BY <1>1, <2>1, <2>3
       DEF QdrantExecute, QdrantRead, QdrantSearch, QdrantVectorSearch, QdrantNativeQuery,
           QdrantUpsert, QdrantDelete, Batch, AtOnce, operation_is_write, Operations
  <2> QED
    BY <1>4, <2>2, <2>3
<1>5. CASE a = "pinecone"
  <2>1. HttpPlan(a, op, s) = PineconeExecute(op, s)
    BY <1>5 DEF HttpPlan
  <2> QED
    BY <1>1, <1>2, <1>5, <2>1
       DEF PineconeExecute, PineconeDataUrl, PineconeRead, PineconeSearch, PineconeVectorSearch,
           PineconeNativeQuery, PineconeUpsert, PineconeDelete, Batch, AtOnce, operation_is_write,
           Operations
<1>6. CASE a = "weaviate"
  <2>1. HttpPlan(a, op, s) = WeaviateExecute(op, s)
    BY <1>6 DEF HttpPlan
  <2> QED
    BY <1>1, <1>6, <2>1
       DEF WeaviateExecute, WeaviateRead, WeaviateGraphql, WeaviateSearch, WeaviateVectorSearch,
           WeaviateNativeQuery, WeaviateUpsert, WeaviateDelete, operation_is_write, Operations
<1> QED
  BY <1>3, <1>4, <1>5, <1>6 DEF SearchAdapterNames, TimeSeriesAdapterNames

-----------------------------------------------------------------------------
(***************************************************************************)
(* The failures.  Every fault an adapter can meet has an error category.   *)
(***************************************************************************)
Errors == Categories \ {"ok"}

FailsOf(a, op, i, kind, written, f) ==
    IF a \in SqlAdapterNames THEN SqlFails(a, kind, f, operation_is_write(op))
    ELSE IF a \in DocumentAdapterNames THEN DocumentFails(a, op, i, kind, f)
    ELSE HttpFails(a, op, i, kind, written, f)

Exchanges == {"ask", "begin", "write", "commit", "rollback"}

\* The faults of an exchange, those of a refused write included.
MayMeet(a, op, kind, f) ==
    \/ f \in {"refused", "busy", "down", "lost"}
    \/ f = "garbled" /\ a # "prometheus" /\ ~(a = "weaviate" /\ op = "delete")
    \/ f = "partial" /\ kind \in {"write", "commit"} /\ a \in SaysPartial
    \/ f = "ambiguous" /\ kind \in {"write", "commit"} /\ a \in SaysAmbiguous
    \/ f = "misread" /\ kind \in {"write", "commit"} /\ a \in SaysOtherwise
    \/ f = "mixed" /\ kind \in {"write", "commit"} /\ a = "elasticsearch"
    \/ f = "exists" /\ kind = "write" /\ a \in InsertsIfAbsent
    \/ f = "missing" /\ kind = "write" /\ a \in ChangesIfPresent

\* A commit is an exchange of a relational adapter.
CanExchange(a, kind) == kind \in {"begin", "commit", "rollback"} => a \in SqlAdapterNames

LEMMA SqlFailures ==
  ASSUME NEW a \in SqlAdapterNames, NEW op, NEW kind, NEW f, MayMeet(a, op, kind, f), NEW write \in BOOLEAN
  PROVE  SqlFails(a, kind, f, write) \in Errors
<1>1. f \in {"refused", "exists", "busy", "down", "ambiguous", "lost", "garbled"}
  BY DEF MayMeet, SqlAdapterNames, SaysPartial, SaysOtherwise, ChangesIfPresent, SearchAdapterNames,
         TimeSeriesAdapterNames
<1>2. map_pg_error(f, write) \in Errors
  BY <1>1 DEF map_pg_error, Unsure, Errors, Categories
<1>3. map_mysql_error(f, write) \in Errors
  BY <1>1 DEF map_mysql_error, Unsure, Errors, Categories
<1>4. unknown_write_error(kind, f, write) \in Errors
  BY <1>1 DEF unknown_write_error, map_oracle_error, Unsure, Errors, Categories
<1>5. map_tds_error(f, write) \in Errors
  BY <1>1 DEF map_tds_error, Unsure, Errors, Categories
<1> QED
  BY <1>2, <1>3, <1>4, <1>5 DEF SqlFails, SqlAdapterNames

LEMMA DocumentFailures ==
  ASSUME NEW a \in DocumentAdapterNames, NEW op, NEW i, NEW kind, NEW f, MayMeet(a, op, kind, f),
         CanExchange(a, kind)
  PROVE  DocumentFails(a, op, i, kind, f) \in Errors
<1> DEFINE write == kind = "write"
<1>1. /\ f \in {"refused", "exists", "missing", "busy", "down", "ambiguous", "lost", "garbled", "partial",
                "misread"}
      /\ f \in {"exists", "missing", "partial", "ambiguous"} => write
  BY DEF MayMeet, CanExchange, SqlAdapterNames, DocumentAdapterNames
<1> HIDE DEF write
<1>2. CASE a = "cql"
  <2>1. f \notin {"partial", "misread"}
    BY <1>2 DEF MayMeet, SaysPartial, SaysOtherwise, SearchAdapterNames, TimeSeriesAdapterNames
  <2>2. conditional_write(f, write) \in Errors
    BY <1>1, <2>1 DEF conditional_write, map_attempt_error, map_db_error, Unsure, Errors, Categories
  <2> QED
    BY <1>2, <2>2 DEF DocumentFails, CqlFails, Errors, Categories, write
<1>3. CASE a = "mongodb"
  <2>1. f # "missing"
    BY <1>3 DEF MayMeet, ChangesIfPresent
  <2>2. map_mongo_error(f, write) \in Errors
    BY <1>1, <2>1 DEF map_mongo_error, map_mongo_code, Unsure, Errors, Categories
  <2> QED
    BY <1>3, <2>2 DEF DocumentFails, write
<1>4. CASE a = "couchbase"
  <2>1. f # "partial"
    BY <1>4 DEF MayMeet, SaysPartial
  <2>2. map_couchbase_error(f, write) \in Errors
    BY <1>1, <2>1 DEF map_couchbase_error, Unsure, Errors, Categories
  <2> QED
    BY <1>4, <2>2 DEF DocumentFails, CouchbaseFails, Errors, Categories, write
<1>5. CASE a = "hbase"
  <2>1. f # "ambiguous"
    BY <1>5 DEF MayMeet, SaysAmbiguous, SearchAdapterNames, TimeSeriesAdapterNames
  <2>2. map_thrift_error(f, write) \in Errors
    BY <1>1, <2>1 DEF map_thrift_error, Unsure, Errors, Categories
  <2> QED
    BY <1>5, <2>2 DEF DocumentFails, write
<1> QED
  BY <1>2, <1>3, <1>4, <1>5 DEF DocumentAdapterNames

LEMMA HttpFailures ==
  ASSUME NEW a \in SearchAdapterNames \cup TimeSeriesAdapterNames, NEW op, NEW i, NEW kind, NEW f,
         NEW written, MayMeet(a, op, kind, f), CanExchange(a, kind)
  PROVE  HttpFails(a, op, i, kind, written, f) \in Errors
<1>1. /\ f \in {"refused", "exists", "missing", "busy", "down", "ambiguous", "lost", "garbled", "partial",
                "misread", "mixed"}
      /\ f \in {"exists", "missing", "partial", "ambiguous", "mixed"} => kind = "write"
      /\ f = "mixed" => a = "elasticsearch"
  BY DEF MayMeet, CanExchange, SqlAdapterNames, SearchAdapterNames, TimeSeriesAdapterNames
<1>2. f \notin {"garbled", "partial", "mixed"} => map_reqwest_error(f) \in Errors
  BY <1>1 DEF map_reqwest_error, map_http_status, Errors, Categories
<1>3. f \notin {"partial", "mixed"} => send_json(f) \in Errors
  BY <1>1, <1>2 DEF send_json, Errors, Categories
<1>4. f # "mixed" => checked(f) \in Errors
  BY <1>1 DEF checked, map_reqwest, map_http_status, Errors, Categories
<1>5. a \notin SaysPartial => f # "partial"
  BY DEF MayMeet
<1>6. {"UnknownOutcome", "Protocol", "InvalidRequest"} \subseteq Errors
  BY DEF Errors, Categories
<1>7. CASE a = "weaviate"
  <2>1. f # "partial" /\ (op = "delete" => f # "garbled")
    BY <1>7 DEF MayMeet, SaysPartial
  <2>2. WeaviateUpsertFails(i, f) \in Errors
    BY <1>1, <1>7, <1>2, <1>3, <1>6, <2>1 DEF WeaviateUpsertFails
  <2>3. op = "delete" => WeaviateDeleteFails(written, f) \in Errors
    BY <1>1, <1>7, <1>2, <1>6, <2>1 DEF WeaviateDeleteFails
  <2>4. WeaviateFails(op, i, written, f) \in Errors
    BY <1>1, <1>7, <1>3, <2>1, <2>2, <2>3 DEF WeaviateFails
  <2> QED
    BY <1>7, <2>4 DEF HttpFails
<1>8. CASE a = "influxdb" \/ a = "prometheus"
  BY <1>1, <1>4, <1>6, <1>8 DEF HttpFails, influx_write_error, prometheus_write_error
<1>9. CASE a = "elasticsearch"
  BY <1>1, <1>3, <1>6, <1>9 DEF HttpFails, ElasticBulkFails
<1>10. CASE a = "milvus"
  BY <1>1, <1>3, <1>6, <1>10 DEF HttpFails, MilvusFails, check_milvus_response
<1>11. CASE a = "pinecone"
  BY <1>1, <1>3, <1>6, <1>11 DEF HttpFails, PineconeFails
<1>12. CASE a = "qdrant"
  BY <1>1, <1>3, <1>5, <1>6, <1>12 DEF HttpFails, ensure_qdrant_write_completed, SaysPartial
<1>13. CASE a = "splunk"
  BY <1>1, <1>3, <1>5, <1>6, <1>13 DEF HttpFails, ensure_hec_success, SaysPartial
<1> QED
  BY <1>7, <1>8, <1>9, <1>10, <1>11, <1>12, <1>13 DEF SearchAdapterNames, TimeSeriesAdapterNames

LEMMA FailuresAreErrors ==
  ASSUME NEW a \in AdapterNames, NEW op, NEW i, NEW kind, NEW f, NEW written,
         MayMeet(a, op, kind, f), CanExchange(a, kind)
  PROVE  FailsOf(a, op, i, kind, written, f) \in Errors
<1>1. operation_is_write(op) \in BOOLEAN
  BY DEF operation_is_write
<1> QED
  BY <1>1, SqlFailures, DocumentFailures, HttpFailures DEF FailsOf, AdapterNames
-----------------------------------------------------------------------------
(***************************************************************************)
(* What all plans have in common.                                          *)
(***************************************************************************)
Exchange(s) == [kind : {"ask", "begin", "write", "commit"}, recs : SUBSET Elements(s)]

\* Transactions are those of the relational adapters, from the first exchange of three to the
\* last, and only writes write.
PlanFits(a, op, s, plan) ==
    /\ plan \in Seq(Exchange(s))
    /\ \A i \in 1..Len(plan) :
         /\ plan[i].kind \in {"begin", "commit"} => a \in SqlAdapterNames
         /\ plan[i].kind = "begin" =>
              i = 1 /\ Len(plan) = 3 /\ plan[2].kind \in {"ask", "write"} /\ plan[3].kind = "commit"
         /\ plan[i].kind = "write" => operation_is_write(op)

LEMMA ExchangesTyped ==
  ASSUME NEW s
  PROVE  /\ Ask \in Exchange(s) /\ Begin \in Exchange(s) /\ Commit \in Exchange(s)
         /\ Write(Elements(s)) \in Exchange(s)
         /\ Ask.kind = "ask" /\ Begin.kind = "begin" /\ Commit.kind = "commit"
         /\ \A R : Write(R).kind = "write" /\ Write(R).recs = R
BY DEF Exchange, Ask, Begin, Commit, Write

LEMMA EachTyped ==
  ASSUME NEW S, NEW s \in Seq(S)
  PROVE  /\ Each(s) \in Seq(Exchange(s)) /\ Len(Each(s)) = Len(s)
         /\ \A i \in 1..Len(s) : Each(s)[i] = Write({s[i]}) /\ s[i] \in Elements(s)
<1>1. DOMAIN s = 1..Len(s) /\ Len(s) \in Nat
  OBVIOUS
<1>2. \A i \in 1..Len(s) : s[i] \in Elements(s)
  BY <1>1 DEF Elements
<1>3. \A i \in 1..Len(s) : Write({s[i]}) \in Exchange(s)
  BY <1>2 DEF Write, Exchange
<1>4. Each(s) \in [1..Len(s) -> Exchange(s)]
  BY <1>1, <1>3 DEF Each
<1> QED
  BY <1>1, <1>2, <1>4 DEF Each

LEMMA AskEachTyped ==
  ASSUME NEW S, NEW s \in Seq(S)
  PROVE  /\ AskEach(s) \in Seq(Exchange(s)) /\ Len(AskEach(s)) = 2 * Len(s)
         /\ \A i \in 1..(2 * Len(s)) :
              IF i % 2 = 1 THEN AskEach(s)[i] = Ask
              ELSE /\ i \div 2 \in 1..Len(s) /\ AskEach(s)[i] = Write({s[i \div 2]})
                   /\ s[i \div 2] \in Elements(s)
<1>1. DOMAIN s = 1..Len(s) /\ Len(s) \in Nat
  OBVIOUS
<1>2. \A i \in 1..Len(s) : s[i] \in Elements(s)
  BY <1>1 DEF Elements
<1>3. \A i \in 1..(2 * Len(s)) : i % 2 # 1 => i \div 2 \in 1..Len(s)
  BY <1>1, SMT
<1>4. \A i \in 1..(2 * Len(s)) :
         (IF i % 2 = 1 THEN Ask ELSE Write({s[i \div 2]})) \in Exchange(s)
  BY <1>2, <1>3 DEF Ask, Write, Exchange
<1>5. AskEach(s) \in [1..(2 * Len(s)) -> Exchange(s)]
  BY <1>4 DEF AskEach
<1>6. 2 * Len(s) \in Nat
  BY <1>1
<1>7. AskEach(s) \in Seq(Exchange(s)) /\ Len(AskEach(s)) = 2 * Len(s)
  BY <1>5, <1>6
<1> QED
  BY <1>2, <1>3, <1>7 DEF AskEach

LEMMA TupleFits ==
  ASSUME NEW a, NEW op, NEW s, NEW x, NEW y, NEW z,
         x \in {Ask, Write(Elements(s))}, y \in {Ask, Write(Elements(s))},
         (x = Ask /\ y = Ask) \/ operation_is_write(op)
  PROVE  /\ PlanFits(a, op, s, <<>>) /\ PlanFits(a, op, s, <<x>>) /\ PlanFits(a, op, s, <<x, y>>)
         /\ a \in SqlAdapterNames =>
              PlanFits(a, op, s, <<x, Commit>>) /\ PlanFits(a, op, s, <<Begin, x, Commit>>)
<1>1. x \in Exchange(s) /\ y \in Exchange(s) /\ Commit \in Exchange(s) /\ Begin \in Exchange(s)
  BY ExchangesTyped
<1>2. /\ x.kind \in {"ask", "write"} /\ y.kind \in {"ask", "write"}
      /\ Commit.kind = "commit" /\ Begin.kind = "begin"
      /\ x.kind = "write" \/ y.kind = "write" => operation_is_write(op)
  BY ExchangesTyped
<1> HIDE DEF Exchange
<1>3. PlanFits(a, op, s, <<>>) /\ PlanFits(a, op, s, <<x>>)
  BY <1>1, <1>2 DEF PlanFits
<1>4. PlanFits(a, op, s, <<x, y>>)
  BY <1>1, <1>2 DEF PlanFits
<1>5. ASSUME a \in SqlAdapterNames PROVE PlanFits(a, op, s, <<x, Commit>>)
  BY <1>1, <1>2, <1>5 DEF PlanFits
<1>6. ASSUME a \in SqlAdapterNames PROVE PlanFits(a, op, s, <<Begin, x, Commit>>)
  BY <1>1, <1>2, <1>6 DEF PlanFits
<1> QED
  BY <1>3, <1>4, <1>5, <1>6

LEMMA PlansFit ==
  ASSUME NEW a \in AdapterNames, NEW op \in Operations, NEW S, NEW s \in Seq(S)
  PROVE  PlanFits(a, op, s, PlanOf(a, op, s))
<1>1. PlanFits(a, op, s, <<>>) /\ PlanFits(a, op, s, <<Ask>>) /\ PlanFits(a, op, s, <<Ask, Ask>>)
  BY TupleFits
<1>2. ASSUME operation_is_write(op), NEW plan, AtOnce(plan, s) PROVE PlanFits(a, op, s, plan)
  BY <1>2, TupleFits DEF AtOnce
<1>3. ASSUME operation_is_write(op), a \in SqlAdapterNames, NEW plan, Transaction(plan, s)
      PROVE  PlanFits(a, op, s, plan)
  BY <1>3, TupleFits DEF Transaction
<1>4. ASSUME a \in SqlAdapterNames, NEW plan, Reading(plan) PROVE PlanFits(a, op, s, plan)
  BY <1>4, TupleFits DEF Reading
<1>5. ASSUME operation_is_write(op) PROVE PlanFits(a, op, s, Each(s))
  <2>1. /\ Each(s) \in Seq(Exchange(s)) /\ Len(Each(s)) = Len(s)
        /\ \A i \in 1..Len(s) : Each(s)[i] = Write({s[i]})
    BY EachTyped
  <2>2. \A i \in 1..Len(s) : Each(s)[i].kind = "write"
    <3> TAKE i \in 1..Len(s)
    <3>1. Each(s)[i] = Write({s[i]})
      BY <2>1
    <3> QED
      BY <3>1, ExchangesTyped
  <2> QED
    BY <1>5, <2>1, <2>2 DEF PlanFits
<1>6. ASSUME operation_is_write(op) PROVE PlanFits(a, op, s, AskEach(s))
  <2>1. /\ AskEach(s) \in Seq(Exchange(s)) /\ Len(AskEach(s)) = 2 * Len(s)
        /\ \A i \in 1..(2 * Len(s)) : AskEach(s)[i] = Ask \/ \E R : AskEach(s)[i] = Write(R)
    BY AskEachTyped
  <2>2. \A i \in 1..(2 * Len(s)) : AskEach(s)[i].kind \in {"ask", "write"}
    BY <2>1 DEF Write, Ask
  <2> QED
    BY <1>6, <2>1, <2>2 DEF PlanFits
<1>7. operation_is_write("insert") /\ operation_is_write("delete") /\ operation_is_write("vector_upsert")
  BY DEF operation_is_write
<1>8. CASE a \in SqlAdapterNames
  BY <1>1, <1>2, <1>3, <1>4, <1>8, SqlPlans DEF NoPlan
<1>9. CASE a \in DocumentAdapterNames
  BY <1>1, <1>2, <1>5, <1>7, <1>9, DocumentPlans DEF NoPlan
<1>10. CASE a \in SearchAdapterNames \cup TimeSeriesAdapterNames
  BY <1>1, <1>2, <1>5, <1>6, <1>7, <1>10, HttpPlans DEF NoPlan
<1> QED
  BY <1>8, <1>9, <1>10 DEF AdapterNames
-----------------------------------------------------------------------------
(***************************************************************************)
(* Calls, the registry and the pools.                                      *)
(***************************************************************************)
Connection == [pool : Calls \cup {Nobody}, cred : Creds \cup {0}, tx : BOOLEAN, unread : BOOLEAN]

Writers == Calls \cup {Nobody, "seed"}

Typed ==
    /\ adapter \in Adapters
    /\ table \in [Records -> Writers]
    /\ registry \in [Ids -> Calls \cup {Nobody}]
    /\ token \in [Calls -> BOOLEAN]
    /\ cache \in [Creds -> Calls \cup {Nobody}]
    /\ pc \in [Calls -> Stations] /\ at \in [Calls -> Nat \ {0}]
    /\ staged \in [Calls -> SUBSET Records] /\ done \in [Calls -> SUBSET Records]
    /\ seen \in [Calls -> Writers]
    /\ result \in [Calls -> Categories \cup {"none"}]
    /\ faults \in 0..MaxFaults /\ invalidations \in 0..MaxInvalidations
    /\ clobbered \subseteq Calls /\ mistaken \subseteq Calls

\* A call has a request from its start on.
ReqInv ==
    /\ req \in [Calls -> Request \cup {NoRequest}]
    /\ \A c \in Calls : IF pc[c] = "new" THEN req[c] = NoRequest ELSE req[c] \in Request

\* An entry of the registry is that of a running call, under the id of its request.
RegInv ==
    /\ \A i \in Ids : registry[i] # Nobody => Running(registry[i]) /\ req[registry[i]].id = i
    /\ \A c \in Calls : Running(c) => registry[req[c].id] = c

\* A pool is cached under the credential of the call that built it.
CacheInv == \A v \in Creds : cache[v] # Nobody => pc[cache[v]] # "new" /\ req[cache[v]].cred = v

\* A call holds a connection between Connect and its end, of a pool with its credential.
LeaseInv ==
    /\ lease \in [Calls -> Connection]
    /\ \A c \in Calls :
         IF pc[c] \in {"run", "rollback", "detached"}
         THEN /\ lease[c].pool \in Calls /\ pc[lease[c].pool] # "new"
              /\ lease[c].cred = req[c].cred /\ lease[c].cred = req[lease[c].pool].cred
         ELSE lease[c] = NoLease

\* A transaction is open between its first and its last exchange.
TxInv ==
    \A c \in Calls : lease[c].tx =>
        /\ at[c] \in {2, 3} /\ Len(Plan(c)) = 3
        /\ Plan(c)[2].kind \in {"ask", "write"} /\ Plan(c)[3].kind = "commit"

\* Idle connections are clean and go back to the pool they came from.
IdleInv ==
    /\ idle \in [Calls -> Seq(Connection)]
    /\ \A p \in Calls : \A i \in 1..Len(idle[p]) :
         /\ pc[p] # "new" /\ idle[p][i].pool = p /\ idle[p][i].cred = req[p].cred
         /\ ~idle[p][i].tx /\ ~idle[p][i].unread

\* The connections of a pool, idle or in use.
BoundInv ==
    \A p \in Calls :
        /\ IsFiniteSet(Leases(p))
        /\ IF OwnPool THEN Len(idle[p]) + Cardinality(Leases(p)) <= PoolSize ELSE idle[p] = <<>>

\* A request that is under way after its call was interrupted is one of the plan; only an
\* HBase call outlives its answer, and only a relational write is rolled back.
PathInv ==
    \A c \in Calls :
        /\ pc[c] = "orphan" => at[c] <= Len(Plan(c))
        /\ pc[c] = "detached" => adapter = "hbase"
        /\ pc[c] = "rollback" => Sql /\ IsWrite(c)

CallInv == Typed /\ ReqInv /\ RegInv /\ CacheInv /\ LeaseInv /\ TxInv /\ IdleInv /\ BoundInv
           /\ PathInv

LEMMA CallPlan ==
  ASSUME Typed, ReqInv, NEW c \in Calls, pc[c] # "new"
  PROVE  /\ req[c] \in Request /\ Op(c) \in Operations /\ req[c].recs \in Seq(Records)
         /\ req[c].id \in Ids /\ req[c].cred \in Creds /\ req[c].limit \in Nat
         /\ adapter \in AdapterNames
         /\ Plan(c) = PlanOf(adapter, Op(c), req[c].recs)
         /\ PlanFits(adapter, Op(c), req[c].recs, Plan(c))
         /\ Elements(req[c].recs) \subseteq Records
<1>1. req[c] \in Request
  BY DEF ReqInv
<1>2. /\ Op(c) \in Operations /\ req[c].recs \in Seq(Records) /\ req[c].id \in Ids
      /\ req[c].cred \in Creds /\ req[c].limit \in Nat
  BY <1>1 DEF Request, Op
<1>3. adapter \in AdapterNames
  BY CallsAssumption DEF Typed
<1>4. Plan(c) = PlanOf(adapter, Op(c), req[c].recs)
  BY DEF Plan, PlanOf, Sql, Document
<1>5. PlanFits(adapter, Op(c), req[c].recs, Plan(c))
  BY <1>2, <1>3, <1>4, PlansFit
<1>6. Elements(req[c].recs) \subseteq Records
  BY <1>2 DEF Elements
<1> QED
  BY <1>1, <1>2, <1>3, <1>4, <1>5, <1>6

\* The exchange of a call is one of its plan, on records of its request.
LEMMA CallExchange ==
  ASSUME Typed, ReqInv, NEW c \in Calls, pc[c] # "new", at[c] <= Len(Plan(c))
  PROVE  /\ at[c] \in 1..Len(Plan(c)) /\ Step(c) \in Exchange(req[c].recs)
         /\ Step(c).recs \subseteq Elements(req[c].recs)
         /\ Step(c).kind \in {"ask", "begin", "write", "commit"}
         /\ Step(c).kind \in {"begin", "commit"} => Sql
         /\ Step(c).kind = "begin" =>
              /\ at[c] = 1 /\ Len(Plan(c)) = 3 /\ Plan(c)[2].kind \in {"ask", "write"}
              /\ Plan(c)[3].kind = "commit"
         /\ Step(c).kind = "write" => IsWrite(c)
<1>1. PlanFits(adapter, Op(c), req[c].recs, Plan(c))
  BY CallPlan
<1>2. Plan(c) \in Seq(Exchange(req[c].recs)) /\ Len(Plan(c)) \in Nat
  BY <1>1 DEF PlanFits
<1>3. at[c] \in 1..Len(Plan(c))
  BY <1>2 DEF Typed
<1>4. Step(c) \in Exchange(req[c].recs)
  BY <1>2, <1>3 DEF Step
<1>5. /\ Step(c).recs \subseteq Elements(req[c].recs)
      /\ Step(c).kind \in {"ask", "begin", "write", "commit"}
  BY <1>4 DEF Exchange
<1> QED
  BY <1>1, <1>3, <1>4, <1>5 DEF PlanFits, Step, Sql, IsWrite

\* What an exchange may write is a set of records of the request.
LEMMA WriteSets ==
  ASSUME Typed, ReqInv, NEW c \in Calls, pc[c] # "new", at[c] <= Len(Plan(c))
  PROVE  /\ \A R \in Reaches(c) : R \subseteq Step(c).recs
         /\ Spared(c) \subseteq Elements(req[c].recs)
         /\ \A R \in Targets(c) : R \subseteq Elements(req[c].recs) \/ R = staged[c]
         /\ \A R \in Targets(c) : R \subseteq Records
<1>1. /\ Step(c).recs \subseteq Elements(req[c].recs) /\ Elements(req[c].recs) \subseteq Records
      /\ req[c].recs \in Seq(Records)
  BY CallPlan, CallExchange
<1>2. Reachable(c) \subseteq Step(c).recs
  BY DEF Reachable
<1>3. \A R \in Reaches(c) : R \subseteq Step(c).recs
  BY <1>2 DEF Reaches
<1>4. Spared(c) \subseteq Elements(req[c].recs)
  BY <1>1 DEF Spared, Elements
<1>5. \A R \in Targets(c) : R \in Reaches(c) \/ R \in {Spared(c), staged[c], {}}
  BY DEF Targets
<1>6. staged[c] \subseteq Records
  BY DEF Typed
<1> QED
  BY <1>1, <1>3, <1>4, <1>5, <1>6

\* Of what an exchange would write, a failed one leaves a part.
LEMMA LeavesParts ==
  /\ \A R : \A E \in Parts(R) : E \subseteq R
  /\ \A f \in {"refused", "busy", "down", "lost", "garbled", "partial", "ambiguous", "misread", "mixed"} :
       \A R : \A E \in Leaves(f, R) : E \subseteq R
<1>1. \A R : \A E \in Parts(R) : E \subseteq R
  BY DEF Parts
<1> QED
  BY <1>1 DEF Leaves

LEMMA PossibleFaults ==
  ASSUME NEW c, NEW kind, NEW f \in Possible(c, kind)
  PROVE  /\ f \in {"refused", "busy", "down", "lost", "garbled", "partial", "ambiguous", "misread", "mixed"}
         /\ MayMeet(adapter, Op(c), kind, f)
BY DEF Possible, MayMeet, ReadsAnswer

\* What can be answered.
LEMMA Answers ==
  ASSUME NEW c, NEW write \in BOOLEAN
  PROVE  /\ \A category \in Categories :
              /\ classify_operation_error(category, write) \in Categories
              /\ classify_operation_error(category, write) = "ok" <=> category = "ok"
         /\ \A cancelled \in BOOLEAN : interrupted_error(write, cancelled) \in Errors
         /\ Stops(c) \in {"Conflict", "NotFound", "goes on"} /\ Outcome(c) \in {"NotFound", "ok"}
         /\ {"NotFound", "Conflict", "ok", "Unsupported", "InvalidRequest", "PermissionDenied"}
              \subseteq Categories
<1>1. Stops(c) \in {"Conflict", "NotFound", "goes on"} /\ Outcome(c) \in {"NotFound", "ok"}
  BY DEF Stops, Outcome
<1> QED
  BY <1>1 DEF classify_operation_error, interrupted_error, Unsure, Categories, Errors

LEMMA ConnectFailures ==
  ASSUME NEW f \in {"refused", "busy", "down", "lost"}, ConnectFault(f), adapter \in AdapterNames
  PROVE  ConnectFails(f) \in Errors
<1>1. CASE Sql
  <2>1. map_pg_error(f, FALSE) \in Errors /\ map_mysql_error(f, FALSE) \in Errors
    BY DEF map_pg_error, map_mysql_error, Unsure, Errors, Categories
  <2>2. map_oracle_error(f, FALSE) \in Errors /\ map_tds_error(f, FALSE) \in Errors
    BY DEF map_oracle_error, map_tds_error, Unsure, Errors, Categories
  <2>3. {"Timeout", "Unavailable"} \subseteq Errors
    BY DEF Errors, Categories
  <2>4. /\ map_pg_pool_error(f) \in Errors /\ map_oracle_pool_error(f) \in Errors
        /\ TdsConnectFails(f) \in Errors
    BY <2>1, <2>2, <2>3 DEF map_pg_pool_error, map_oracle_pool_error, TdsConnectFails
  <2>5. SqlConnectFails(adapter, f) \in Errors
    BY <1>1, <2>1, <2>4 DEF SqlConnectFails, Sql, SqlAdapterNames
  <2> QED
    BY <1>1, <2>5 DEF ConnectFails
<1>2. CASE ~Sql
  <2>1. adapter \in {"cql", "couchbase", "hbase"}
    BY <1>2 DEF ConnectFault
  <2>2. map_session_error(f) \in Errors
    BY DEF map_session_error, map_attempt_error, map_db_error, Unsure, Errors, Categories
  <2>3. map_couchbase_error(f, FALSE) \in Errors /\ HBaseConnectFails(f) \in Errors /\ "Timeout" \in Errors
    BY DEF map_couchbase_error, HBaseConnectFails, Unsure, Errors, Categories
  <2>4. DocumentConnectFails(adapter, f) \in Errors
    BY <2>1, <2>2, <2>3 DEF DocumentConnectFails
  <2> QED
    BY <1>2, <2>4 DEF ConnectFails
<1> QED
  BY <1>1, <1>2

LEMMA FailsIsFailsOf ==
  ASSUME NEW c, NEW kind, NEW f
  PROVE  Fails(c, kind, f) = FailsOf(adapter, Op(c), at[c], kind, done[c] # {}, f)
BY DEF Fails, FailsOf, Sql, Document, IsWrite

\* The failure of a write that the server refuses.
RefusedAs(c) == IF Spared(c) = {} THEN Hindrance(c) ELSE "partial"

LEMMA RefusalsAreFaults ==
  ASSUME NEW c, Refusals(c) # {}
  PROVE  MayMeet(adapter, Op(c), "write", RefusedAs(c))
<1>1. PICK r \in Step(c).recs : Hindered(c, r)
  BY DEF Refusals
<1>2. CASE Spared(c) = {}
  <2>1. CASE Hindrance(c) = "missing"
    <3>1. Op(c) \in {"update", "delete"} /\ adapter \in ChangesIfPresent
      BY <1>1, <2>1 DEF Hindrance, Hindered, ChangesIfPresent
    <3> QED
      BY <1>2, <2>1, <3>1 DEF MayMeet, RefusedAs
  <2>2. CASE Hindrance(c) = "exists"
    <3>1. adapter \in InsertsIfAbsent
      BY <1>1, <2>2 DEF Hindered, ChangesIfPresent, InsertsIfAbsent
    <3> QED
      BY <1>2, <2>2, <3>1 DEF MayMeet, RefusedAs
  <2> QED
    BY <2>1, <2>2 DEF Hindrance
<1>3. CASE Spared(c) # {}
  BY <1>3 DEF Spared, MayMeet, RefusedAs, SaysPartial
<1> QED
  BY <1>2, <1>3

-----------------------------------------------------------------------------
(***************************************************************************)
(* The steps of a call, told apart by what becomes of it: it ends, it goes *)
(* on to its next exchange or to the rollback.                             *)
(***************************************************************************)
Ends(c, category, truncated) ==
    /\ pc[c] \in {"connect", "run", "rollback", "detached"}
    /\ category \in Categories /\ truncated \in BOOLEAN
    /\ category = "ok" => Working(c) /\ ~Refused(c) /\ at[c] > Len(Plan(c))
    /\ EndTask(c, category, truncated)
    /\ cache' = cache \/ cache' = Cached(c)
    /\ UNCHANGED <<adapter, invalidations, req, seen>>
    /\ faults' \in 0..MaxFaults /\ mistaken' \subseteq Calls

GoesOn(c) ==
    /\ Working(c) /\ ~Refused(c) /\ at[c] <= Len(Plan(c))
    /\ \/ UNCHANGED pc /\ at' = [at EXCEPT ![c] = @ + 1]
       \/ pc' = [pc EXCEPT ![c] = "rollback"] /\ UNCHANGED at /\ Step(c).kind = "write"
          /\ Sql /\ IsWrite(c)
    /\ lease' = IF Step(c).kind = "begin" THEN [lease EXCEPT ![c].tx = TRUE]
                ELSE IF Step(c).kind = "commit" THEN [lease EXCEPT ![c].tx = FALSE] ELSE lease
    /\ UNCHANGED <<adapter, invalidations, registry, token, cache, idle, req, result, faults,
                   mistaken>>

Exchanging(c) ==
    AskDatabase(c) \/ BeginTransaction(c) \/ WriteRecords(c) \/ StageRecords(c) \/ CommitTransaction(c)

Ending(c) ==
    \/ \E f \in {"refused", "busy", "down", "lost"} : ConnectFail(c, f)
    \/ Refuse(c) \/ StopAtAnswer(c) \/ WriteRefused(c) \/ Rollback(c)
    \/ \E f \in Faults : ExchangeFails(c, f)
    \/ Finish(c)

LEMMA Steps ==
  ASSUME NEW c, CallStep(c)
  PROVE  \/ \E r \in Requests[c] : Start(c, r)
         \/ Connect(c) \/ Ending(c) \/ Exchanging(c)
         \/ \E cancelled \in BOOLEAN : Interrupt(c, cancelled)
         \/ Late(c)
BY Zenon DEF CallStep, Ending, Exchanging

LEMMA ExchangingGoesOn ==
  ASSUME Typed, ReqInv, NEW c \in Calls, Exchanging(c)
  PROVE  GoesOn(c)
<1>1. CASE AskDatabase(c)
  BY <1>1 DEF AskDatabase, At, NextExchange, GoesOn
<1>2. CASE BeginTransaction(c)
  BY <1>2 DEF BeginTransaction, At, NextExchange, GoesOn
<1>3. CASE WriteRecords(c)
  BY <1>3 DEF WriteRecords, At, NextExchange, GoesOn
<1>4. CASE StageRecords(c)
  <2>1. pc[c] # "new" /\ at[c] <= Len(Plan(c)) /\ Plan(c)[Len(Plan(c))].kind = "commit" /\ IsWrite(c)
    BY <1>4 DEF StageRecords, At, Working, InTx
  <2>2. PlanFits(adapter, Op(c), req[c].recs, Plan(c)) /\ at[c] \in 1..Len(Plan(c))
    BY <2>1, CallPlan, CallExchange
  <2>3. Len(Plan(c)) \in 1..Len(Plan(c))
    BY <2>2
  <2>4. Sql
    BY <2>1, <2>2, <2>3 DEF PlanFits, Sql
  <2> QED
    BY <1>4, <2>1, <2>4 DEF StageRecords, At, GoesOn
<1>5. CASE CommitTransaction(c)
  BY <1>5 DEF CommitTransaction, At, NextExchange, GoesOn
<1> QED
  BY <1>1, <1>2, <1>3, <1>4, <1>5 DEF Exchanging

LEMMA EndingEnds ==
  ASSUME Typed, ReqInv, PathInv, NEW c \in Calls, Ending(c)
  PROVE  \E category, truncated : Ends(c, category, truncated)
<1> DEFINE Good == \E category, truncated : Ends(c, category, truncated)
<1>1. /\ faults \in 0..MaxFaults /\ mistaken \subseteq Calls /\ MaxFaults \in Nat
      /\ adapter \in AdapterNames /\ Errors \subseteq Categories \ {"ok"}
  BY CallsAssumption DEF Typed, Errors
<1>2. ASSUME NEW f \in {"refused", "busy", "down", "lost"}, ConnectFail(c, f) PROVE Good
  <2>1. ConnectFails(f) \in Categories \ {"ok"}
    BY <1>1, <1>2, ConnectFailures DEF ConnectFail
  <2>2. faults' \in 0..MaxFaults /\ mistaken' \subseteq Calls
    BY <1>1, <1>2 DEF ConnectFail
  <2>3. Ends(c, ConnectFails(f), FALSE)
    BY <1>2, <2>1, <2>2 DEF ConnectFail, Ends
  <2> QED
    BY <2>3
<1>3. ASSUME Refuse(c) PROVE Good
  <2>1. PICK category \in {"Unsupported", "InvalidRequest"} : EndTask(c, category, FALSE)
    BY <1>3 DEF Refuse
  <2>2. Ends(c, category, FALSE)
    BY <1>1, <1>3, <2>1 DEF Refuse, Ends, Working, Categories
  <2> QED
    BY <2>2
<1>4. ASSUME StopAtAnswer(c) PROVE Good
  <2>1. Stops(c) \in {"Conflict", "NotFound"}
    BY <1>4 DEF StopAtAnswer, Stops
  <2>2. Ends(c, Stops(c), FALSE)
    BY <1>1, <1>4, <2>1 DEF StopAtAnswer, Ends, At, Working, Categories
  <2> QED
    BY <2>2
<1>5. ASSUME WriteRefused(c) PROVE Good
  <2>1. EndTask(c, Fails(c, "write", RefusedAs(c)), FALSE) /\ Refusals(c) # {}
    BY <1>5 DEF WriteRefused, RefusedAs
  <2>2. CanExchange(adapter, "write") /\ MayMeet(adapter, Op(c), "write", RefusedAs(c))
    BY <2>1, RefusalsAreFaults DEF CanExchange
  <2>3. Fails(c, "write", RefusedAs(c)) \in Errors
    BY <1>1, <2>2, FailuresAreErrors, FailsIsFailsOf
  <2>4. Ends(c, Fails(c, "write", RefusedAs(c)), FALSE)
    BY <1>1, <1>5, <2>1, <2>3 DEF WriteRefused, Ends, At, Working
  <2> QED
    BY <2>4
<1>6. ASSUME Rollback(c) PROVE Good
  <2>1. Ends(c, "PermissionDenied", FALSE)
    BY <1>1, <1>6 DEF Rollback, Ends, Categories
  <2> QED
    BY <2>1
<1>7. ASSUME NEW f \in Faults, ExchangeFails(c, f) PROVE Good
  <2> DEFINE kind == IF pc[c] = "rollback" THEN "rollback" ELSE Step(c).kind
  <2>1. /\ EndTask(c, Fails(c, kind, f), FALSE) /\ f \in Possible(c, kind)
        /\ pc[c] \in {"run", "rollback", "detached"}
        /\ pc[c] # "rollback" => at[c] <= Len(Plan(c))
    BY <1>7 DEF ExchangeFails, At, Working
  <2>2. MayMeet(adapter, Op(c), kind, f)
    BY <2>1, PossibleFaults
  <2>3. CanExchange(adapter, kind)
    BY <2>1, CallExchange DEF CanExchange, Sql, PathInv
  <2>4. Fails(c, kind, f) \in Errors
    BY <1>1, <2>2, <2>3, FailuresAreErrors, FailsIsFailsOf
  <2>5. faults' \in 0..MaxFaults /\ mistaken' \subseteq Calls
    BY <1>1, <1>7 DEF ExchangeFails
  <2>6. Ends(c, Fails(c, kind, f), FALSE)
    BY <1>1, <1>7, <2>1, <2>4, <2>5 DEF ExchangeFails, Ends
  <2> QED
    BY <2>6
<1>8. ASSUME Finish(c) PROVE Good
  <2>1. PICK truncated \in BOOLEAN : EndTask(c, Outcome(c), truncated)
    BY <1>8 DEF Finish
  <2>2. Ends(c, Outcome(c), truncated)
    BY <1>1, <1>8, <2>1 DEF Finish, Ends, Working, Outcome, Categories
  <2> QED
    BY <2>2
<1> QED
  BY <1>2, <1>3, <1>4, <1>5, <1>6, <1>7, <1>8 DEF Ending
-----------------------------------------------------------------------------
(***************************************************************************)
(* The types.                                                              *)
(***************************************************************************)
LEMMA NothingApplied ==
  ASSUME Typed, NEW c \in Calls, NoEffect
  PROVE  Apply(c, {})
<1>1. table \in [Records -> Writers] /\ done \in [Calls -> SUBSET Records]
  BY DEF Typed
<1>2. table' = [r \in Records |-> table[r]]
  BY <1>1 DEF NoEffect
<1>3. done' = [done EXCEPT ![c] = @ \cup {}]
  BY <1>1 DEF NoEffect
<1>4. ~Clobbers(c, {})
  BY DEF Clobbers
<1> QED
  BY <1>2, <1>3, <1>4 DEF Apply, NoEffect

\* The database writes records of the request, or what the transaction has written.
LEMMA StepApplies ==
  ASSUME Typed, ReqInv, PathInv, NEW c \in Calls, CallStep(c)
  PROVE  \E E \in SUBSET Records : Apply(c, E)
<1> DEFINE Good == \E E \in SUBSET Records : Apply(c, E)
<1>1. ASSUME NoEffect PROVE Good
  BY <1>1, NothingApplied
<1>2. ASSUME NEW r \in Requests[c], Start(c, r) PROVE Good
  BY <1>1, <1>2 DEF Start
<1>3. ASSUME Connect(c) PROVE Good
  BY <1>1, <1>3 DEF Connect
<1>4. ASSUME Ending(c) PROVE Good
  <2>1. ASSUME WriteRefused(c) PROVE Good
    <3>1. pc[c] # "new" /\ at[c] <= Len(Plan(c)) /\ Apply(c, Spared(c))
      BY <2>1 DEF WriteRefused, At, Working
    <3>2. Spared(c) \subseteq Records
      BY <3>1, WriteSets, CallPlan
    <3> QED
      BY <3>1, <3>2
  <2>2. ASSUME NEW f \in Faults, ExchangeFails(c, f) PROVE Good
    <3>1. PICK kind : f \in Possible(c, kind)
      BY <2>2 DEF ExchangeFails
    <3>a. PICK R \in Targets(c) : \E E \in Leaves(f, R) : Apply(c, E)
      BY <2>2 DEF ExchangeFails
    <3>2. PICK E \in Leaves(f, R) : Apply(c, E)
      BY <3>a
    <3>3. E \subseteq R
      BY <3>1, PossibleFaults, LeavesParts
    <3>4. CASE pc[c] = "rollback"
      <4>1. R = {}
        BY <3>a, <3>4 DEF Targets
      <4> QED
        BY <3>2, <3>3, <4>1
    <3>5. CASE pc[c] # "rollback"
      <4>1. pc[c] # "new" /\ at[c] <= Len(Plan(c))
        BY <2>2, <3>5 DEF ExchangeFails, At, Working
      <4>2. R \subseteq Records
        BY <3>a, <4>1, WriteSets
      <4> QED
        BY <3>2, <3>3, <4>2
    <3> QED
      BY <3>4, <3>5
  <2>3. ASSUME NEW f \in {"refused", "busy", "down", "lost"}, ConnectFail(c, f) PROVE Good
    BY <1>1, <2>3 DEF ConnectFail
  <2>4. ASSUME Refuse(c) \/ StopAtAnswer(c) \/ Rollback(c) \/ Finish(c) PROVE Good
    BY <1>1, <2>4 DEF Refuse, StopAtAnswer, Rollback, Finish
  <2> QED
    BY <1>4, <2>1, <2>2, <2>3, <2>4 DEF Ending
<1>5. ASSUME Exchanging(c) PROVE Good
  <2>1. ASSUME WriteRecords(c) PROVE Good
    <3>1. pc[c] # "new" /\ at[c] <= Len(Plan(c))
      BY <2>1 DEF WriteRecords, At, Working
    <3>2. PICK R \in Reaches(c) : Apply(c, R)
      BY <2>1 DEF WriteRecords
    <3>3. R \subseteq Step(c).recs
      BY <3>1, <3>2, WriteSets
    <3>4. R \subseteq Records
      BY <3>1, <3>3, CallExchange, CallPlan
    <3> QED
      BY <3>2, <3>4
  <2>2. ASSUME CommitTransaction(c) PROVE Good
    BY <2>2 DEF CommitTransaction, Typed
  <2>3. ASSUME AskDatabase(c) \/ BeginTransaction(c) \/ StageRecords(c) PROVE Good
    BY <1>1, <2>3 DEF AskDatabase, BeginTransaction, StageRecords
  <2> QED
    BY <1>5, <2>1, <2>2, <2>3 DEF Exchanging
<1>6. ASSUME NEW cancelled \in BOOLEAN, Interrupt(c, cancelled) PROVE Good
  BY <1>1, <1>6 DEF Interrupt
<1>7. ASSUME Late(c) PROVE Good
  <2>1. pc[c] # "new" /\ at[c] <= Len(Plan(c))
    BY <1>7 DEF Late, PathInv
  <2>2. PICK R \in Targets(c) : \E E \in Parts(R) : Apply(c, E)
    BY <1>7 DEF Late
  <2>3. PICK E \in Parts(R) : Apply(c, E)
    BY <2>2
  <2>4. R \subseteq Records /\ E \subseteq R
    BY <2>1, <2>2, <2>3, WriteSets, LeavesParts
  <2> QED
    BY <2>3, <2>4
<1> QED
  BY <1>2, <1>3, <1>4, <1>5, <1>6, <1>7, Steps

LEMMA ApplyTyped ==
  ASSUME Typed, NEW c \in Calls, NEW E \in SUBSET Records, Apply(c, E)
  PROVE  /\ table' \in [Records -> Writers] /\ done' \in [Calls -> SUBSET Records]
         /\ clobbered' \subseteq Calls
BY DEF Typed, Apply, Writers

\* What a step does to the variables that only one kind of step changes.
LEMMA StepFrame ==
  ASSUME Typed, ReqInv, PathInv, NEW c \in Calls, CallStep(c)
  PROVE  /\ adapter' = adapter /\ invalidations' = invalidations
         /\ staged' \in [Calls -> SUBSET Records] /\ seen' \in [Calls -> Writers]
         /\ \A d \in Calls \ {c} : staged'[d] = staged[d] /\ seen'[d] = seen[d]
         /\ faults' \in 0..MaxFaults /\ mistaken' \subseteq Calls
<1> DEFINE Good ==
      /\ adapter' = adapter /\ invalidations' = invalidations
      /\ staged' \in [Calls -> SUBSET Records] /\ seen' \in [Calls -> Writers]
      /\ \A d \in Calls \ {c} : staged'[d] = staged[d] /\ seen'[d] = seen[d]
      /\ faults' \in 0..MaxFaults /\ mistaken' \subseteq Calls
<1>1. /\ staged \in [Calls -> SUBSET Records] /\ seen \in [Calls -> Writers]
      /\ faults \in 0..MaxFaults /\ mistaken \subseteq Calls /\ MaxFaults \in Nat
  BY CallsAssumption DEF Typed
<1>2. ASSUME NEW r \in Requests[c], Start(c, r) PROVE Good
  BY <1>1, <1>2 DEF Start
<1>3. ASSUME Connect(c) PROVE Good
  BY <1>1, <1>3 DEF Connect
<1>4. ASSUME Ending(c) PROVE Good
  <2>1. PICK category, truncated : Ends(c, category, truncated)
    BY <1>4, EndingEnds
  <2> QED
    BY <1>1, <2>1 DEF Ends, EndTask
<1>5. ASSUME Exchanging(c) PROVE Good
  <2>1. ASSUME WriteRecords(c) \/ CommitTransaction(c) \/ BeginTransaction(c) PROVE Good
    BY <1>1, <2>1 DEF WriteRecords, CommitTransaction, BeginTransaction, NextExchange
  <2>2. ASSUME AskDatabase(c) PROVE Good
    <3>1. pc[c] # "new"
      BY <2>2 DEF AskDatabase, At, Working
    <3>2. Target(c) \in Records
      BY <3>1, CallPlan DEF Target, Request
    <3>3. table[Target(c)] \in Writers /\ Nobody \in Writers
      BY <3>2 DEF Typed, Writers
    <3> QED
      BY <1>1, <2>2, <3>3 DEF AskDatabase, NextExchange
  <2>3. ASSUME StageRecords(c) PROVE Good
    <3>1. pc[c] # "new" /\ at[c] <= Len(Plan(c))
      BY <2>3 DEF StageRecords, At, Working
    <3>2. \A R \in Reaches(c) : R \subseteq Records
      BY <3>1, WriteSets, CallExchange, CallPlan
    <3> QED
      BY <1>1, <2>3, <3>2 DEF StageRecords
  <2> QED
    BY <1>5, <2>1, <2>2, <2>3 DEF Exchanging
<1>6. ASSUME NEW cancelled \in BOOLEAN, Interrupt(c, cancelled) PROVE Good
  BY <1>1, <1>6 DEF Interrupt
<1>7. ASSUME Late(c) PROVE Good
  BY <1>1, <1>7 DEF Late
<1> QED
  BY <1>2, <1>3, <1>4, <1>5, <1>6, <1>7, Steps

LEMMA StepTyped ==
  ASSUME Typed, ReqInv, PathInv, NEW c \in Calls, CallStep(c)
  PROVE  Typed'
<1> DEFINE Good ==
      /\ registry' \in [Ids -> Calls \cup {Nobody}] /\ token' \in [Calls -> BOOLEAN]
      /\ cache' \in [Creds -> Calls \cup {Nobody}]
      /\ pc' \in [Calls -> Stations] /\ at' \in [Calls -> Nat \ {0}]
      /\ result' \in [Calls -> Categories \cup {"none"}]
<1>1. /\ registry \in [Ids -> Calls \cup {Nobody}] /\ token \in [Calls -> BOOLEAN]
      /\ cache \in [Creds -> Calls \cup {Nobody}]
      /\ pc \in [Calls -> Stations] /\ at \in [Calls -> Nat \ {0}]
      /\ result \in [Calls -> Categories \cup {"none"}]
  BY DEF Typed
<1>2. Cached(c) \in [Creds -> Calls \cup {Nobody}]
  BY <1>1 DEF Cached
<1>3. \A x \in BOOLEAN : \A category \in Categories : classify_operation_error(category, x) \in Categories
  BY Answers
<1>4. \A x, y \in BOOLEAN : interrupted_error(x, y) \in Categories
  BY Answers DEF Errors
<1>5. IsWrite(c) \in BOOLEAN
  BY DEF IsWrite, operation_is_write
<1>6. ASSUME NEW r \in Requests[c], Start(c, r) PROVE Good
  <2>1. r.id \in Ids
    BY CallsAssumption DEF Request
  <2> QED
    BY <1>1, <1>6, <2>1 DEF Start, Stations, Categories
<1>7. ASSUME Connect(c) PROVE Good
  BY <1>1, <1>2, <1>7 DEF Connect, Stations
<1>8. ASSUME Ending(c) PROVE Good
  <2>1. PICK category, truncated : Ends(c, category, truncated)
    BY <1>8, EndingEnds
  <2>2. pc[c] # "new"
    BY <2>1 DEF Ends
  <2>3. req[c].id \in Ids
    BY <2>2, CallPlan
  <2>4. classify_operation_error(category, IsWrite(c)) \in Categories
    BY <1>3, <1>5, <2>1 DEF Ends
  <2>5. pc' \in [Calls -> Stations] /\ at' \in [Calls -> Nat \ {0}] /\ cache' \in [Creds -> Calls \cup {Nobody}]
    BY <1>1, <1>2, <2>1 DEF Ends, EndTask, Stations
  <2> QED
    BY <1>1, <2>1, <2>3, <2>4, <2>5 DEF Ends, EndTask, Answer
<1>9. ASSUME Exchanging(c) PROVE Good
  <2>1. GoesOn(c)
    BY <1>9, ExchangingGoesOn
  <2> QED
    BY <1>1, <2>1 DEF GoesOn, Stations
<1>10. ASSUME NEW cancelled \in BOOLEAN, Interrupt(c, cancelled) PROVE Good
  <2>1. pc[c] # "new"
    BY <1>10 DEF Interrupt, Running
  <2>2. req[c].id \in Ids
    BY <2>1, CallPlan
  <2>3. interrupted_error(IsWrite(c), cancelled) \in Categories
    BY <1>4, <1>5
  <2> QED
    BY <1>1, <1>10, <2>2, <2>3 DEF Interrupt, Stations
<1>11. ASSUME Late(c) PROVE Good
  BY <1>1, <1>11 DEF Late, Stations
<1>12. Good
  BY <1>6, <1>7, <1>8, <1>9, <1>10, <1>11, Steps
<1>13. PICK E \in SUBSET Records : Apply(c, E)
  BY StepApplies
<1>14. /\ table' \in [Records -> Writers] /\ done' \in [Calls -> SUBSET Records]
       /\ clobbered' \subseteq Calls
  BY <1>13, ApplyTyped
<1>15. /\ adapter' = adapter /\ invalidations' = invalidations
       /\ staged' \in [Calls -> SUBSET Records] /\ seen' \in [Calls -> Writers]
       /\ faults' \in 0..MaxFaults /\ mistaken' \subseteq Calls
  BY StepFrame
<1>16. adapter \in Adapters /\ invalidations \in 0..MaxInvalidations
  BY DEF Typed
<1> QED
  BY <1>12, <1>14, <1>15, <1>16 DEF Typed

LEMMA PlanKept ==
  ASSUME NEW c, adapter' = adapter, req'[c] = req[c]
  PROVE  /\ Plan(c)' = Plan(c) /\ Op(c)' = Op(c) /\ IsWrite(c)' = IsWrite(c)
         /\ Refused(c)' = Refused(c) /\ InTx(c)' = InTx(c) /\ Sql' = Sql /\ OwnPool' = OwnPool
<1>1. Sql' = Sql /\ Document' = Document /\ OwnPool' = OwnPool /\ Op(c)' = Op(c)
  BY DEF Sql, Document, OwnPool, Op
<1>2. Plan(c)' = Plan(c) /\ IsWrite(c)' = IsWrite(c)
  BY <1>1 DEF Plan, IsWrite
<1>3. InTx(c)' = InTx(c)
  BY <1>2 DEF InTx
<1>4. Refused(c)' = Refused(c)
  BY <1>1, <1>2 DEF Refused, OneKey, BoundedBefore
<1> QED
  BY <1>1, <1>2, <1>3, <1>4

-----------------------------------------------------------------------------
(***************************************************************************)
(* The invariant of the calls, kind of step by kind of step.               *)
(***************************************************************************)
ControlInv ==
    ReqInv /\ RegInv /\ CacheInv /\ LeaseInv /\ TxInv /\ IdleInv /\ BoundInv /\ PathInv

LEMMA CallInvParts == CallInv <=> Typed /\ ControlInv
BY DEF CallInv, ControlInv

LEMMA StartControl ==
  ASSUME CallInv, NEW c \in Calls, NEW r \in Requests[c], Start(c, r)
  PROVE  ControlInv'
<1> USE DEF CallInv
<1>1. /\ pc[c] = "new" /\ UNCHANGED <<adapter, cache, idle, at, lease>>
      /\ req' = [req EXCEPT ![c] = r]
      /\ pc'[c] \in {"connect", "ended"} /\ \A d \in Calls \ {c} : pc'[d] = pc[d]
  BY DEF Start, Typed
<1>2. r \in Request /\ r.id \in Ids
  BY CallsAssumption DEF Request
<1>3. req'[c] = r /\ \A d \in Calls \ {c} : req'[d] = req[d]
  BY <1>1 DEF ReqInv
<1>4. ReqInv'
  BY <1>1, <1>2 DEF ReqInv
<1>5. RegInv'
  <2>1. CASE registry[r.id] = Nobody
    <3>1. registry' = [registry EXCEPT ![r.id] = c] /\ pc'[c] = "connect"
      BY <2>1 DEF Start, Typed
    <3> QED
      BY <1>1, <1>2, <1>3, <2>1, <3>1, CallsAssumption DEF RegInv, Running, Typed, ReqInv, Request
  <2>2. CASE registry[r.id] # Nobody
    <3>1. registry' = registry /\ pc'[c] = "ended"
      BY <2>2 DEF Start, Typed
    <3> QED
      BY <1>1, <1>2, <1>3, <2>2, <3>1, CallsAssumption DEF RegInv, Running, Typed
  <2> QED
    BY <2>1, <2>2
<1>6. CacheInv'
  BY <1>1, <1>3 DEF CacheInv, Typed
<1>7. LeaseInv'
  <2>1. lease[c] = NoLease
    BY <1>1 DEF LeaseInv
  <2> QED
    BY <1>1, <1>3, <2>1 DEF LeaseInv
<1>8. TxInv'
  <2>1. ~lease[c].tx
    BY <1>1 DEF LeaseInv, NoLease
  <2>2. \A d \in Calls \ {c} : Plan(d)' = Plan(d)
    BY <1>1, <1>3, PlanKept
  <2> QED
    BY <1>1, <2>1, <2>2 DEF TxInv
<1>9. IdleInv'
  BY <1>1, <1>3 DEF IdleInv
<1>10. BoundInv'
  BY <1>1 DEF BoundInv, Leases, OwnPool
<1>11. PathInv'
  <2>1. \A d \in Calls \ {c} : Plan(d)' = Plan(d) /\ IsWrite(d)' = IsWrite(d) /\ Sql' = Sql
    BY <1>1, <1>3, PlanKept
  <2> QED
    BY <1>1, <2>1 DEF PathInv
<1> QED
  BY <1>4, <1>5, <1>6, <1>7, <1>8, <1>9, <1>10, <1>11 DEF ControlInv

\* The pool that a call uses was built with the credential of the call.
LEMMA PoolFits ==
  ASSUME CallInv, NEW c \in Calls, pc[c] # "new"
  PROVE  Pool(c) \in Calls /\ pc[Pool(c)] # "new" /\ req[Pool(c)].cred = req[c].cred
<1>1. req[c].cred \in Creds
  BY CallPlan DEF CallInv
<1> QED
  BY <1>1 DEF CallInv, Typed, CacheInv, Pool, connection_cache_key

LEMMA CachedFits ==
  ASSUME CallInv, NEW c \in Calls, pc[c] # "new", req' = req, pc'[c] # "new",
         \A d \in Calls : pc[d] # "new" => pc'[d] # "new",
         cache' = cache \/ cache' = Cached(c)
  PROVE  CacheInv'
<1>1. CASE cache' = cache
  BY <1>1 DEF CallInv, CacheInv, Typed
<1>2. CASE cache' # cache
  <2>1. cache' = [v \in Creds |-> IF v = req[c].cred THEN c ELSE Nobody]
    BY <1>2 DEF Cached, connection_cache_key
  <2> QED
    BY <2>1 DEF CacheInv
<1> QED
  BY <1>1, <1>2

LEMMA ConnectControl ==
  ASSUME CallInv, NEW c \in Calls, Connect(c)
  PROVE  ControlInv'
<1> USE DEF CallInv
<1>a. pc[c] = "connect"
  BY DEF Connect
<1>b. PICK p \in Calls : p = Pool(c)
  BY <1>a, PoolFits
<1> DEFINE L == lease'[c]
<1>1. /\ pc[c] = "connect" /\ PermitFree(p) /\ cache' = Cached(c)
      /\ lease' = [lease EXCEPT ![c] = IF idle[p] = <<>> THEN Fresh(c) ELSE idle[p][Len(idle[p])]]
      /\ idle' = [idle EXCEPT ![p] = IF @ = <<>> THEN @ ELSE SubSeq(@, 1, Len(@) - 1)]
      /\ pc' = [pc EXCEPT ![c] = "run"]
      /\ UNCHANGED <<adapter, registry, req, at>>
  BY <1>b DEF Connect
<1>2. p \in Calls /\ pc[p] # "new" /\ req[p].cred = req[c].cred /\ req[c].cred \in Creds
  BY <1>1, <1>b, PoolFits, CallPlan
<1>3. pc'[c] = "run" /\ \A d \in Calls \ {c} : pc'[d] = pc[d]
  BY <1>1 DEF Typed
<1>4. lease[c] = NoLease
  BY <1>1 DEF LeaseInv
<1>5. idle[p] \in Seq(Connection)
  BY <1>2 DEF IdleInv
<1>6. L \in Connection /\ L.pool = p /\ L.cred = req[c].cred /\ ~L.tx /\ ~L.unread
  <2>1. L = IF idle[p] = <<>> THEN Fresh(c) ELSE idle[p][Len(idle[p])]
    BY <1>1 DEF LeaseInv
  <2>2. CASE idle[p] = <<>>
    <3>1. L = [pool |-> p, cred |-> req[p].cred, tx |-> FALSE, unread |-> FALSE]
      BY <1>b, <2>1, <2>2 DEF Fresh
    <3> QED
      BY <1>2, <3>1 DEF Connection
  <2>3. CASE idle[p] # <<>>
    <3>1. Len(idle[p]) \in 1..Len(idle[p])
      BY <1>5, <2>3
    <3>2. L = idle[p][Len(idle[p])]
      BY <2>1, <2>3
    <3> QED
      BY <1>2, <1>5, <3>1, <3>2 DEF IdleInv
  <2> QED
    BY <2>2, <2>3
<1>7. \A d \in Calls \ {c} : lease'[d] = lease[d]
  BY <1>1 DEF LeaseInv
<1> HIDE DEF L
<1>8. ReqInv' /\ RegInv' /\ PathInv'
  <2>1. \A d \in Calls : Plan(d)' = Plan(d) /\ IsWrite(d)' = IsWrite(d) /\ Sql' = Sql
    BY <1>1, PlanKept
  <2> QED
    BY <1>1, <1>3, <2>1 DEF ReqInv, RegInv, Running, PathInv, Typed
<1>9. CacheInv'
  BY <1>1, <1>3, CachedFits
<1>10. LeaseInv'
  <2>1. lease' \in [Calls -> Connection]
    BY <1>1, <1>6, <1>7 DEF LeaseInv, L
  <2>2. \A d \in Calls : lease[d].pool \in Calls => (pc[lease[d].pool] # "new" => pc'[lease[d].pool] # "new")
    BY <1>3
  <2> QED
    BY <1>1, <1>2, <1>3, <1>6, <1>7, <2>1, <2>2 DEF LeaseInv, L
<1>11. TxInv'
  <2>1. \A d \in Calls : Plan(d)' = Plan(d)
    BY <1>1, PlanKept
  <2> QED
    BY <1>1, <1>6, <1>7, <2>1 DEF TxInv, L
<1>12. /\ idle'[p] \in Seq(Connection) /\ \A d \in Calls \ {p} : idle'[d] = idle[d]
       /\ idle' \in [Calls -> Seq(Connection)]
       /\ IF idle[p] = <<>> THEN idle'[p] = <<>>
          ELSE Len(idle'[p]) = Len(idle[p]) - 1 /\ \A i \in 1..Len(idle'[p]) : idle'[p][i] = idle[p][i]
  <2>1. idle'[p] = IF idle[p] = <<>> THEN idle[p] ELSE SubSeq(idle[p], 1, Len(idle[p]) - 1)
    BY <1>1, <1>2 DEF IdleInv
  <2>2. \A d \in Calls \ {p} : idle'[d] = idle[d]
    BY <1>1, <1>2 DEF IdleInv
  <2>3. idle'[p] \in Seq(Connection)
    BY <1>5, <2>1
  <2>4. idle' \in [Calls -> Seq(Connection)]
    BY <1>1, <1>2, <2>1, <2>3 DEF IdleInv
  <2>5. ASSUME idle[p] # <<>>
        PROVE  Len(idle'[p]) = Len(idle[p]) - 1 /\ \A i \in 1..Len(idle'[p]) : idle'[p][i] = idle[p][i]
    BY <1>5, <2>1, <2>5
  <2> QED
    BY <2>1, <2>2, <2>3, <2>4, <2>5
<1>13. IdleInv'
  <2>1. \A q \in Calls : \A i \in 1..Len(idle'[q]) : i \in 1..Len(idle[q]) /\ idle'[q][i] = idle[q][i]
    BY <1>5, <1>12
  <2>2. \A q \in Calls : pc[q] # "new" => pc'[q] # "new"
    BY <1>3
  <2> QED
    BY <1>1, <1>12, <2>1, <2>2 DEF IdleInv
<1>14. BoundInv'
  <2>1. OwnPool' = OwnPool
    BY <1>1 DEF OwnPool
  <2>2. \A q \in Calls \ {p} : Leases(q)' = Leases(q)
    BY <1>4, <1>6, <1>7, CallsAssumption DEF Leases, L, NoLease
  <2>3. Leases(p)' = Leases(p) \cup {c} /\ c \notin Leases(p)
    BY <1>2, <1>4, <1>6, <1>7, CallsAssumption DEF Leases, L, NoLease
  <2>4. IsFiniteSet(Leases(p)) /\ Cardinality(Leases(p)) \in Nat
    BY <1>2, FS_CardinalityType DEF BoundInv
  <2>5. IsFiniteSet(Leases(p)') /\ Cardinality(Leases(p)') = Cardinality(Leases(p)) + 1
    BY <2>3, <2>4, FS_AddElement
  <2>6. OwnPool => Cardinality(Leases(p)) < PoolSize /\ PoolSize \in Nat
    BY <1>1, CallsAssumption DEF PermitFree
  <2>7. IF OwnPool THEN Len(idle'[p]) + Cardinality(Leases(p)') <= PoolSize ELSE idle'[p] = <<>>
    <3>1. CASE OwnPool /\ idle[p] = <<>>
      <4>1. Len(idle'[p]) = 0
        BY <1>12, <3>1
      <4> QED
        BY <2>4, <2>5, <2>6, <3>1, <4>1
    <3>2. CASE OwnPool /\ idle[p] # <<>>
      <4>1. Len(idle[p]) \in Nat /\ Len(idle'[p]) = Len(idle[p]) - 1
        BY <1>5, <1>12, <3>2
      <4>2. Len(idle[p]) + Cardinality(Leases(p)) <= PoolSize
        BY <1>2, <3>2 DEF BoundInv
      <4> QED
        BY <2>4, <2>5, <2>6, <3>2, <4>1, <4>2
    <3>3. CASE ~OwnPool
      BY <1>2, <1>12, <3>3 DEF BoundInv
    <3> QED
      BY <3>1, <3>2, <3>3
  <2>8. \A q \in Calls \ {p} : idle'[q] = idle[q]
    BY <1>12
  <2> QED
    BY <1>2, <2>1, <2>2, <2>5, <2>7, <2>8 DEF BoundInv
<1> QED
  BY <1>8, <1>9, <1>10, <1>11, <1>13, <1>14 DEF ControlInv

\* A connection goes back to its own pool, between two uses.
LEMMA EndsRelease ==
  ASSUME CallInv, NEW c \in Calls, NEW category, NEW truncated, Ends(c, category, truncated)
  PROVE  IdleInv' /\ BoundInv'
<1> USE DEF CallInv
<1>1. /\ pc[c] \in {"connect", "run", "rollback", "detached"} /\ truncated \in BOOLEAN
      /\ category = "ok" => Working(c) /\ at[c] > Len(Plan(c))
      /\ lease' = [lease EXCEPT ![c] = NoLease] /\ pc' = [pc EXCEPT ![c] = "ended"]
      /\ UNCHANGED <<adapter, req>>
  BY DEF Ends, EndTask, Release
<1>2. OwnPool' = OwnPool /\ \A q \in Calls : pc[q] # "new" => pc'[q] # "new"
  BY <1>1 DEF OwnPool, Typed
<1>3. \A q \in Calls : Leases(q)' = Leases(q) \ {c}
  BY <1>1, CallsAssumption DEF Leases, LeaseInv, NoLease
<1>4. \A q \in Calls :
        /\ IsFiniteSet(Leases(q)) /\ Cardinality(Leases(q)) \in Nat
        /\ IsFiniteSet(Leases(q) \ {c}) /\ Cardinality(Leases(q) \ {c}) \in Nat
        /\ Cardinality(Leases(q) \ {c}) =
             IF c \in Leases(q) THEN Cardinality(Leases(q)) - 1 ELSE Cardinality(Leases(q))
  BY FS_CardinalityType, FS_RemoveElement DEF BoundInv
<1>5. \A q \in Calls : idle[q] \in Seq(Connection) /\ Len(idle[q]) \in Nat
  BY DEF IdleInv
<1>6. CASE ~(lease[c] # NoLease /\ Keeps(category, truncated))
  <2>1. idle' = idle
    BY <1>6 DEF Ends, EndTask, Release
  <2>2. IdleInv'
    BY <1>1, <1>2, <2>1 DEF IdleInv
  <2>3. \A q \in Calls : Cardinality(Leases(q) \ {c}) <= Cardinality(Leases(q))
    BY <1>4
  <2>4. ASSUME NEW q \in Calls, OwnPool PROVE Len(idle[q]) + Cardinality(Leases(q)') <= PoolSize
    <3>1. Len(idle[q]) + Cardinality(Leases(q)) <= PoolSize
      BY <2>4 DEF BoundInv
    <3>2. Leases(q)' = Leases(q) \ {c}
      BY <1>3
    <3>3. /\ Cardinality(Leases(q)) \in Nat /\ Cardinality(Leases(q) \ {c}) \in Nat
          /\ Cardinality(Leases(q) \ {c}) <= Cardinality(Leases(q))
          /\ Len(idle[q]) \in Nat /\ PoolSize \in Nat
      BY <1>4, <1>5, <2>3, CallsAssumption
    <3>4. Len(idle[q]) + Cardinality(Leases(q) \ {c}) <= PoolSize
      BY <3>1, <3>3
    <3> QED
      BY <3>2, <3>4
  <2>5. \A q \in Calls : IsFiniteSet(Leases(q)')
    BY <1>3, <1>4
  <2>6. BoundInv'
    BY <1>2, <2>1, <2>4, <2>5 DEF BoundInv
  <2> QED
    BY <2>2, <2>6
<1>7. CASE lease[c] # NoLease /\ Keeps(category, truncated)
  <2>1. /\ category = "ok" /\ OwnPool /\ ~(truncated /\ adapter = "sqlserver")
        /\ pc[c] \in {"run", "detached"} /\ at[c] > Len(Plan(c))
    BY <1>1, <1>7 DEF Keeps, mark_reusable, HBaseReusable, OwnPool, Working
  <2>2. ~lease[c].tx /\ lease[c] \in Connection
    <3>1. lease[c] \in Connection
      BY DEF LeaseInv
    <3>2. ASSUME lease[c].tx PROVE FALSE
      BY <2>1, <3>2 DEF TxInv
    <3> QED
      BY <3>1, <3>2
  <2>3. PICK p \in Calls : p = lease[c].pool /\ pc[p] # "new" /\ lease[c].cred = req[p].cred
    BY <2>1 DEF LeaseInv
  <2>4. PICK l : l = [lease[c] EXCEPT !.unread = truncated /\ adapter = "sqlserver"]
    OBVIOUS
  <2>5. l \in Connection /\ l.pool = p /\ l.cred = req[p].cred /\ ~l.tx /\ ~l.unread
    BY <2>1, <2>2, <2>3, <2>4 DEF Connection
  <2>6. idle' = [idle EXCEPT ![p] = Append(@, l)]
    BY <1>7, <2>3, <2>4 DEF Ends, EndTask, Release
  <2>7. idle'[p] = Append(idle[p], l) /\ \A q \in Calls \ {p} : idle'[q] = idle[q]
    BY <2>6 DEF IdleInv
  <2>8. /\ idle'[p] \in Seq(Connection) /\ Len(idle'[p]) = Len(idle[p]) + 1
        /\ idle'[p][Len(idle[p]) + 1] = l /\ \A i \in 1..Len(idle[p]) : idle'[p][i] = idle[p][i]
    BY <1>5, <2>5, <2>7
  <2>9. IdleInv'
    <3>1. idle' \in [Calls -> Seq(Connection)]
      BY <2>6, <2>7, <2>8 DEF IdleInv
    <3>2. \A i \in 1..Len(idle'[p]) : i \in 1..Len(idle[p]) \/ i = Len(idle[p]) + 1
      BY <1>5, <2>8
    <3>3. \A i \in 1..Len(idle'[p]) :
            /\ pc'[p] # "new" /\ idle'[p][i].pool = p /\ idle'[p][i].cred = req'[p].cred
            /\ ~idle'[p][i].tx /\ ~idle'[p][i].unread
      BY <1>1, <1>2, <2>3, <2>5, <2>8, <3>2 DEF IdleInv
    <3>4. \A q \in Calls \ {p} : \A i \in 1..Len(idle'[q]) :
            /\ pc'[q] # "new" /\ idle'[q][i].pool = q /\ idle'[q][i].cred = req'[q].cred
            /\ ~idle'[q][i].tx /\ ~idle'[q][i].unread
      BY <1>1, <1>2, <2>7 DEF IdleInv
    <3>5. \A q \in Calls : \A i \in 1..Len(idle'[q]) :
            /\ pc'[q] # "new" /\ idle'[q][i].pool = q /\ idle'[q][i].cred = req'[q].cred
            /\ ~idle'[q][i].tx /\ ~idle'[q][i].unread
      BY <3>3, <3>4
    <3> QED
      BY <3>1, <3>5 DEF IdleInv
  <2>10. BoundInv'
    <3>1. c \in Leases(p) /\ \A q \in Calls \ {p} : c \notin Leases(q)
      BY <2>3 DEF Leases
    <3>2. Cardinality(Leases(p)') = Cardinality(Leases(p)) - 1
      BY <1>3, <1>4, <3>1
    <3>3. \A q \in Calls \ {p} : Leases(q)' = Leases(q)
      BY <1>3, <3>1
    <3>4. Len(idle'[p]) + Cardinality(Leases(p)') <= PoolSize
      <4>1. Len(idle[p]) + Cardinality(Leases(p)) <= PoolSize
        BY <2>1 DEF BoundInv
      <4>2. Cardinality(Leases(p)) \in Nat /\ Len(idle[p]) \in Nat /\ PoolSize \in Nat
        BY <1>4, <1>5, CallsAssumption
      <4>3. Len(idle'[p]) = Len(idle[p]) + 1
        BY <2>8
      <4> QED
        BY <3>2, <4>1, <4>2, <4>3
    <3>5. \A q \in Calls \ {p} : Len(idle'[q]) + Cardinality(Leases(q)') <= PoolSize
      BY <2>1, <2>7, <3>3 DEF BoundInv
    <3>6. \A q \in Calls : IsFiniteSet(Leases(q)')
      BY <1>3, <1>4
    <3> QED
      BY <1>2, <2>1, <3>4, <3>5, <3>6 DEF BoundInv
  <2> QED
    BY <2>9, <2>10
<1> QED
  BY <1>6, <1>7

LEMMA RegistryKept ==
  ASSUME CallInv, NEW c \in Calls, req' = req, \A d \in Calls \ {c} : pc'[d] = pc[d],
         IF Running(c)' THEN Running(c) /\ registry' = registry
         ELSE \A i \in Ids : registry'[i] = IF registry[i] = c THEN Nobody ELSE registry[i]
  PROVE  RegInv'
<1>1. \A i \in Ids : registry'[i] # Nobody => registry'[i] = registry[i] /\ registry[i] \in Calls
  BY DEF CallInv, Typed
<1>2. ASSUME NEW d \in Calls PROVE Running(d)' => Running(d)
  BY DEF Running
<1>3. ASSUME NEW i \in Ids, registry'[i] # Nobody
      PROVE  pc'[registry'[i]] \in {"connect", "run", "rollback"} /\ req'[registry'[i]].id = i
  <2>1. PICK d \in Calls : d = registry[i] /\ registry'[i] = d /\ Running(d) /\ req[d].id = i
    BY <1>1, <1>3 DEF CallInv, RegInv
  <2>2. Running(d)'
    BY <2>1, CallsAssumption DEF Running
  <2> QED
    BY <2>1, <2>2 DEF Running
<1>4. ASSUME NEW d \in Calls, Running(d)' PROVE registry'[req'[d].id] = d
  <2>1. Running(d) /\ registry[req[d].id] = d
    BY <1>2, <1>4 DEF CallInv, RegInv
  <2>2. pc[d] # "new"
    BY <2>1 DEF Running
  <2>3. req[d].id \in Ids
    BY <2>2, CallPlan DEF CallInv
  <2> QED
    BY <1>4, <2>1, <2>3
<1> QED
  BY <1>3, <1>4 DEF RegInv, Running

\* A call that gives up its connection and its registry entry, or had none.
LEMMA LeavesControl ==
  ASSUME CallInv, NEW c \in Calls, pc[c] # "new", req' = req, adapter' = adapter,
         \A d \in Calls \ {c} : pc'[d] = pc[d] /\ at'[d] = at[d] /\ lease'[d] = lease[d],
         lease' \in [Calls -> Connection], lease'[c] = NoLease,
         pc'[c] = "ended" \/ (pc'[c] = "orphan" /\ at'[c] <= Len(Plan(c))),
         IF Running(c) THEN registry' = [registry EXCEPT ![req[c].id] = Nobody] ELSE registry' = registry,
         cache' = cache \/ cache' = Cached(c)
  PROVE  ReqInv' /\ RegInv' /\ CacheInv' /\ LeaseInv' /\ TxInv' /\ PathInv'
<1> USE DEF CallInv
<1>1. pc'[c] # "new" /\ \A d \in Calls : pc[d] # "new" => pc'[d] # "new"
  OBVIOUS
<1>2. ReqInv'
  BY DEF ReqInv
<1>3. RegInv'
  <2>1. req[c].id \in Ids
    BY CallPlan
  <2>2. ~Running(c)'
    BY DEF Running
  <2>3. \A i \in Ids : registry[i] = c => Running(c) /\ req[c].id = i
    BY CallsAssumption DEF RegInv
  <2>4. Running(c) => registry[req[c].id] = c
    BY DEF RegInv
  <2>5. \A i \in Ids : registry'[i] = IF registry[i] = c THEN Nobody ELSE registry[i]
    BY <2>1, <2>3, <2>4 DEF Typed
  <2> QED
    BY <2>2, <2>5, RegistryKept
<1>4. CacheInv'
  BY <1>1, CachedFits
<1>5. LeaseInv'
  BY <1>1 DEF LeaseInv
<1>6. \A d \in Calls : Plan(d)' = Plan(d) /\ IsWrite(d)' = IsWrite(d) /\ Sql' = Sql
  BY PlanKept
<1>7. TxInv'
  BY <1>6 DEF TxInv, NoLease
<1>8. PathInv'
  BY <1>6 DEF PathInv
<1> QED
  BY <1>2, <1>3, <1>4, <1>5, <1>7, <1>8

LEMMA EndsControl ==
  ASSUME CallInv, NEW c \in Calls, NEW category, NEW truncated, Ends(c, category, truncated)
  PROVE  ControlInv'
<1>1. NoLease \in Connection
  BY DEF NoLease, Connection
<1>2. /\ pc[c] # "new" /\ req' = req /\ adapter' = adapter /\ pc'[c] = "ended"
      /\ \A d \in Calls \ {c} : pc'[d] = pc[d] /\ at'[d] = at[d] /\ lease'[d] = lease[d]
      /\ lease' \in [Calls -> Connection] /\ lease'[c] = NoLease
      /\ cache' = cache \/ cache' = Cached(c)
  BY <1>1 DEF Ends, EndTask, Release, CallInv, Typed, LeaseInv
<1>3. IF Running(c) THEN registry' = [registry EXCEPT ![req[c].id] = Nobody] ELSE registry' = registry
  BY DEF Ends, EndTask, Answer, Running
<1>4. ReqInv' /\ RegInv' /\ CacheInv' /\ LeaseInv' /\ TxInv' /\ PathInv'
  BY <1>2, <1>3, LeavesControl
<1> QED
  BY <1>4, EndsRelease DEF ControlInv

LEMMA GoesOnControl ==
  ASSUME CallInv, NEW c \in Calls, GoesOn(c)
  PROVE  ControlInv'
<1> USE DEF CallInv
<1>1. /\ pc[c] \in {"run", "detached"} /\ at[c] <= Len(Plan(c))
      /\ UNCHANGED <<adapter, registry, cache, idle, req>>
  BY DEF GoesOn, Working
<1>2. /\ \A d \in Calls \ {c} : pc'[d] = pc[d] /\ at'[d] = at[d]
      /\ \/ pc'[c] = pc[c] /\ at'[c] = at[c] + 1
         \/ pc'[c] = "rollback" /\ at'[c] = at[c] /\ Sql /\ IsWrite(c) /\ Step(c).kind = "write"
  BY DEF GoesOn, Typed
<1>3. pc[c] = "detached" => ~Sql
  BY DEF PathInv, Sql, SqlAdapterNames
<1>4. /\ lease' \in [Calls -> Connection]
      /\ \A d \in Calls : lease'[d].pool = lease[d].pool /\ lease'[d].cred = lease[d].cred
      /\ \A d \in Calls \ {c} : lease'[d] = lease[d]
      /\ lease'[c].tx = IF Step(c).kind = "begin" THEN TRUE
                        ELSE IF Step(c).kind = "commit" THEN FALSE ELSE lease[c].tx
  <2>1. lease \in [Calls -> Connection]
    BY DEF LeaseInv
  <2>2. \A b \in BOOLEAN :
          LET new == [lease EXCEPT ![c].tx = b] IN
          /\ new \in [Calls -> Connection] /\ new[c].tx = b
          /\ \A d \in Calls : new[d].pool = lease[d].pool /\ new[d].cred = lease[d].cred
          /\ \A d \in Calls \ {c} : new[d] = lease[d]
    BY <2>1 DEF Connection
  <2> QED
    BY <2>1, <2>2 DEF GoesOn
<1>5. /\ Plan(c)' = Plan(c) /\ Sql' = Sql /\ OwnPool' = OwnPool
      /\ \A d \in Calls : Plan(d)' = Plan(d) /\ IsWrite(d)' = IsWrite(d)
  BY <1>1, PlanKept
<1>6. ReqInv' /\ CacheInv' /\ IdleInv'
  BY <1>1, <1>2 DEF ReqInv, CacheInv, IdleInv, Typed
<1>7. RegInv'
  <2>1. pc[c] = "run" => Running(c) /\ Running(c)'
    BY <1>2 DEF Running
  <2>2. pc[c] = "detached" => ~Running(c) /\ ~Running(c)'
    BY <1>2, <1>3 DEF Running
  <2>3. \A i \in Ids : registry[i] = c => Running(c)
    BY CallsAssumption DEF RegInv
  <2> QED
    BY <1>1, <1>2, <2>1, <2>2, <2>3, RegistryKept
<1>8. LeaseInv'
  <2>1. \A d \in Calls : pc'[d] # "new" <=> pc[d] # "new"
    BY <1>1, <1>2
  <2>2. \A d \in Calls : pc'[d] \in {"run", "rollback", "detached"} <=> pc[d] \in {"run", "rollback", "detached"}
    BY <1>1, <1>2
  <2>3. \A d \in Calls : pc[d] \notin {"run", "rollback", "detached"} => lease'[d] = NoLease
    BY <1>1, <1>4 DEF LeaseInv
  <2> QED
    BY <1>1, <1>4, <2>1, <2>2, <2>3 DEF LeaseInv
<1>9. TxInv'
  <2>1. ASSUME lease'[c].tx
        PROVE  /\ at'[c] \in {2, 3} /\ Len(Plan(c)) = 3
               /\ Plan(c)[2].kind \in {"ask", "write"} /\ Plan(c)[3].kind = "commit"
    <3>1. CASE Step(c).kind = "begin"
      BY <1>1, <1>2, <3>1, CallExchange
    <3>2. CASE Step(c).kind # "begin"
      <4>1. lease[c].tx /\ Step(c).kind # "commit"
        BY <1>4, <2>1, <3>2
      <4>2. /\ at[c] \in {2, 3} /\ Len(Plan(c)) = 3
            /\ Plan(c)[2].kind \in {"ask", "write"} /\ Plan(c)[3].kind = "commit"
        BY <4>1 DEF TxInv
      <4>3. at[c] = 2
        BY <4>1, <4>2 DEF Step
      <4> QED
        BY <1>2, <4>2, <4>3
    <3> QED
      BY <3>1, <3>2
  <2>2. ASSUME NEW d \in Calls \ {c}, lease'[d].tx
        PROVE  /\ at'[d] \in {2, 3} /\ Len(Plan(d)) = 3
               /\ Plan(d)[2].kind \in {"ask", "write"} /\ Plan(d)[3].kind = "commit"
    BY <1>2, <1>4, <2>2 DEF TxInv
  <2>3. \A d \in Calls : lease'[d].tx =>
          /\ at'[d] \in {2, 3} /\ Len(Plan(d)') = 3
          /\ Plan(d)'[2].kind \in {"ask", "write"} /\ Plan(d)'[3].kind = "commit"
    BY <1>5, <2>1, <2>2
  <2> QED
    BY <2>3 DEF TxInv
<1>10. BoundInv'
  <2>1. \A q \in Calls : Leases(q)' = Leases(q)
    BY <1>4 DEF Leases
  <2> QED
    BY <1>1, <1>5, <2>1 DEF BoundInv
<1>11. PathInv'
  BY <1>1, <1>2, <1>5 DEF PathInv
<1> QED
  BY <1>6, <1>7, <1>8, <1>9, <1>10, <1>11 DEF ControlInv

\* Idle connections and the bound, when connections are only given up.
LEMMA PoolsKept ==
  ASSUME CallInv, NEW c \in Calls, idle' = idle, req' = req, adapter' = adapter,
         \A d \in Calls : pc[d] # "new" => pc'[d] # "new",
         lease' = lease \/ lease' = [lease EXCEPT ![c] = NoLease]
  PROVE  IdleInv' /\ BoundInv'
<1> USE DEF CallInv
<1>1. IdleInv'
  BY DEF IdleInv
<1>2. CASE lease' = lease
  <2>1. BoundInv'
    BY <1>2 DEF BoundInv, Leases, OwnPool
  <2> QED
    BY <1>1, <2>1
<1>3. CASE lease' = [lease EXCEPT ![c] = NoLease]
  <2>1. ASSUME NEW q \in Calls
        PROVE  /\ IsFiniteSet(Leases(q)')
               /\ IF OwnPool THEN Len(idle[q]) + Cardinality(Leases(q)') <= PoolSize ELSE idle[q] = <<>>
    <3>1. Leases(q)' = Leases(q) \ {c}
      BY <1>3, CallsAssumption DEF Leases, LeaseInv, NoLease
    <3>2. IsFiniteSet(Leases(q)) /\ Cardinality(Leases(q)) \in Nat
      BY FS_CardinalityType DEF BoundInv
    <3>3. /\ IsFiniteSet(Leases(q) \ {c}) /\ Cardinality(Leases(q) \ {c}) \in Nat
          /\ Cardinality(Leases(q) \ {c}) <= Cardinality(Leases(q))
      <4>1. /\ IsFiniteSet(Leases(q) \ {c})
            /\ Cardinality(Leases(q) \ {c}) =
                 IF c \in Leases(q) THEN Cardinality(Leases(q)) - 1 ELSE Cardinality(Leases(q))
        BY <3>2, FS_RemoveElement
      <4>2. Cardinality(Leases(q) \ {c}) \in Nat
        BY <4>1, FS_CardinalityType
      <4> QED
        BY <3>2, <4>1, <4>2
    <3>4. Len(idle[q]) \in Nat /\ PoolSize \in Nat
      BY CallsAssumption DEF IdleInv
    <3>5. IF OwnPool THEN Len(idle[q]) + Cardinality(Leases(q)) <= PoolSize ELSE idle[q] = <<>>
      BY DEF BoundInv
    <3>6. IF OwnPool THEN Len(idle[q]) + Cardinality(Leases(q) \ {c}) <= PoolSize ELSE idle[q] = <<>>
      BY <3>2, <3>3, <3>4, <3>5
    <3> QED
      BY <3>1, <3>3, <3>6
  <2>2. BoundInv'
    BY <2>1 DEF BoundInv, OwnPool
  <2> QED
    BY <1>1, <2>2
<1> QED
  BY <1>2, <1>3

LEMMA InterruptControl ==
  ASSUME CallInv, NEW c \in Calls, NEW cancelled \in BOOLEAN, Interrupt(c, cancelled)
  PROVE  ControlInv'
<1> USE DEF CallInv
<1>1. /\ Running(c) /\ pc[c] # "new" /\ UNCHANGED <<adapter, cache, idle, req, at>>
      /\ registry' = [registry EXCEPT ![req[c].id] = Nobody]
      /\ \A d \in Calls \ {c} : pc'[d] = pc[d]
  BY DEF Interrupt, Running, Typed
<1>2. \A d \in Calls : Plan(d)' = Plan(d) /\ IsWrite(d)' = IsWrite(d) /\ Sql' = Sql
  BY <1>1, PlanKept
<1>3. CASE adapter = "hbase" /\ pc[c] = "run"
  <2>1. pc'[c] = "detached" /\ lease' = lease
    BY <1>3 DEF Interrupt, Typed
  <2>2. \A d \in Calls : pc[d] # "new" <=> pc'[d] # "new"
    BY <1>1, <2>1
  <2>3. req[c].id \in Ids /\ registry[req[c].id] = c
    BY <1>1, CallPlan DEF RegInv
  <2>4. RegInv'
    <3>1. ~Running(c)'
      BY <2>1 DEF Running
    <3>2. \A i \in Ids : registry[i] = c => req[c].id = i
      BY CallsAssumption DEF RegInv
    <3>3. \A i \in Ids : registry'[i] = IF registry[i] = c THEN Nobody ELSE registry[i]
      BY <1>1, <2>3, <3>2 DEF Typed
    <3> QED
      BY <1>1, <3>1, <3>3, RegistryKept
  <2>5. ReqInv' /\ CacheInv' /\ LeaseInv' /\ PathInv'
    <3>1. ReqInv' /\ CacheInv'
      BY <1>1, <1>2, <2>2 DEF ReqInv, CacheInv, Typed
    <3>2. \A d \in Calls : pc'[d] \in {"run", "rollback", "detached"} <=> pc[d] \in {"run", "rollback", "detached"}
      BY <1>1, <1>3, <2>1
    <3>3. LeaseInv'
      BY <1>1, <2>1, <2>2, <3>2 DEF LeaseInv
    <3>4. PathInv'
      BY <1>1, <1>2, <1>3, <2>1 DEF PathInv
    <3> QED
      BY <3>1, <3>3, <3>4
  <2>6. TxInv'
    BY <1>1, <1>2, <2>1 DEF TxInv
  <2>7. IdleInv' /\ BoundInv'
    BY <1>1, <2>1, <2>2, PoolsKept
  <2> QED
    BY <2>4, <2>5, <2>6, <2>7 DEF ControlInv
<1>4. CASE ~(adapter = "hbase" /\ pc[c] = "run")
  <2>1. lease' = [lease EXCEPT ![c] = NoLease] /\ pc'[c] = IF InFlight(c) THEN "orphan" ELSE "ended"
    BY <1>4 DEF Interrupt, Typed
  <2>2. /\ lease' \in [Calls -> Connection] /\ lease'[c] = NoLease
        /\ \A d \in Calls \ {c} : lease'[d] = lease[d]
    BY <2>1 DEF LeaseInv, NoLease, Connection
  <2>3. pc'[c] = "ended" \/ (pc'[c] = "orphan" /\ at'[c] <= Len(Plan(c)))
    BY <1>1, <2>1 DEF InFlight
  <2>4. ReqInv' /\ RegInv' /\ CacheInv' /\ LeaseInv' /\ TxInv' /\ PathInv'
    BY <1>1, <2>2, <2>3, LeavesControl
  <2>5. IdleInv' /\ BoundInv'
    BY <1>1, <2>1, <2>3, PoolsKept
  <2> QED
    BY <2>4, <2>5 DEF ControlInv
<1> QED
  BY <1>3, <1>4

LEMMA LateControl ==
  ASSUME CallInv, NEW c \in Calls, Late(c)
  PROVE  ControlInv'
<1> USE DEF CallInv
<1>1. /\ pc[c] = "orphan" /\ pc'[c] = "ended" /\ UNCHANGED <<adapter, registry, cache, idle, req, lease>>
      /\ \A d \in Calls \ {c} : pc'[d] = pc[d] /\ at'[d] = at[d]
  BY DEF Late, Typed
<1>2. lease[c] = NoLease /\ lease \in [Calls -> Connection] /\ ~Running(c)
  BY <1>1 DEF LeaseInv, Running
<1>3. ReqInv' /\ RegInv' /\ CacheInv' /\ LeaseInv' /\ TxInv' /\ PathInv'
  BY <1>1, <1>2, LeavesControl
<1>4. IdleInv' /\ BoundInv'
  BY <1>1, PoolsKept
<1> QED
  BY <1>3, <1>4 DEF ControlInv

LEMMA CallStepInv ==
  ASSUME CallInv, NEW c \in Calls, CallStep(c)
  PROVE  CallInv'
<1>1. Typed'
  BY StepTyped DEF CallInv
<1>2. ControlInv'
  <2>1. ASSUME Ending(c) PROVE ControlInv'
    <3>1. PICK category, truncated : Ends(c, category, truncated)
      BY <2>1, EndingEnds DEF CallInv
    <3> QED
      BY <3>1, EndsControl
  <2>2. ASSUME Exchanging(c) PROVE ControlInv'
    BY <2>2, ExchangingGoesOn, GoesOnControl DEF CallInv
  <2> QED
    BY <2>1, <2>2, Steps, StartControl, ConnectControl, InterruptControl, LateControl
<1> QED
  BY <1>1, <1>2 DEF CallInv, ControlInv

LEMMA InitCallInv == Init => CallInv
<1> SUFFICES ASSUME Init PROVE CallInv
  OBVIOUS
<1>1. Typed
  BY CallsAssumption DEF Init, Typed, Writers, Stations
<1>2. ReqInv /\ RegInv /\ CacheInv /\ PathInv
  BY DEF Init, ReqInv, RegInv, CacheInv, PathInv, Running
<1>3. LeaseInv
  BY DEF Init, LeaseInv, NoLease, Connection
<1>4. TxInv
  BY DEF Init, TxInv, NoLease
<1>5. IdleInv
  BY DEF Init, IdleInv
<1>6. BoundInv
  <2>1. \A p \in Calls : Leases(p) = {}
    BY CallsAssumption DEF Init, Leases, NoLease
  <2>2. \A p \in Calls : IsFiniteSet(Leases(p)) /\ Cardinality(Leases(p)) = 0
    BY <2>1, FS_EmptySet
  <2>3. PoolSize \in Nat \ {0} /\ \A p \in Calls : idle[p] = <<>> /\ Len(idle[p]) = 0
    BY CallsAssumption DEF Init
  <2> QED
    BY <2>2, <2>3 DEF BoundInv
<1> QED
  BY <1>1, <1>2, <1>3, <1>4, <1>5, <1>6 DEF CallInv

\* A step that is not a call's changes only the tokens or the cache.
LEMMA OtherStepInv ==
  ASSUME CallInv,
         UNCHANGED <<adapter, table, registry, idle, req, pc, at, lease, staged, seen, result, faults,
                     done, mistaken, clobbered>>,
         token' \in [Calls -> BOOLEAN], invalidations' \in 0..MaxInvalidations,
         cache' = cache \/ cache' = [v \in Creds |-> Nobody]
  PROVE  CallInv'
<1> USE DEF CallInv
<1>1. Typed'
  BY DEF Typed
<1>2. ReqInv' /\ RegInv' /\ CacheInv' /\ LeaseInv' /\ IdleInv'
  BY DEF ReqInv, RegInv, Running, CacheInv, LeaseInv, IdleInv
<1>3. \A d \in Calls : Plan(d)' = Plan(d) /\ IsWrite(d)' = IsWrite(d) /\ Sql' = Sql
  BY PlanKept
<1>4. TxInv' /\ PathInv'
  BY <1>3 DEF TxInv, PathInv
<1>5. BoundInv'
  BY DEF BoundInv, Leases, OwnPool
<1> QED
  BY <1>1, <1>2, <1>4, <1>5

LEMMA NextCallInv == CallInv /\ [Next]_vars => CallInv'
<1> SUFFICES ASSUME CallInv, [Next]_vars PROVE CallInv'
  OBVIOUS
<1>1. CASE \E c \in Calls : CallStep(c)
  BY <1>1, CallStepInv
<1>2. ASSUME NEW i \in Ids, Cancel(i) PROVE CallInv'
  BY <1>2, OtherStepInv DEF Cancel, NoEffect, CallInv, Typed
<1>3. CASE invalidate_connection
  <2>1. invalidations' \in 0..MaxInvalidations
    BY <1>3, CallsAssumption DEF invalidate_connection, CallInv, Typed
  <2> QED
    BY <1>3, <2>1, OtherStepInv DEF invalidate_connection, NoEffect, CallInv, Typed
<1>4. CASE UNCHANGED vars
  BY <1>4, OtherStepInv DEF vars, CallInv, Typed
<1> QED
  BY <1>1, <1>2, <1>3, <1>4 DEF Next

\* The variables keep their types, no pool of an adapter's own has more than PoolSize
\* connections, and a call can be cancelled under its request id exactly as long as it runs
\* (CancellationRegistry::run and HttpRuntime::run against calls under the same id).
THEOREM WellFormed == Spec => []CallsWellFormed
<1>1. CallInv => CallsWellFormed
  <2> SUFFICES ASSUME CallInv PROVE CallsWellFormed
    OBVIOUS
  <2>1. RegistryFollowsCalls
    BY CallPlan, CallsAssumption DEF CallInv, RegInv, RegistryFollowsCalls, Running
  <2>2. \A c \in Calls : Len(idle[c]) <= PoolSize /\ lease[c].pool \in Calls \cup {Nobody}
    <3> TAKE c \in Calls
    <3>1. lease[c].pool \in Calls \cup {Nobody}
      BY DEF CallInv, LeaseInv, Connection
    <3>2. /\ Len(idle[c]) \in Nat /\ PoolSize \in Nat /\ Cardinality(Leases(c)) \in Nat
      BY FS_CardinalityType, CallsAssumption DEF CallInv, IdleInv, BoundInv
    <3>3. CASE OwnPool
      <4>1. Len(idle[c]) + Cardinality(Leases(c)) <= PoolSize
        BY <3>3 DEF CallInv, BoundInv
      <4> QED
        BY <3>1, <3>2, <4>1
    <3>4. CASE ~OwnPool
      <4>1. idle[c] = <<>>
        BY <3>4 DEF CallInv, BoundInv
      <4>2. Len(idle[c]) = 0
        BY <4>1
      <4> QED
        BY <3>1, <3>2, <4>2
    <3> QED
      BY <3>3, <3>4
  <2>3. TypeOK
    BY <2>2 DEF CallInv, Typed, TypeOK, Writers
  <2> QED
    BY <2>1, <2>3 DEF CallsWellFormed
<1> QED
  BY <1>1, InitCallInv, NextCallInv, PTL DEF Spec

\* Through rotations, invalidations and calls that still carry an old credential, a call uses
\* a connection that was opened with its own (connection_cache_key of the packs).
THEOREM OwnCredentials == Spec => []OwnCredential
<1>1. CallInv => OwnCredential
  BY DEF CallInv, LeaseInv, OwnCredential
<1> QED
  BY <1>1, InitCallInv, NextCallInv, PTL DEF Spec

\* A connection in the pool of the SQL Server or the HBase adapter has no open transaction and
\* no unread rows, however the calls that used it ended (mark_reusable, PooledClient).
THEOREM IdleClean == Spec => []IdleIsClean
<1>1. CallInv => IdleIsClean
  <2> SUFFICES ASSUME CallInv, NEW p \in Calls, NEW i \in DOMAIN idle[p]
               PROVE  ~idle[p][i].tx /\ ~idle[p][i].unread
    BY DEF IdleIsClean
  <2>1. i \in 1..Len(idle[p])
    BY DEF CallInv, IdleInv
  <2> QED
    BY <2>1 DEF CallInv, IdleInv
<1> QED
  BY <1>1, InitCallInv, NextCallInv, PTL DEF Spec
-----------------------------------------------------------------------------
(***************************************************************************)
(* Which exchanges write.  An operation writes in its last exchange, inside *)
(* a transaction before the last, or record by record.                     *)
(***************************************************************************)
OneByOne(a, op) == (a \in {"cql", "couchbase"} /\ op = "insert") \/ (a = "weaviate" /\ op = "delete")

AskedOneByOne(a, op) == a = "weaviate" /\ op = "vector_upsert"

Committed(plan) == plan[Len(plan)].kind = "commit"

WritesFit(a, op, s, plan) ==
    \A i \in 1..Len(plan) :
        /\ plan[i].kind = "commit" => i = Len(plan)
        /\ plan[i].kind = "write" /\ ~Committed(plan) =>
             /\ a # "oracle" /\ (a = "weaviate" => OneByOne(a, op) \/ AskedOneByOne(a, op))
             /\ i = Len(plan) \/ OneByOne(a, op) \/ AskedOneByOne(a, op)
             /\ AskedOneByOne(a, op) => i % 2 # 1
             /\ a \in SqlAdapterNames => op = "insert" \/ BoundedBySql(a, op)
             /\ op = "insert" => a \in InsertsIfAbsent \cup {"hbase", "milvus", "splunk"}
        /\ plan[i].kind = "write" /\ Committed(plan) => i = Len(plan) - 1 /\ plan[i].recs = Elements(s)

LEMMA TupleWrites ==
  ASSUME NEW a, NEW op, NEW s, NEW x, x \in {Ask, Write(Elements(s))}
  PROVE  /\ WritesFit(a, op, s, <<>>)
         /\ WritesFit(a, op, s, <<Ask>>) /\ WritesFit(a, op, s, <<Ask, Ask>>)
         /\ WritesFit(a, op, s, <<x, Commit>>) /\ WritesFit(a, op, s, <<Begin, x, Commit>>)
<1>1. x.kind \in {"ask", "write"} /\ (x.kind = "write" => x.recs = Elements(s))
  BY ExchangesTyped
<1>2. Ask.kind = "ask" /\ Commit.kind = "commit" /\ Begin.kind = "begin"
  BY ExchangesTyped
<1>3. WritesFit(a, op, s, <<>>) /\ WritesFit(a, op, s, <<Ask>>) /\ WritesFit(a, op, s, <<Ask, Ask>>)
  BY <1>2 DEF WritesFit
<1>4. WritesFit(a, op, s, <<x, Commit>>)
  BY <1>1, <1>2 DEF WritesFit, Committed
<1>5. WritesFit(a, op, s, <<Begin, x, Commit>>)
  BY <1>1, <1>2 DEF WritesFit, Committed
<1> QED
  BY <1>3, <1>4, <1>5

LEMMA AtOnceWrites ==
  ASSUME NEW a, NEW op, NEW s, NEW plan, AtOnce(plan, s),
         a \notin {"oracle", "weaviate"}, ~AskedOneByOne(a, op),
         a \in SqlAdapterNames => op = "insert" \/ BoundedBySql(a, op),
         op = "insert" => a \in InsertsIfAbsent \cup {"hbase", "milvus", "splunk"}
  PROVE  WritesFit(a, op, s, plan)
<1>1. Ask.kind = "ask" /\ Write(Elements(s)).kind = "write"
  BY ExchangesTyped
<1>2. CASE plan = <<Write(Elements(s))>>
  BY <1>1, <1>2 DEF WritesFit, Committed
<1>3. CASE plan = <<Ask, Write(Elements(s))>>
  BY <1>1, <1>3 DEF WritesFit, Committed
<1> QED
  BY <1>2, <1>3 DEF AtOnce

LEMMA EachWrites ==
  ASSUME NEW a, NEW op, NEW S, NEW s \in Seq(S), s # <<>>
  PROVE  /\ OneByOne(a, op) => WritesFit(a, op, s, Each(s))
         /\ AskedOneByOne(a, op) => WritesFit(a, op, s, AskEach(s))
<1>1. Len(s) \in Nat \ {0}
  OBVIOUS
<1>2. OneByOne(a, op) \/ AskedOneByOne(a, op) => 
        /\ a # "oracle" /\ a \notin SqlAdapterNames
        /\ op = "insert" => a \in InsertsIfAbsent
        /\ ~(OneByOne(a, op) /\ AskedOneByOne(a, op))
  BY DEF OneByOne, AskedOneByOne, SqlAdapterNames, InsertsIfAbsent
<1>3. ASSUME OneByOne(a, op) PROVE WritesFit(a, op, s, Each(s))
  <2>1. Len(Each(s)) = Len(s) /\ \A i \in 1..Len(s) : Each(s)[i] = Write({s[i]})
    BY EachTyped
  <2>2. \A i \in 1..Len(s) : Each(s)[i].kind = "write"
    <3> TAKE i \in 1..Len(s)
    <3>1. Each(s)[i] = Write({s[i]})
      BY <2>1
    <3> QED
      BY <3>1, ExchangesTyped
  <2>3. ~Committed(Each(s))
    BY <1>1, <2>1, <2>2 DEF Committed
  <2> QED
    BY <1>2, <1>3, <2>1, <2>2, <2>3 DEF WritesFit
<1>4. ASSUME AskedOneByOne(a, op) PROVE WritesFit(a, op, s, AskEach(s))
  <2>1. /\ Len(AskEach(s)) = 2 * Len(s)
        /\ \A i \in 1..(2 * Len(s)) :
              (i % 2 = 1 /\ AskEach(s)[i] = Ask) \/ (i % 2 # 1 /\ \E R : AskEach(s)[i] = Write(R))
    BY AskEachTyped
  <2>2. \A i \in 1..(2 * Len(s)) : AskEach(s)[i].kind = IF i % 2 = 1 THEN "ask" ELSE "write"
    <3> TAKE i \in 1..(2 * Len(s))
    <3>1. (i % 2 = 1 /\ AskEach(s)[i] = Ask) \/ (i % 2 # 1 /\ \E R : AskEach(s)[i] = Write(R))
      BY <2>1
    <3> QED
      BY <3>1, ExchangesTyped
  <2>3. 2 * Len(s) \in 1..(2 * Len(s))
    BY <1>1
  <2>4. ~Committed(AskEach(s))
    BY <2>1, <2>2, <2>3 DEF Committed
  <2>5. \A i \in 1..(2 * Len(s)) : AskEach(s)[i].kind = "write" => i % 2 # 1
    BY <2>2
  <2>6. \A i \in 1..(2 * Len(s)) : AskEach(s)[i].kind # "commit"
    BY <2>2
  <2> QED
    BY <1>2, <1>4, <2>1, <2>4, <2>5, <2>6 DEF WritesFit
<1> QED
  BY <1>3, <1>4

LEMMA PlansWrite ==
  ASSUME NEW a \in AdapterNames, NEW op \in Operations, NEW S, NEW s \in Seq(S), s # <<>>
  PROVE  WritesFit(a, op, s, PlanOf(a, op, s))
<1>1. PICK plan : plan = PlanOf(a, op, s)
  OBVIOUS
<1>2. plan = NoPlan \/ plan = <<Ask>> \/ plan = <<Ask, Ask>> => WritesFit(a, op, s, plan)
  BY TupleWrites DEF NoPlan
<1>3. CASE a \in SqlAdapterNames
  <2>1. Reading(plan) \/ Transaction(plan, s) => WritesFit(a, op, s, plan)
    BY TupleWrites DEF Reading, Transaction
  <2>2. ASSUME AtOnce(plan, s), op = "insert" \/ BoundedBySql(a, op), a # "oracle"
        PROVE  WritesFit(a, op, s, plan)
    <3>1. ~AskedOneByOne(a, op) /\ a \in InsertsIfAbsent /\ a # "weaviate"
      BY <1>3 DEF AskedOneByOne, SqlAdapterNames, InsertsIfAbsent
    <3> QED
      BY <2>2, <3>1, AtOnceWrites
  <2>3. a = "oracle" => plan = NoPlan \/ plan = <<Ask>> \/ Transaction(plan, s)
    <3>1. InTransaction(s) = <<Begin, Write(Elements(s)), Commit>>
      BY DEF InTransaction
    <3>2. Tail(InTransaction(s)) = <<Write(Elements(s)), Commit>>
      BY <3>1
    <3> QED
      BY <1>1, <3>2 DEF PlanOf, SqlPlan, SqlAdapterNames, OracleExecute, OracleQueryBuilt, OracleNativeQuery,
                   OracleTransactionally, OracleNativeExecute, Transaction
  <2> QED
    BY <1>1, <1>2, <1>3, <2>1, <2>2, <2>3, SqlPlans
<1>4. CASE a \in DocumentAdapterNames
  <2>1. a \notin SqlAdapterNames /\ ~AskedOneByOne(a, op) /\ a \notin {"oracle", "weaviate"}
    BY <1>4 DEF SqlAdapterNames, DocumentAdapterNames, AskedOneByOne
  <2>2. {"mongodb", "hbase"} \subseteq InsertsIfAbsent \cup {"hbase", "milvus", "splunk"}
    BY DEF InsertsIfAbsent
  <2>3. ASSUME AtOnce(plan, s), op = "insert" => a \in {"mongodb", "hbase"} PROVE WritesFit(a, op, s, plan)
    BY <2>1, <2>2, <2>3, AtOnceWrites
  <2>4. a \in {"cql", "couchbase"} /\ op = "insert" /\ plan = Each(s) => WritesFit(a, op, s, plan)
    BY EachWrites DEF OneByOne
  <2> QED
    BY <1>1, <1>2, <1>4, <2>3, <2>4, DocumentPlans
<1>5. CASE a \in SearchAdapterNames \cup TimeSeriesAdapterNames
  <2>1. a \notin SqlAdapterNames /\ a # "oracle" /\ (a # "weaviate" => ~AskedOneByOne(a, op))
    BY <1>5 DEF SqlAdapterNames, SearchAdapterNames, TimeSeriesAdapterNames, AskedOneByOne
  <2>2. {"elasticsearch", "milvus", "splunk"} \subseteq InsertsIfAbsent \cup {"hbase", "milvus", "splunk"}
    BY DEF InsertsIfAbsent
  <2>3. ASSUME AtOnce(plan, s), a # "weaviate", op = "insert" => a \in {"elasticsearch", "milvus", "splunk"}
        PROVE  WritesFit(a, op, s, plan)
    BY <2>1, <2>2, <2>3, AtOnceWrites
  <2>4. /\ a = "weaviate" /\ op = "delete" /\ plan = Each(s) => WritesFit(a, op, s, plan)
        /\ a = "weaviate" /\ op = "vector_upsert" /\ plan = AskEach(s) => WritesFit(a, op, s, plan)
    BY EachWrites DEF OneByOne, AskedOneByOne
  <2> QED
    BY <1>1, <1>2, <1>5, <2>3, <2>4, HttpPlans
<1> QED
  BY <1>1, <1>3, <1>4, <1>5 DEF AdapterNames
-----------------------------------------------------------------------------
(***************************************************************************)
(* Failures in doubt.  When the database may have written, the category    *)
(* that an adapter gives to the failure, and the registry after it, is an  *)
(* unknown outcome; except for the faults that are taken for refusals.     *)
(***************************************************************************)
Doubted(category) == category \in {"UnknownOutcome", "Timeout", "Unavailable", "Internal"}

LEMMA DoubtIsUnknown ==
  ASSUME NEW category, Doubted(category)
  PROVE  classify_operation_error(category, TRUE) = "UnknownOutcome"
BY DEF Doubted, classify_operation_error

\* The faults that may leave something of a write.
MayLeave(a, f) ==
    f \in {"lost", "ambiguous", "garbled", "partial", "misread", "mixed"} \/ (f = "down" /\ a \notin SqlAdapterNames)

Mistakes(a, f) ==
    \/ f = "garbled" /\ a \in {"mysql", "sqlserver", "cql", "mongodb", "elasticsearch",
                               "milvus", "pinecone", "qdrant", "splunk", "influxdb"}
    \/ f = "lost" /\ a \in {"influxdb", "prometheus"}
    \/ f = "ambiguous" /\ a = "cockroachdb"
    \/ f \in {"misread", "mixed"}

\* The exchange that failed may have written.
LEMMA DoubtInExchange ==
  ASSUME NEW a \in AdapterNames, NEW op, operation_is_write(op), NEW i, NEW kind \in {"write", "commit"},
         NEW f, MayMeet(a, op, kind, f), MayLeave(a, f), ~Mistakes(a, f), NEW written,
         CanExchange(a, kind), kind = "write" => a # "oracle",
         AskedOneByOne(a, op) => i % 2 # 1,
         a = "weaviate" => OneByOne(a, op) \/ AskedOneByOne(a, op)
  PROVE  Doubted(FailsOf(a, op, i, kind, written, f))
<1>1. CASE a \in SqlAdapterNames
  <2>1. f \in {"lost", "ambiguous", "garbled"} /\ (f = "ambiguous" => a = "cockroachdb")
    BY <1>1 DEF MayMeet, MayLeave, Mistakes, SqlAdapterNames, SaysPartial, SaysAmbiguous,
                SearchAdapterNames, TimeSeriesAdapterNames
  <2>2. a # "oracle" => f = "lost" \/ (f = "garbled" /\ a \in {"postgresql", "cockroachdb"})
    BY <1>1, <2>1 DEF Mistakes, SqlAdapterNames
  <2>3. /\ map_pg_error("lost", TRUE) = "UnknownOutcome" /\ map_pg_error("garbled", TRUE) = "UnknownOutcome"
        /\ map_mysql_error("lost", TRUE) = "UnknownOutcome"
        /\ map_tds_error("lost", TRUE) = "UnknownOutcome"
    BY DEF map_pg_error, map_mysql_error, map_tds_error, Unsure
  <2>4. unknown_write_error("commit", f, TRUE) = "UnknownOutcome"
    BY DEF unknown_write_error
  <2>5. FailsOf(a, op, i, kind, written, f) = SqlFails(a, kind, f, TRUE)
    BY <1>1 DEF FailsOf, operation_is_write
  <2>6. a = "oracle" => kind = "commit"
    OBVIOUS
  <2>7. SqlFails(a, kind, f, TRUE) = "UnknownOutcome"
    BY <1>1, <2>2, <2>3, <2>4, <2>6 DEF SqlFails, SqlAdapterNames
  <2> QED
    BY <2>5, <2>7 DEF Doubted
<1>2. ASSUME a \notin SqlAdapterNames PROVE kind = "write"
  BY <1>2 DEF CanExchange
<1>3. CASE a \in DocumentAdapterNames
  <2>1. FailsOf(a, op, i, kind, written, f) = DocumentFails(a, op, i, "write", f)
    BY <1>2, <1>3 DEF FailsOf, SqlAdapterNames, DocumentAdapterNames
  <2>2. f \in {"lost", "ambiguous", "garbled", "partial", "down"}
    BY DEF MayLeave, Mistakes
  <2>3. CASE a = "cql"
    <3>1. f \in {"lost", "ambiguous", "down"}
      BY <2>2, <2>3 DEF Mistakes, MayMeet, SaysPartial
    <3>2. conditional_write(f, TRUE) = "UnknownOutcome"
      BY <3>1 DEF conditional_write, map_attempt_error, map_db_error, Unsure
    <3> QED
      BY <2>1, <2>3, <3>2 DEF DocumentFails, CqlFails, Doubted
  <2>4. CASE a = "mongodb"
    <3>1. f \in {"lost", "ambiguous", "partial", "down"}
      BY <2>2, <2>4 DEF Mistakes
    <3>2. map_mongo_error(f, TRUE) = "UnknownOutcome"
      BY <3>1 DEF map_mongo_error, map_mongo_code, Unsure
    <3> QED
      BY <2>1, <2>4, <3>2 DEF DocumentFails, Doubted
  <2>5. CASE a = "couchbase"
    <3>1. f # "partial"
      BY <2>5 DEF MayMeet, SaysPartial
    <3>2. map_couchbase_error(f, TRUE) = "UnknownOutcome"
      BY <2>2, <3>1 DEF map_couchbase_error, Unsure
    <3> QED
      BY <2>1, <2>5, <3>2 DEF DocumentFails, CouchbaseFails, Doubted
  <2>6. CASE a = "hbase"
    <3>1. f # "ambiguous"
      BY <2>6 DEF MayMeet, SaysAmbiguous, SearchAdapterNames, TimeSeriesAdapterNames
    <3>2. map_thrift_error(f, TRUE) = "UnknownOutcome"
      BY <2>2, <3>1 DEF map_thrift_error, Unsure
    <3> QED
      BY <2>1, <2>6, <3>2 DEF DocumentFails, Doubted
  <2> QED
    BY <1>3, <2>3, <2>4, <2>5, <2>6 DEF DocumentAdapterNames
<1>4. CASE a \in SearchAdapterNames \cup TimeSeriesAdapterNames
  <2>1. a \notin SqlAdapterNames /\ a \notin DocumentAdapterNames
    BY <1>4 DEF SqlAdapterNames, DocumentAdapterNames, SearchAdapterNames, TimeSeriesAdapterNames
  <2>2. FailsOf(a, op, i, kind, written, f) = HttpFails(a, op, i, "write", written, f)
    BY <1>2, <2>1 DEF FailsOf
  <2>3. f \in {"lost", "ambiguous", "garbled", "partial", "down"}
    BY DEF MayLeave, Mistakes
  <2>4. /\ \A g \in {"lost", "ambiguous", "down"} : Doubted(map_reqwest_error(g)) /\ Doubted(send_json(g))
        /\ \A g \in {"ambiguous", "down"} : Doubted(checked(g))
    BY DEF map_reqwest_error, map_http_status, send_json, checked, map_reqwest, Doubted
  <2>5. Doubted("UnknownOutcome")
    BY DEF Doubted
  <2>6. CASE a = "weaviate"
    <3>1. f # "partial" /\ op \in {"delete", "vector_upsert"} /\ (op = "delete" => f # "garbled")
      BY <2>6 DEF MayMeet, SaysPartial, OneByOne, AskedOneByOne
    <3>2. op = "delete" => Doubted(WeaviateDeleteFails(written, f))
      BY <2>3, <2>4, <2>5, <3>1 DEF WeaviateDeleteFails
    <3>3. op = "vector_upsert" => Doubted(WeaviateUpsertFails(i, f))
      BY <2>3, <2>4, <2>5, <2>6, <3>1 DEF WeaviateUpsertFails, AskedOneByOne
    <3> QED
      BY <2>2, <2>6, <3>1, <3>2, <3>3 DEF HttpFails, WeaviateFails
  <2>7. CASE a \in {"influxdb", "prometheus"}
    <3>1. f \in {"ambiguous", "partial", "down"}
      BY <2>3, <2>7 DEF Mistakes, MayMeet
    <3> QED
      BY <2>2, <2>4, <2>5, <2>7, <3>1 DEF HttpFails, influx_write_error, prometheus_write_error
  <2>8. CASE a \in {"elasticsearch", "milvus", "pinecone"}
    <3>1. f # "garbled"
      BY <2>8 DEF Mistakes
    <3> QED
      BY <2>2, <2>3, <2>4, <2>5, <2>8, <3>1
         DEF HttpFails, ElasticBulkFails, MilvusFails, check_milvus_response, PineconeFails
  <2>9. CASE a \in {"qdrant", "splunk"}
    <3>1. f \notin {"garbled", "partial"}
      BY <2>9 DEF Mistakes, MayMeet, SaysPartial
    <3> QED
      BY <2>2, <2>3, <2>4, <2>5, <2>9, <3>1
         DEF HttpFails, ensure_qdrant_write_completed, ensure_hec_success
  <2> QED
    BY <1>4, <2>6, <2>7, <2>8, <2>9 DEF SearchAdapterNames, TimeSeriesAdapterNames
<1> QED
  BY <1>1, <1>3, <1>4 DEF AdapterNames

\* An earlier exchange of the call has written.
LEMMA DoubtAfterWrite ==
  ASSUME NEW a, NEW op, NEW i \in Nat, NEW kind \in {"ask", "write"}, NEW f, MayMeet(a, op, kind, f),
         \/ OneByOne(a, op) /\ i > 1
         \/ AskedOneByOne(a, op) /\ i > 2
  PROVE  Doubted(FailsOf(a, op, i, kind, TRUE, f))
<1>1. CASE a \in {"cql", "couchbase"}
  <2>1. op = "insert" /\ i > 1
    BY <1>1 DEF OneByOne, AskedOneByOne
  <2>2. FailsOf(a, op, i, kind, TRUE, f) = DocumentFails(a, op, i, kind, f)
    BY <1>1 DEF FailsOf, SqlAdapterNames, DocumentAdapterNames
  <2> QED
    BY <1>1, <2>1, <2>2 DEF DocumentFails, CqlFails, CouchbaseFails, Doubted
<1>2. CASE a = "weaviate"
  <2>1. FailsOf(a, op, i, kind, TRUE, f) = WeaviateFails(op, i, TRUE, f)
    BY <1>2 DEF FailsOf, SqlAdapterNames, DocumentAdapterNames, HttpFails
  <2>2. map_reqwest_error("lost") = "Unavailable"
    BY DEF map_reqwest_error
  <2>3. CASE op = "delete"
    BY <2>1, <2>2, <2>3 DEF WeaviateFails, WeaviateDeleteFails, Doubted
  <2>4. CASE op = "vector_upsert"
    <3>1. i > 2
      BY <2>4 DEF OneByOne
    <3>2. Doubted(WeaviateUpsertFails(i, f))
      BY <2>2, <3>1 DEF WeaviateUpsertFails, Doubted
    <3> QED
      BY <2>1, <2>4, <3>2 DEF WeaviateFails
  <2> QED
    BY <1>2, <2>3, <2>4 DEF OneByOne, AskedOneByOne
<1> QED
  BY <1>1, <1>2 DEF OneByOne, AskedOneByOne
-----------------------------------------------------------------------------
(***************************************************************************)
(* What a call has written.                                                *)
(***************************************************************************)
\* Beyond the exchange that writes, or beyond the first of several.
Begun(c) ==
    \/ at[c] > Len(Plan(c))
    \/ OneByOne(adapter, Op(c)) /\ at[c] > 1
    \/ AskedOneByOne(adapter, Op(c)) /\ at[c] > 2

CallWrites(c) ==
    /\ pc[c] \in {"new", "connect"} => at[c] = 1 /\ done[c] = {} /\ staged[c] = {}
    /\ pc[c] \in {"new", "connect", "run", "rollback"} => result[c] = "none"
    /\ pc[c] = "rollback" => done[c] = {}
    /\ pc[c] = "ended" => staged[c] = {}
    /\ pc[c] = "orphan" => IsWrite(c) /\ ~Refused(c)
    /\ pc[c] \in {"orphan", "detached"} /\ IsWrite(c) => result[c] = "UnknownOutcome"
    /\ staged[c] # {} => InTx(c) /\ at[c] <= Len(Plan(c))
    /\ done[c] # {} => IsWrite(c)
    /\ done[c] # {} /\ pc[c] # "ended" => Begun(c) /\ ~Refused(c)
    /\ Definite(result[c]) /\ c \notin mistaken => done[c] = {}

\* No more than the request names and allows; a transaction beyond that is rolled back.
CallBounded(c) ==
    /\ done[c] \subseteq Elements(req[c].recs) /\ staged[c] \subseteq Elements(req[c].recs)
    /\ Cardinality(done[c]) <= req[c].limit
    /\ pc[c] # "rollback" => Cardinality(staged[c]) <= req[c].limit

WriteInv == \A c \in Calls : CallWrites(c) /\ CallBounded(c)

LEMMA CallWritesFit ==
  ASSUME CallInv, NEW c \in Calls, pc[c] # "new"
  PROVE  WritesFit(adapter, Op(c), req[c].recs, Plan(c)) /\ req[c].recs # <<>>
<1>1. req[c].recs # <<>>
  BY CallPlan DEF CallInv, Request
<1> QED
  BY <1>1, CallPlan, PlansWrite DEF CallInv

\* The exchanges of a call that write.
LEMMA WriteExchange ==
  ASSUME CallInv, NEW c \in Calls, pc[c] # "new", at[c] <= Len(Plan(c))
  PROVE  /\ Step(c).kind = "commit" => at[c] = Len(Plan(c))
         /\ Step(c).kind = "write" /\ ~InTx(c) =>
              /\ adapter # "oracle"
              /\ adapter = "weaviate" => OneByOne(adapter, Op(c)) \/ AskedOneByOne(adapter, Op(c))
              /\ at[c] = Len(Plan(c)) \/ OneByOne(adapter, Op(c)) \/ AskedOneByOne(adapter, Op(c))
              /\ AskedOneByOne(adapter, Op(c)) => at[c] % 2 # 1
              /\ Sql => Op(c) = "insert" \/ BoundedBySql(adapter, Op(c))
              /\ Op(c) = "insert" => adapter \in InsertsIfAbsent \cup {"hbase", "milvus", "splunk"}
         /\ Step(c).kind = "write" /\ InTx(c) =>
              at[c] = Len(Plan(c)) - 1 /\ Step(c).recs = Elements(req[c].recs)
         /\ Step(c).kind \in {"commit", "write"} /\ InTx(c) => Sql
<1>1. at[c] \in 1..Len(Plan(c)) /\ (Step(c).kind = "write" => IsWrite(c))
  BY CallExchange DEF CallInv
<1>2. WritesFit(adapter, Op(c), req[c].recs, Plan(c))
  BY CallWritesFit
<1>3. InTx(c) <=> IsWrite(c) /\ Committed(Plan(c))
  BY DEF InTx, Committed
<1>4. InTx(c) => Sql
  <2>1. PlanFits(adapter, Op(c), req[c].recs, Plan(c))
    BY CallPlan DEF CallInv
  <2>2. Len(Plan(c)) \in 1..Len(Plan(c))
    BY <1>1
  <2> QED
    BY <1>3, <2>1, <2>2 DEF PlanFits, Committed, Sql
<1> QED
  BY <1>1, <1>2, <1>3, <1>4 DEF WritesFit, Step, Sql

\* What the exchange under way may write.
Written(c, E) ==
    /\ pc[c] \in {"run", "detached", "orphan"} /\ ~Refused(c) /\ at[c] <= Len(Plan(c))
    /\ \/ /\ Step(c).kind = "write" /\ ~InTx(c)
          /\ \/ Refusals(c) = {} /\ \E R \in Reaches(c) : E \subseteq R
             \/ Refusals(c) # {} /\ E \subseteq Spared(c)
       \/ Step(c).kind = "commit" /\ E \subseteq staged[c]

LEMMA TargetsWritten ==
  ASSUME NEW c, NEW R \in Targets(c), NEW E \in SUBSET R, E # {},
         pc[c] \in {"run", "detached", "orphan"}, ~Refused(c), at[c] <= Len(Plan(c))
  PROVE  Written(c, E)
<1>1. CASE Step(c).kind = "commit"
  BY <1>1 DEF Targets, Written
<1>2. CASE Step(c).kind = "write" /\ ~InTx(c)
  <2>1. R \in (IF Refusals(c) = {} THEN Reaches(c) ELSE {Spared(c)})
    BY <1>2 DEF Targets
  <2> QED
    BY <1>2, <2>1 DEF Written
<1>3. CASE ~(Step(c).kind = "commit") /\ ~(Step(c).kind = "write" /\ ~InTx(c))
  BY <1>3 DEF Targets
<1> QED
  BY <1>1, <1>2, <1>3

\* Before a call that writes at once has reached that exchange, it has written nothing.
LEMMA WrittenOnce ==
  ASSUME CallInv, WriteInv, NEW c \in Calls, NEW E, Written(c, E)
  PROVE  /\ Step(c).kind = "write" => IsWrite(c)
         /\ staged[c] # {} => IsWrite(c)
         /\ \/ at[c] + 1 > Len(Plan(c))
            \/ OneByOne(adapter, Op(c)) /\ at[c] + 1 > 1
            \/ AskedOneByOne(adapter, Op(c)) /\ at[c] + 1 > 2
         /\ Sql => done[c] = {}
<1>1. pc[c] \notin {"new", "ended"} /\ at[c] <= Len(Plan(c)) /\ at[c] \in Nat \ {0}
  BY DEF Written, CallInv, Typed
<1>2. Step(c).kind = "write" => IsWrite(c)
  BY <1>1, CallExchange DEF CallInv
<1>3. staged[c] # {} => IsWrite(c)
  BY DEF WriteInv, CallWrites, InTx
<1>4. \/ at[c] = Len(Plan(c)) \/ OneByOne(adapter, Op(c))
      \/ AskedOneByOne(adapter, Op(c)) /\ at[c] % 2 # 1
  BY <1>1, WriteExchange DEF Written
<1>5. at[c] % 2 # 1 => at[c] # 1
  OBVIOUS
<1>6. Len(Plan(c)) \in Nat
  BY <1>1, CallExchange DEF CallInv
<1>7. \/ at[c] + 1 > Len(Plan(c))
      \/ OneByOne(adapter, Op(c)) /\ at[c] + 1 > 1
      \/ AskedOneByOne(adapter, Op(c)) /\ at[c] + 1 > 2
  BY <1>1, <1>4, <1>5, <1>6
<1>8. ASSUME Sql, done[c] # {} PROVE FALSE
  <2>1. Begun(c)
    BY <1>1, <1>8 DEF WriteInv, CallWrites
  <2> QED
    BY <1>1, <1>6, <1>8, <2>1 DEF Begun, OneByOne, AskedOneByOne, Sql, SqlAdapterNames
<1> QED
  BY <1>2, <1>3, <1>7, <1>8

LEMMA ElementsFinite ==
  ASSUME NEW S, NEW s \in Seq(S)
  PROVE  IsFiniteSet(Elements(s)) /\ Cardinality(Elements(s)) <= Len(s)
<1>1. Len(s) \in Nat /\ DOMAIN s = 1..Len(s)
  OBVIOUS
<1>2. s \in Surjection(1..Len(s), Elements(s))
  BY <1>1 DEF Surjection, Elements
<1>3. IsFiniteSet(1..Len(s)) /\ Cardinality(1..Len(s)) = Len(s)
  BY <1>1, FS_Interval
<1> QED
  BY <1>2, <1>3, FS_Surjection

\* Sets of records of a request, and how many they are.
LEMMA RecordSets ==
  ASSUME CallInv, NEW c \in Calls, pc[c] # "new"
  PROVE  /\ Len(req[c].recs) \in Nat
         /\ \A R : R \subseteq Elements(req[c].recs) =>
              IsFiniteSet(R) /\ Cardinality(R) \in Nat /\ Cardinality(R) <= Len(req[c].recs)
         /\ \A R : \A E \in SUBSET R : R \subseteq Elements(req[c].recs) => Cardinality(E) <= Cardinality(R)
<1>1. req[c].recs \in Seq(Records)
  BY CallPlan DEF CallInv
<1>2. /\ IsFiniteSet(Elements(req[c].recs)) /\ Cardinality(Elements(req[c].recs)) <= Len(req[c].recs)
      /\ Len(req[c].recs) \in Nat /\ Cardinality(Elements(req[c].recs)) \in Nat
  BY <1>1, ElementsFinite, FS_CardinalityType
<1>3. ASSUME NEW R, R \subseteq Elements(req[c].recs)
      PROVE  /\ IsFiniteSet(R) /\ Cardinality(R) \in Nat /\ Cardinality(R) <= Len(req[c].recs)
             /\ \A E \in SUBSET R : Cardinality(E) <= Cardinality(R)
  <2>1. IsFiniteSet(R) /\ Cardinality(R) <= Cardinality(Elements(req[c].recs))
    BY <1>2, <1>3, FS_Subset
  <2>2. Cardinality(R) \in Nat
    BY <2>1, FS_CardinalityType
  <2>3. \A E \in SUBSET R : Cardinality(E) <= Cardinality(R)
    BY <2>1, FS_Subset
  <2> QED
    BY <1>2, <2>1, <2>2, <2>3
<1> QED
  BY <1>2, <1>3

\* A write keeps within max_affected, by the check beforehand, the statement or the transaction.
LEMMA WrittenBounded ==
  ASSUME CallInv, WriteInv, NEW c \in Calls, NEW E, E # {}, Written(c, E)
  PROVE  done[c] \cup E \subseteq Elements(req[c].recs) /\ Cardinality(done[c] \cup E) <= req[c].limit
<1>1. /\ pc[c] \in {"run", "detached", "orphan"} /\ pc[c] # "new" /\ at[c] <= Len(Plan(c)) /\ ~Refused(c)
  BY DEF Written
<1>2. /\ done[c] \subseteq Elements(req[c].recs) /\ staged[c] \subseteq Elements(req[c].recs)
      /\ Cardinality(staged[c]) <= req[c].limit
  BY <1>1 DEF WriteInv, CallBounded
<1>3. IsWrite(c)
  <2>1. Step(c).kind = "commit" => staged[c] # {}
    BY DEF Written
  <2> QED
    BY <2>1, WrittenOnce DEF Written
<1>4. /\ Step(c).recs \subseteq Elements(req[c].recs) /\ \A R \in Reaches(c) : R \subseteq Step(c).recs
      /\ Spared(c) \subseteq Elements(req[c].recs)
  BY <1>1, CallExchange, WriteSets DEF CallInv
<1>5. E \subseteq Elements(req[c].recs)
  BY <1>2, <1>4 DEF Written
<1>6. req[c].limit \in Nat
  BY <1>1, CallPlan DEF CallInv
<1>7. CASE BoundedBefore(c)
  <2>1. ~(Len(req[c].recs) > req[c].limit)
    BY <1>1, <1>3, <1>7 DEF Refused
  <2>2. done[c] \cup E \subseteq Elements(req[c].recs)
    BY <1>2, <1>5
  <2>3. /\ Cardinality(done[c] \cup E) <= Len(req[c].recs) /\ Cardinality(done[c] \cup E) \in Nat
        /\ Len(req[c].recs) \in Nat
    BY <1>1, <2>2, RecordSets
  <2> QED
    BY <1>6, <2>1, <2>2, <2>3
<1>8. CASE ~BoundedBefore(c)
  <2>1. Sql /\ Op(c) # "insert"
    BY <1>8 DEF BoundedBefore
  <2>2. done[c] \cup E = E
    BY <2>1, WrittenOnce
  <2>3. Cardinality(E) <= req[c].limit
    <3>1. CASE Step(c).kind = "commit"
      <4>1. E \in SUBSET staged[c]
        BY <3>1 DEF Written
      <4>2. Cardinality(E) <= Cardinality(staged[c]) /\ Cardinality(E) \in Nat /\ Cardinality(staged[c]) \in Nat
        BY <1>1, <1>2, <1>5, <4>1, RecordSets
      <4> QED
        BY <1>2, <1>6, <4>2
    <3>2. CASE Step(c).kind # "commit"
      <4>1. Step(c).kind = "write" /\ ~InTx(c)
        BY <3>2 DEF Written
      <4>2. BoundedBySql(adapter, Op(c))
        BY <1>1, <2>1, <4>1, WriteExchange
      <4>3. Spared(c) = {}
        BY <2>1 DEF Spared, Sql, SqlAdapterNames
      <4>4. PICK R \in Reaches(c) : E \subseteq R
        BY <3>2, <4>3 DEF Written
      <4>5. /\ Cardinality(R) = IF Cardinality(Reachable(c)) < req[c].limit
                                THEN Cardinality(Reachable(c)) ELSE req[c].limit
        BY <4>2, <4>4 DEF Reaches
      <4>6. R \subseteq Elements(req[c].recs) /\ Reachable(c) \subseteq Elements(req[c].recs)
        BY <1>4, <4>4 DEF Reachable
      <4>7. Cardinality(Reachable(c)) \in Nat
        BY <1>1, <4>6, RecordSets
      <4>8. Cardinality(R) <= req[c].limit /\ Cardinality(R) \in Nat
        BY <1>6, <4>5, <4>7
      <4>9. Cardinality(E) <= Cardinality(R) /\ Cardinality(E) \in Nat
        BY <1>1, <1>5, <4>4, <4>6, RecordSets
      <4> QED
        BY <1>6, <4>8, <4>9
    <3> QED
      BY <3>1, <3>2
  <2> QED
    BY <1>2, <1>5, <2>2, <2>3
<1> QED
  BY <1>7, <1>8

\* What a step does to the calls that do not make it.
LEMMA StepOthers ==
  ASSUME CallInv, NEW c \in Calls, CallStep(c), NEW d \in Calls \ {c}
  PROVE  /\ adapter' = adapter /\ pc'[d] = pc[d] /\ at'[d] = at[d] /\ req'[d] = req[d]
         /\ done'[d] = done[d] /\ staged'[d] = staged[d] /\ result'[d] = result[d]
         /\ seen'[d] = seen[d] /\ (d \in mistaken' <=> d \in mistaken)
<1> DEFINE Good ==
      /\ pc'[d] = pc[d] /\ at'[d] = at[d] /\ req'[d] = req[d] /\ result'[d] = result[d]
      /\ d \in mistaken' <=> d \in mistaken
<1>1. /\ pc \in [Calls -> Stations] /\ at \in [Calls -> Nat \ {0}]
      /\ result \in [Calls -> Categories \cup {"none"}] /\ req \in [Calls -> Request \cup {NoRequest}]
      /\ done \in [Calls -> SUBSET Records]
  BY DEF CallInv, Typed, ReqInv
<1>2. /\ adapter' = adapter /\ staged'[d] = staged[d] /\ seen'[d] = seen[d]
  BY StepFrame DEF CallInv
<1>3. done'[d] = done[d]
  <2>1. PICK E : Apply(c, E)
    BY StepApplies DEF CallInv
  <2> QED
    BY <1>1, <2>1 DEF Apply
<1>4. ASSUME NEW r \in Requests[c], Start(c, r) PROVE Good
  BY <1>1, <1>4 DEF Start
<1>5. ASSUME Connect(c) PROVE Good
  BY <1>1, <1>5 DEF Connect
<1>6. ASSUME Ending(c) PROVE Good
  <2>1. PICK category, truncated : Ends(c, category, truncated)
    BY <1>6, EndingEnds DEF CallInv
  <2>2. pc'[d] = pc[d] /\ at'[d] = at[d] /\ req'[d] = req[d] /\ result'[d] = result[d]
    BY <1>1, <2>1 DEF Ends, EndTask, Answer
  <2>3. d \in mistaken' <=> d \in mistaken
    BY <1>6 DEF Ending, ConnectFail, Refuse, StopAtAnswer, WriteRefused, Rollback, ExchangeFails, Finish
  <2> QED
    BY <2>2, <2>3
<1>7. ASSUME Exchanging(c) PROVE Good
  <2>1. GoesOn(c)
    BY <1>7, ExchangingGoesOn DEF CallInv
  <2> QED
    BY <1>1, <2>1 DEF GoesOn
<1>8. ASSUME NEW cancelled \in BOOLEAN, Interrupt(c, cancelled) PROVE Good
  BY <1>1, <1>8 DEF Interrupt
<1>9. ASSUME Late(c) PROVE Good
  BY <1>1, <1>9 DEF Late
<1>10. Good
  BY <1>4, <1>5, <1>6, <1>7, <1>8, <1>9, Steps
<1> QED
  BY <1>2, <1>3, <1>10

\* The invariant of a call depends on the call alone.
LEMMA WritesKept ==
  ASSUME NEW d, CallWrites(d), CallBounded(d), adapter' = adapter, pc'[d] = pc[d], at'[d] = at[d],
         req'[d] = req[d], done'[d] = done[d], staged'[d] = staged[d], result'[d] = result[d],
         d \in mistaken' <=> d \in mistaken
  PROVE  CallWrites(d)' /\ CallBounded(d)'
<1>1. /\ Plan(d)' = Plan(d) /\ Op(d)' = Op(d) /\ IsWrite(d)' = IsWrite(d)
      /\ Refused(d)' = Refused(d) /\ InTx(d)' = InTx(d)
  BY PlanKept
<1>2. Begun(d)' = Begun(d)
  BY <1>1 DEF Begun
<1>3. Definite(result[d])' = Definite(result[d])
  BY DEF Definite
<1>4. CallWrites(d)'
  BY <1>1, <1>2, <1>3 DEF CallWrites
<1>5. CallBounded(d)'
  BY DEF CallBounded
<1> QED
  BY <1>4, <1>5

\* A call that fails after it has written, or may have, fails in doubt.
EndsWith(c, E, category, truncated) ==
    /\ Apply(c, E) /\ (E = {} \/ Written(c, E))
    /\ EndTask(c, category, truncated) /\ UNCHANGED <<adapter, req>>
    /\ pc[c] \in {"connect", "run", "rollback", "detached"}
    /\ c \notin mistaken' =>
         c \notin mistaken /\ (done[c] \cup E = {} \/ Doubted(category) \/ category = "ok")

LEMMA EndingInDoubt ==
  ASSUME CallInv, WriteInv, NEW c \in Calls, Ending(c)
  PROVE  \E E, category, truncated : EndsWith(c, E, category, truncated)
<1> DEFINE Good == \E E, category, truncated : EndsWith(c, E, category, truncated)
<1>1. /\ Typed /\ ReqInv /\ PathInv /\ CallWrites(c) /\ at[c] \in Nat \ {0} /\ adapter \in AdapterNames
  BY CallsAssumption DEF CallInv, WriteInv, Typed
<1>2. ASSUME NEW category, NEW truncated, NoEffect, EndTask(c, category, truncated), UNCHANGED <<adapter, req>>,
             pc[c] \in {"connect", "run", "rollback", "detached"}, mistaken' = mistaken,
             done[c] = {} \/ Doubted(category) \/ category = "ok"
      PROVE  Good
  <2>1. Apply(c, {}) /\ done[c] \cup {} = done[c]
    BY <1>1, <1>2, NothingApplied
  <2>2. EndsWith(c, {}, category, truncated)
    BY <1>2, <2>1 DEF EndsWith
  <2> QED
    BY <2>2
<1>3. ASSUME done[c] # {}, pc[c] \in {"run", "detached"}, at[c] <= Len(Plan(c))
      PROVE  /\ ~Sql
             /\ \/ OneByOne(adapter, Op(c)) /\ at[c] > 1
                \/ AskedOneByOne(adapter, Op(c)) /\ at[c] > 2
  <2>1. Begun(c) /\ Len(Plan(c)) \in Nat
    BY <1>1, <1>3, CallPlan DEF CallWrites, PlanFits
  <2> QED
    BY <1>1, <1>3, <2>1 DEF Begun, OneByOne, AskedOneByOne, Sql, SqlAdapterNames
<1>4. ASSUME NEW f \in {"refused", "busy", "down", "lost"}, ConnectFail(c, f) PROVE Good
  BY <1>1, <1>2, <1>4 DEF ConnectFail, CallWrites
<1>5. ASSUME Refuse(c) PROVE Good
  <2>1. done[c] = {}
    BY <1>1, <1>5 DEF Refuse, Working, CallWrites
  <2> QED
    BY <1>2, <1>5, <2>1 DEF Refuse, Working
<1>6. ASSUME StopAtAnswer(c) PROVE Good
  <2>1. pc[c] \in {"run", "detached"} /\ at[c] <= Len(Plan(c)) /\ Stops(c) # "goes on"
    BY <1>6 DEF StopAtAnswer, At, Working
  <2>2. done[c] = {}
    BY <1>3, <2>1 DEF Stops, OneByOne, AskedOneByOne
  <2> QED
    BY <1>2, <1>6, <2>1, <2>2 DEF StopAtAnswer
<1>7. ASSUME WriteRefused(c) PROVE Good
  <2>1. /\ pc[c] \in {"run", "detached"} /\ at[c] <= Len(Plan(c)) /\ ~Refused(c) /\ Step(c).kind = "write"
        /\ Refusals(c) # {} /\ Apply(c, Spared(c)) /\ EndTask(c, Fails(c, "write", RefusedAs(c)), FALSE)
        /\ UNCHANGED <<adapter, req, mistaken>>
    BY <1>7 DEF WriteRefused, RefusedAs, At, Working
  <2>2. MayMeet(adapter, Op(c), "write", RefusedAs(c)) /\ IsWrite(c)
    BY <1>1, <2>1, RefusalsAreFaults, CallExchange
  <2>3. Spared(c) # {} => adapter \in {"mongodb", "elasticsearch"} /\ RefusedAs(c) = "partial"
    BY DEF Spared, RefusedAs
  <2>4. Spared(c) # {} => ~InTx(c)
    BY <2>1, <2>3, WriteExchange DEF Sql, SqlAdapterNames
  <2>5. Spared(c) = {} \/ Written(c, Spared(c))
    BY <2>1, <2>4 DEF Written
  <2>6. ASSUME done[c] # {} PROVE Doubted(Fails(c, "write", RefusedAs(c)))
    BY <1>1, <1>3, <2>1, <2>2, <2>6, DoubtAfterWrite, FailsIsFailsOf
  <2>7. ASSUME Spared(c) # {} PROVE Doubted(Fails(c, "write", RefusedAs(c)))
    <3>1. /\ MayLeave(adapter, RefusedAs(c)) /\ ~Mistakes(adapter, RefusedAs(c)) /\ adapter # "oracle"
          /\ CanExchange(adapter, "write") /\ ~AskedOneByOne(adapter, Op(c)) /\ adapter # "weaviate"
          /\ operation_is_write(Op(c))
      BY <2>2, <2>3, <2>7 DEF MayLeave, Mistakes, CanExchange, AskedOneByOne, IsWrite
    <3> QED
      BY <1>1, <2>2, <3>1, DoubtInExchange, FailsIsFailsOf
  <2>8. EndsWith(c, Spared(c), Fails(c, "write", RefusedAs(c)), FALSE)
    BY <2>1, <2>5, <2>6, <2>7 DEF EndsWith
  <2> QED
    BY <2>8
<1>8. ASSUME Rollback(c) PROVE Good
  BY <1>1, <1>2, <1>8 DEF Rollback, CallWrites
<1>9. ASSUME NEW f \in Faults, ExchangeFails(c, f) PROVE Good
  <2> DEFINE kind == IF pc[c] = "rollback" THEN "rollback" ELSE Step(c).kind
  <2>1. /\ EndTask(c, Fails(c, kind, f), FALSE) /\ f \in Possible(c, kind)
        /\ pc[c] \in {"run", "rollback", "detached"}
        /\ pc[c] # "rollback" => at[c] <= Len(Plan(c)) /\ ~Refused(c)
        /\ UNCHANGED <<adapter, req>>
        /\ c \notin mistaken' => c \notin mistaken /\ ~MistakenForRefusal(f)
    BY <1>9 DEF ExchangeFails, At, Working
  <2>2. PICK R \in Targets(c) : \E E \in Leaves(f, R) : Apply(c, E)
    BY <1>9 DEF ExchangeFails
  <2>3. PICK E \in Leaves(f, R) : Apply(c, E)
    BY <2>2
  <2>4. E \subseteq R
    BY <2>1, PossibleFaults, LeavesParts
  <2>5. CASE pc[c] = "rollback"
    <3>1. E = {} /\ done[c] = {}
      BY <1>1, <2>2, <2>4, <2>5 DEF Targets, CallWrites
    <3>2. EndsWith(c, E, Fails(c, kind, f), FALSE)
      BY <2>1, <2>3, <3>1 DEF EndsWith
    <3> QED
      BY <3>2
  <2>6. CASE pc[c] # "rollback"
    <3>1. pc[c] \in {"run", "detached"} /\ pc[c] # "new" /\ at[c] <= Len(Plan(c)) /\ ~Refused(c) /\ kind = Step(c).kind
      BY <2>1, <2>6
    <3>2. E = {} \/ Written(c, E)
      BY <2>4, <3>1, TargetsWritten
    <3>3. MayMeet(adapter, Op(c), kind, f)
      BY <2>1, PossibleFaults
    <3>4. kind \in {"ask", "begin", "write", "commit"} /\ (kind \in {"begin", "commit"} => Sql)
      BY <1>1, <3>1, CallExchange
    <3>5. ASSUME done[c] # {} PROVE Doubted(Fails(c, kind, f))
      <4>1. kind \in {"ask", "write"}
        BY <1>3, <3>1, <3>4, <3>5
      <4> HIDE DEF kind
      <4> QED
        BY <1>1, <1>3, <3>1, <3>3, <3>5, <4>1, DoubtAfterWrite, FailsIsFailsOf
    <3>6. ASSUME E # {}, ~MistakenForRefusal(f) PROVE Doubted(Fails(c, kind, f))
      <4>1. MayLeave(adapter, f) /\ ~Mistakes(adapter, f)
        BY <2>3, <3>6, <2>1, PossibleFaults DEF MayLeave, Leaves, Mistakes, MistakenForRefusal, Sql
      <4>2. kind \in {"write", "commit"} /\ (kind = "write" => ~InTx(c)) /\ (kind = "commit" => staged[c] # {})
        BY <3>1, <3>2, <3>6 DEF Written
      <4>3. operation_is_write(Op(c))
        BY <1>1, <3>1, <3>2, <3>6, <4>2, WrittenOnce DEF IsWrite
      <4>4. /\ CanExchange(adapter, kind) /\ (kind = "write" => adapter # "oracle")
            /\ AskedOneByOne(adapter, Op(c)) => at[c] % 2 # 1
            /\ adapter = "weaviate" => OneByOne(adapter, Op(c)) \/ AskedOneByOne(adapter, Op(c))
        BY <3>1, <3>4, <4>2, WriteExchange DEF CanExchange, Sql, SqlAdapterNames, AskedOneByOne
      <4> HIDE DEF kind
      <4> QED
        BY <1>1, <3>3, <4>1, <4>2, <4>3, <4>4, DoubtInExchange, FailsIsFailsOf
    <3>7. EndsWith(c, E, Fails(c, kind, f), FALSE)
      <4> HIDE DEF kind
      <4> QED
        BY <2>1, <2>3, <3>2, <3>5, <3>6 DEF EndsWith
    <3> QED
      BY <3>7
  <2> QED
    BY <2>5, <2>6
<1>10. ASSUME Finish(c) PROVE Good
  <2>1. PICK truncated \in BOOLEAN : EndTask(c, Outcome(c), truncated)
    BY <1>10 DEF Finish
  <2>2. done[c] = {} \/ Outcome(c) = "ok"
    BY DEF Outcome
  <2> QED
    BY <1>2, <1>10, <2>1, <2>2 DEF Finish, Working
<1> QED
  BY <1>4, <1>5, <1>6, <1>7, <1>8, <1>9, <1>10 DEF Ending

\* After the database has written E for a call.
LEMMA AppliedBounded ==
  ASSUME CallInv, WriteInv, NEW c \in Calls, NEW E, Apply(c, E), E = {} \/ Written(c, E)
  PROVE  /\ done'[c] = done[c] \cup E /\ done'[c] \subseteq Elements(req[c].recs)
         /\ Cardinality(done'[c]) <= req[c].limit
         /\ done'[c] # {} => IsWrite(c)
<1>1. done'[c] = done[c] \cup E
  BY DEF Apply, CallInv, Typed
<1>2. CallWrites(c) /\ CallBounded(c)
  BY DEF WriteInv
<1>3. CASE E = {}
  <2>1. done'[c] = done[c]
    BY <1>1, <1>3
  <2> QED
    BY <1>1, <1>2, <2>1 DEF CallWrites, CallBounded
<1>4. CASE E # {}
  <2>1. Step(c).kind = "write" \/ staged[c] # {}
    BY <1>4 DEF Written
  <2>2. IsWrite(c)
    BY <1>4, <2>1, WrittenOnce
  <2> QED
    BY <1>1, <1>4, <2>2, WrittenBounded
<1> QED
  BY <1>3, <1>4

LEMMA NothingIsBounded ==
  ASSUME CallInv, NEW c \in Calls
  PROVE  Cardinality({}) <= req[c].limit /\ req[c].limit \in Nat
<1>1. req[c].limit \in Nat
  BY DEF CallInv, ReqInv, Request, NoRequest
<1>2. Cardinality({}) = 0
  BY FS_EmptySet
<1> QED
  BY <1>1, <1>2

LEMMA StartWrites ==
  ASSUME CallInv, WriteInv, NEW c \in Calls, NEW r \in Requests[c], Start(c, r)
  PROVE  CallWrites(c)' /\ CallBounded(c)'
<1>1. /\ pc[c] = "new" /\ CallWrites(c) /\ CallInv'
      /\ UNCHANGED <<done, at, staged, mistaken>>
  BY CallStepInv DEF Start, NoEffect, WriteInv, CallStep
<1>2. done[c] = {} /\ staged[c] = {} /\ at[c] = 1 /\ result[c] = "none"
  BY <1>1 DEF CallWrites
<1>3. pc'[c] \in {"connect", "ended"} /\ (pc'[c] = "connect" => result' = result)
  BY DEF Start, CallInv, Typed
<1>4. Cardinality({}) <= req'[c].limit
  <2>1. req'[c].limit \in Nat
    BY <1>1 DEF CallInv, ReqInv, Request, NoRequest
  <2> QED
    BY <2>1, FS_EmptySet
<1>5. CallWrites(c)'
  BY <1>1, <1>2, <1>3 DEF CallWrites
<1>6. CallBounded(c)'
  BY <1>1, <1>2, <1>4 DEF CallBounded
<1> QED
  BY <1>5, <1>6

LEMMA ConnectWrites ==
  ASSUME CallInv, WriteInv, NEW c \in Calls, Connect(c)
  PROVE  CallWrites(c)' /\ CallBounded(c)'
<1>1. /\ pc[c] = "connect" /\ pc'[c] = "run" /\ CallWrites(c) /\ CallBounded(c)
      /\ UNCHANGED <<done, at, staged, mistaken, result, req>>
  BY DEF Connect, NoEffect, WriteInv, CallInv, Typed
<1>2. done[c] = {} /\ staged[c] = {} /\ at[c] = 1 /\ result[c] = "none"
  BY <1>1 DEF CallWrites
<1>3. CallWrites(c)'
  BY <1>1, <1>2 DEF CallWrites, Definite
<1>4. CallBounded(c)'
  BY <1>1, <1>2 DEF CallBounded
<1> QED
  BY <1>3, <1>4

LEMMA EndingWrites ==
  ASSUME CallInv, WriteInv, NEW c \in Calls, Ending(c)
  PROVE  CallWrites(c)' /\ CallBounded(c)'
<1>1. PICK E, category, truncated : EndsWith(c, E, category, truncated)
  BY EndingInDoubt
<1>2. /\ pc'[c] = "ended" /\ staged'[c] = {}
      /\ IF pc[c] = "detached" THEN result'[c] = result[c]
         ELSE result'[c] = classify_operation_error(category, IsWrite(c))
  BY <1>1 DEF EndsWith, EndTask, Answer, CallInv, Typed
<1>3. /\ done'[c] = done[c] \cup E /\ done'[c] \subseteq Elements(req[c].recs)
      /\ Cardinality(done'[c]) <= req[c].limit /\ (done'[c] # {} => IsWrite(c))
  BY <1>1, AppliedBounded DEF EndsWith
<1>4. req' = req /\ IsWrite(c)' = IsWrite(c)
  BY <1>1, PlanKept DEF EndsWith
<1>5. ASSUME Definite(result'[c]), c \notin mistaken', done'[c] # {} PROVE FALSE
  <2>1. IsWrite(c) /\ (Doubted(category) \/ category = "ok")
    BY <1>1, <1>3, <1>5 DEF EndsWith
  <2>2. CASE pc[c] = "detached"
    BY <1>2, <1>5, <2>1, <2>2 DEF WriteInv, CallWrites, Definite
  <2>3. CASE pc[c] # "detached"
    <3>1. result'[c] = classify_operation_error(category, TRUE)
      BY <1>2, <2>1, <2>3 DEF IsWrite, operation_is_write
    <3>2. result'[c] \in {"UnknownOutcome", "ok"}
      BY <2>1, <3>1, DoubtIsUnknown DEF classify_operation_error
    <3> QED
      BY <1>5, <3>2 DEF Definite
  <2> QED
    BY <2>2, <2>3
<1>6. CallWrites(c)'
  BY <1>2, <1>3, <1>4, <1>5 DEF CallWrites, Definite
<1>7. CallBounded(c)'
  BY <1>2, <1>3, <1>4, NothingIsBounded DEF CallBounded
<1> QED
  BY <1>6, <1>7

\* A call that goes on: what is left to show of the exchange.
LEMMA GoesOnWrites ==
  ASSUME CallInv, WriteInv, NEW c \in Calls, GoesOn(c),
         NEW E, Apply(c, E), E = {} \/ Written(c, E),
         E = {} \/ at' = [at EXCEPT ![c] = @ + 1],
         staged'[c] # {} => InTx(c) /\ at'[c] <= Len(Plan(c)),
         staged'[c] \subseteq Elements(req[c].recs),
         pc'[c] = "rollback" \/ Cardinality(staged'[c]) <= req[c].limit
  PROVE  CallWrites(c)' /\ CallBounded(c)'
<1>1. /\ CallWrites(c) /\ pc[c] \in {"run", "detached"} /\ pc'[c] \in {pc[c], "rollback"} /\ ~Refused(c)
      /\ at[c] <= Len(Plan(c)) /\ UNCHANGED <<adapter, req, result, mistaken>>
      /\ at[c] \in Nat \ {0} /\ Len(Plan(c)) \in Nat
      /\ at'[c] = at[c] + 1 \/ (at' = at /\ Sql)
      /\ pc'[c] = "rollback" => at' = at /\ Sql
      /\ pc[c] = "detached" => adapter = "hbase"
  <2>1. pc[c] # "new" /\ at[c] <= Len(Plan(c))
    BY DEF GoesOn, Working
  <2>2. Len(Plan(c)) \in Nat
    BY <2>1, CallPlan DEF CallInv, PlanFits
  <2> QED
    BY <2>2 DEF WriteInv, GoesOn, Working, CallInv, Typed, PathInv
<1>2. /\ done'[c] = done[c] \cup E /\ done'[c] \subseteq Elements(req[c].recs)
      /\ Cardinality(done'[c]) <= req[c].limit /\ (done'[c] # {} => IsWrite(c))
  BY AppliedBounded
<1>3. /\ Plan(c)' = Plan(c) /\ Op(c)' = Op(c) /\ IsWrite(c)' = IsWrite(c)
      /\ Refused(c)' = Refused(c) /\ InTx(c)' = InTx(c)
  BY <1>1, PlanKept
<1>4. Sql => done[c] = {}
  <2>1. ASSUME Sql, done[c] # {} PROVE FALSE
    <3>1. Begun(c)
      BY <1>1, <2>1 DEF CallWrites
    <3> QED
      BY <1>1, <2>1, <3>1 DEF Begun, OneByOne, AskedOneByOne, Sql, SqlAdapterNames
  <2> QED
    BY <2>1
<1>5. ASSUME done'[c] # {} PROVE Begun(c)' /\ pc'[c] # "rollback"
  <2>1. CASE E = {}
    <3>1. done[c] # {} /\ ~Sql
      BY <1>2, <1>4, <1>5, <2>1
    <3>2. Begun(c) /\ at'[c] = at[c] + 1 /\ pc'[c] # "rollback"
      BY <1>1, <3>1 DEF CallWrites
    <3> QED
      BY <1>1, <1>3, <3>2 DEF Begun
  <2>2. CASE E # {}
    <3>1. at'[c] = at[c] + 1
      BY <2>2 DEF CallInv, Typed
    <3>2. \/ at[c] + 1 > Len(Plan(c))
          \/ OneByOne(adapter, Op(c)) /\ at[c] + 1 > 1
          \/ AskedOneByOne(adapter, Op(c)) /\ at[c] + 1 > 2
      BY <2>2, WrittenOnce
    <3>3. pc'[c] # "rollback"
      BY <1>1, <3>1
    <3> QED
      BY <1>1, <1>3, <3>1, <3>2, <3>3 DEF Begun
  <2> QED
    BY <2>1, <2>2
<1>6. ASSUME Definite(result'[c]), done'[c] # {} PROVE FALSE
  BY <1>1, <1>2, <1>6 DEF CallWrites, Definite
<1>7. pc'[c] \in {"new", "connect", "run", "rollback"} => result'[c] = "none"
  <2>1. pc'[c] = "rollback" => pc[c] = "run"
    BY <1>1 DEF Sql, SqlAdapterNames
  <2> QED
    BY <1>1, <2>1 DEF CallWrites
<1>8. CallWrites(c)'
  BY <1>1, <1>2, <1>3, <1>5, <1>6, <1>7 DEF CallWrites, Definite
<1>9. CallBounded(c)'
  BY <1>1, <1>2 DEF CallBounded
<1> QED
  BY <1>8, <1>9

LEMMA ExchangingWrites ==
  ASSUME CallInv, WriteInv, NEW c \in Calls, Exchanging(c)
  PROVE  CallWrites(c)' /\ CallBounded(c)'
<1> DEFINE Good == CallWrites(c)' /\ CallBounded(c)'
<1>1. /\ GoesOn(c) /\ CallWrites(c) /\ CallBounded(c) /\ pc[c] \in {"run", "detached"} /\ pc[c] # "new"
      /\ at[c] <= Len(Plan(c)) /\ ~Refused(c)
  BY ExchangingGoesOn DEF CallInv, WriteInv, GoesOn, Working
<1>2. at[c] \in 1..Len(Plan(c)) /\ Len(Plan(c)) \in Nat /\ at \in [Calls -> Nat \ {0}] /\ pc \in [Calls -> Stations]
  BY <1>1, CallExchange, CallPlan DEF CallInv, PlanFits, Typed
<1>3. Cardinality({}) <= req[c].limit
  BY NothingIsBounded
<1>4. ASSUME AskDatabase(c) \/ BeginTransaction(c) PROVE Good
  <2>1. /\ NoEffect /\ staged' = staged /\ Step(c).kind # "commit" /\ pc' = pc
        /\ at' = [at EXCEPT ![c] = @ + 1]
    BY <1>4 DEF AskDatabase, BeginTransaction, At, NextExchange
  <2>2. Apply(c, {})
    BY <2>1, NothingApplied DEF CallInv
  <2>3. InTx(c) => at[c] # Len(Plan(c))
    BY <2>1 DEF InTx, Step
  <2>4. staged'[c] # {} => InTx(c) /\ at'[c] <= Len(Plan(c))
    BY <1>1, <1>2, <2>1, <2>3 DEF CallWrites
  <2>5. staged'[c] \subseteq Elements(req[c].recs) /\ Cardinality(staged'[c]) <= req[c].limit
    BY <1>1, <2>1 DEF CallBounded
  <2> QED
    BY <1>1, <2>2, <2>4, <2>5, GoesOnWrites
<1>5. ASSUME WriteRecords(c) PROVE Good
  <2>1. /\ staged' = staged /\ Step(c).kind = "write" /\ ~InTx(c) /\ Refusals(c) = {}
        /\ at' = [at EXCEPT ![c] = @ + 1]
    BY <1>5 DEF WriteRecords, At, NextExchange
  <2>2. PICK R \in Reaches(c) : Apply(c, R)
    BY <1>5 DEF WriteRecords
  <2>3. Written(c, R)
    BY <1>1, <2>1, <2>2 DEF Written
  <2>4. staged'[c] = {}
    BY <1>1, <2>1 DEF CallWrites
  <2> QED
    BY <1>1, <1>3, <2>1, <2>2, <2>3, <2>4, GoesOnWrites
<1>6. ASSUME StageRecords(c) PROVE Good
  <2>1. NoEffect /\ Step(c).kind = "write" /\ InTx(c) /\ staged \in [Calls -> SUBSET Records]
    BY <1>6 DEF StageRecords, At, CallInv, Typed
  <2>2. Apply(c, {})
    BY <2>1, NothingApplied DEF CallInv
  <2>3. PICK R \in Reaches(c) :
          /\ staged' = [staged EXCEPT ![c] = R]
          /\ IF Cardinality(R) > req[c].limit
             THEN pc' = [pc EXCEPT ![c] = "rollback"] /\ at' = at
             ELSE at' = [at EXCEPT ![c] = @ + 1] /\ pc' = pc
    BY <1>6 DEF StageRecords
  <2>4. staged'[c] = R /\ R \subseteq Elements(req[c].recs)
    BY <1>1, <2>1, <2>3, WriteSets, CallExchange DEF CallInv
  <2>5. at[c] = Len(Plan(c)) - 1
    BY <1>1, <2>1, WriteExchange
  <2>6. at'[c] <= Len(Plan(c))
    BY <1>2, <2>3, <2>5
  <2>7. Cardinality(R) \in Nat /\ req[c].limit \in Nat
    BY <1>1, <2>4, RecordSets, NothingIsBounded
  <2>8. pc'[c] = "rollback" \/ Cardinality(staged'[c]) <= req[c].limit
    BY <1>2, <2>3, <2>4, <2>7
  <2> QED
    BY <1>1, <2>1, <2>2, <2>4, <2>6, <2>8, GoesOnWrites
<1>7. ASSUME CommitTransaction(c) PROVE Good
  <2>1. /\ Apply(c, staged[c]) /\ Step(c).kind = "commit" /\ staged' = [staged EXCEPT ![c] = {}]
        /\ at' = [at EXCEPT ![c] = @ + 1]
    BY <1>7 DEF CommitTransaction, At, NextExchange
  <2>2. Written(c, staged[c])
    BY <1>1, <2>1 DEF Written
  <2>3. staged'[c] = {}
    BY <2>1 DEF CallInv, Typed
  <2> QED
    BY <1>1, <1>3, <2>1, <2>2, <2>3, GoesOnWrites
<1> QED
  BY <1>4, <1>5, <1>6, <1>7 DEF Exchanging

LEMMA InterruptWrites ==
  ASSUME CallInv, WriteInv, NEW c \in Calls, NEW cancelled \in BOOLEAN, Interrupt(c, cancelled)
  PROVE  CallWrites(c)' /\ CallBounded(c)'
<1>1. /\ CallWrites(c) /\ CallBounded(c) /\ UNCHANGED <<adapter, req, at, done, mistaken>>
      /\ pc[c] \in {"connect", "run", "rollback"}
      /\ result'[c] = interrupted_error(IsWrite(c), cancelled)
      /\ staged \in [Calls -> SUBSET Records]
  BY DEF Interrupt, Running, NoEffect, WriteInv, CallInv, Typed
<1>2. /\ Plan(c)' = Plan(c) /\ Op(c)' = Op(c) /\ IsWrite(c)' = IsWrite(c)
      /\ Refused(c)' = Refused(c) /\ InTx(c)' = InTx(c)
  BY <1>1, PlanKept
<1>3. Begun(c)' = Begun(c)
  BY <1>1, <1>2 DEF Begun
<1>4. IsWrite(c) => result'[c] = "UnknownOutcome"
  BY <1>1 DEF interrupted_error, Unsure
<1>5. Definite(result'[c]) => done[c] = {}
  BY <1>1, <1>4 DEF Definite, CallWrites
<1>6. \/ pc[c] = "run" /\ pc'[c] = "detached" /\ staged' = staged
      \/ InFlight(c) /\ pc'[c] = "orphan" /\ staged'[c] = staged[c]
      \/ ~InFlight(c) /\ pc'[c] = "ended" /\ staged'[c] = {}
  BY DEF Interrupt, CallInv, Typed
<1>7. InFlight(c) => pc[c] = "run" /\ ~Refused(c) /\ IsWrite(c)
  <2> SUFFICES ASSUME InFlight(c) PROVE IsWrite(c)
    BY DEF InFlight
  <2>1. pc[c] = "run" /\ ~Refused(c) /\ at[c] <= Len(Plan(c))
    BY DEF InFlight
  <2>2. PICK R \in Targets(c) : R # {}
    BY DEF InFlight
  <2>3. Written(c, R)
    BY <2>1, <2>2, TargetsWritten
  <2>4. Step(c).kind = "write" \/ staged[c] # {}
    BY <2>2, <2>3 DEF Written
  <2> QED
    BY <2>3, <2>4, WrittenOnce
<1>8. CallWrites(c)'
  <2>1. CASE pc'[c] = "detached"
    BY <1>1, <1>2, <1>3, <1>4, <1>5, <1>6, <2>1 DEF CallWrites, Definite
  <2>2. CASE pc'[c] = "orphan"
    BY <1>1, <1>2, <1>3, <1>4, <1>5, <1>6, <1>7, <2>2 DEF CallWrites, Definite
  <2>3. CASE pc'[c] = "ended"
    BY <1>1, <1>2, <1>5, <1>6, <2>3 DEF CallWrites, Definite
  <2> QED
    BY <1>6, <2>1, <2>2, <2>3
<1>9. CallBounded(c)'
  BY <1>1, <1>6, <1>7, NothingIsBounded DEF CallBounded
<1> QED
  BY <1>8, <1>9

LEMMA LateWrites ==
  ASSUME CallInv, WriteInv, NEW c \in Calls, Late(c)
  PROVE  CallWrites(c)' /\ CallBounded(c)'
<1>1. /\ pc[c] = "orphan" /\ CallWrites(c) /\ pc'[c] = "ended" /\ staged'[c] = {}
      /\ UNCHANGED <<adapter, req, result, mistaken>> /\ at[c] <= Len(Plan(c))
  BY DEF Late, WriteInv, CallInv, Typed, PathInv
<1>2. ~Refused(c) /\ IsWrite(c) /\ result[c] = "UnknownOutcome"
  BY <1>1 DEF CallWrites
<1>3. PICK R \in Targets(c) : \E E \in Parts(R) : Apply(c, E)
  BY DEF Late
<1>4. PICK E \in Parts(R) : Apply(c, E)
  BY <1>3
<1>5. E = {} \/ Written(c, E)
  BY <1>1, <1>2, <1>3, <1>4, LeavesParts, TargetsWritten
<1>6. /\ done'[c] = done[c] \cup E /\ done'[c] \subseteq Elements(req[c].recs)
      /\ Cardinality(done'[c]) <= req[c].limit
  BY <1>4, <1>5, AppliedBounded
<1>7. IsWrite(c)' = IsWrite(c)
  BY <1>1, PlanKept
<1>8. CallWrites(c)'
  BY <1>1, <1>2, <1>7 DEF CallWrites, Definite
<1>9. CallBounded(c)'
  BY <1>1, <1>6, NothingIsBounded DEF CallBounded
<1> QED
  BY <1>8, <1>9

LEMMA InitWriteInv == Init => WriteInv
<1> SUFFICES ASSUME Init, NEW c \in Calls PROVE CallWrites(c) /\ CallBounded(c)
  BY DEF WriteInv
<1>1. /\ pc[c] = "new" /\ at[c] = 1 /\ done[c] = {} /\ staged[c] = {} /\ result[c] = "none"
      /\ req[c].limit = 0
  BY DEF Init, NoRequest
<1>2. Cardinality({}) = 0
  BY FS_EmptySet
<1> QED
  BY <1>1, <1>2 DEF CallWrites, CallBounded, Definite

LEMMA NextWriteInv == CallInv /\ WriteInv /\ [Next]_vars => WriteInv'
<1> SUFFICES ASSUME CallInv, WriteInv, [Next]_vars, NEW d \in Calls
             PROVE  CallWrites(d)' /\ CallBounded(d)'
  BY DEF WriteInv
<1>1. CallWrites(d) /\ CallBounded(d)
  BY DEF WriteInv
<1>2. ASSUME NEW c \in Calls, CallStep(c) PROVE CallWrites(d)' /\ CallBounded(d)'
  <2>1. CASE d = c
    BY <1>2, <2>1, Steps, StartWrites, ConnectWrites, EndingWrites, ExchangingWrites, InterruptWrites,
       LateWrites
  <2>2. CASE d # c
    <3>1. d \in Calls \ {c}
      BY <2>2
    <3>2. /\ adapter' = adapter /\ pc'[d] = pc[d] /\ at'[d] = at[d] /\ req'[d] = req[d]
          /\ done'[d] = done[d] /\ staged'[d] = staged[d] /\ result'[d] = result[d]
          /\ (d \in mistaken' <=> d \in mistaken)
      BY <1>2, <3>1, StepOthers
    <3> QED
      BY <1>1, <3>2, WritesKept
  <2> QED
    BY <2>1, <2>2
<1>3. ASSUME UNCHANGED <<adapter, pc, at, req, done, staged, result, mistaken>>
      PROVE  CallWrites(d)' /\ CallBounded(d)'
  BY <1>1, <1>3, WritesKept
<1>4. ASSUME NEW i \in Ids, Cancel(i) PROVE CallWrites(d)' /\ CallBounded(d)'
  BY <1>3, <1>4 DEF Cancel, NoEffect
<1>5. CASE invalidate_connection
  BY <1>3, <1>5 DEF invalidate_connection, NoEffect
<1>6. CASE UNCHANGED vars
  BY <1>3, <1>6 DEF vars
<1> QED
  BY <1>2, <1>4, <1>5, <1>6 DEF Next

LEMMA WriteInvHolds == Spec => [](CallInv /\ WriteInv)
BY InitCallInv, NextCallInv, InitWriteInv, NextWriteInv, PTL DEF Spec

\* For every adapter, request and interleaving: a call whose answer is a failure other than
\* UnknownOutcome has left nothing in the database and no request that could (execute of the
\* adapters with classify_operation_error and interrupted_error), unless the failure was one
\* of those that the adapter takes for a refusal.
THEOREM FailuresLeaveNothing == Spec => []FailedLeavesNothing
<1>1. WriteInv => FailedLeavesNothing
  BY DEF WriteInv, CallWrites, FailedLeavesNothing
<1> QED
  BY <1>1, WriteInvHolds, PTL

\* For every adapter, request and interleaving: no call affects more records than its
\* max_affected, be it bounded by the check of the number of records, by the LIMIT of the
\* statement or by the count inside the transaction, and whether or not it was interrupted.
THEOREM MaxAffectedHolds == Spec => []WithinMaxAffected
<1>1. WriteInv => WithinMaxAffected
  BY DEF WriteInv, CallBounded, WithinMaxAffected
<1> QED
  BY <1>1, WriteInvHolds, PTL
-----------------------------------------------------------------------------
(***************************************************************************)
(* Complete writes.  The exchanges of a write that adds records name, one  *)
(* by one or all at once, every record of the request; those behind the    *)
(* call have put theirs into the database or into its transaction.         *)
(***************************************************************************)
Appends(op) == op \in {"insert", "vector_upsert", "time_series_write"}

Covers(s, plan) ==
    /\ \A i \in 1..Len(plan) : plan[i].kind # "write" => plan[i].recs = {}
    /\ plan # NoPlan => \A r \in Elements(s) : \E i \in 1..Len(plan) : r \in plan[i].recs

LEMMA PlansCover ==
  ASSUME NEW a \in AdapterNames, NEW op \in Operations, operation_is_write(op), NEW S, NEW s \in Seq(S)
  PROVE  Covers(s, PlanOf(a, op, s))
<1>1. PICK plan : plan = PlanOf(a, op, s)
  OBVIOUS
<1>2. /\ Ask.kind = "ask" /\ Begin.kind = "begin" /\ Commit.kind = "commit"
      /\ Ask.recs = {} /\ Begin.recs = {} /\ Commit.recs = {}
      /\ \A R : Write(R).kind = "write" /\ Write(R).recs = R
  BY DEF Ask, Begin, Commit, Write
<1>3. Covers(s, <<>>)
  BY DEF Covers, NoPlan
<1>4. ASSUME AtOnce(plan, s) PROVE Covers(s, plan)
  <2>1. CASE plan = <<Write(Elements(s))>>
    <3>1. Len(plan) = 1 /\ plan[1] = Write(Elements(s))
      BY <2>1
    <3> QED
      BY <1>2, <3>1 DEF Covers
  <2>2. CASE plan = <<Ask, Write(Elements(s))>>
    <3>1. Len(plan) = 2 /\ plan[1] = Ask /\ plan[2] = Write(Elements(s))
      BY <2>2
    <3> QED
      BY <1>2, <3>1 DEF Covers
  <2> QED
    BY <1>4, <2>1, <2>2 DEF AtOnce
<1>5. ASSUME Transaction(plan, s) PROVE Covers(s, plan)
  <2>1. CASE plan = <<Begin, Write(Elements(s)), Commit>>
    <3>1. Len(plan) = 3 /\ plan[1] = Begin /\ plan[2] = Write(Elements(s)) /\ plan[3] = Commit
      BY <2>1
    <3> QED
      BY <1>2, <3>1 DEF Covers
  <2>2. CASE plan = <<Write(Elements(s)), Commit>>
    <3>1. Len(plan) = 2 /\ plan[1] = Write(Elements(s)) /\ plan[2] = Commit
      BY <2>2
    <3> QED
      BY <1>2, <3>1 DEF Covers
  <2> QED
    BY <1>5, <2>1, <2>2 DEF Transaction
<1>6. DOMAIN s = 1..Len(s) /\ Len(s) \in Nat /\ Elements(s) = {s[i] : i \in 1..Len(s)}
  BY DEF Elements
<1>7. Covers(s, Each(s))
  <2>1. Len(Each(s)) = Len(s) /\ \A i \in 1..Len(s) : Each(s)[i] = Write({s[i]})
    BY EachTyped
  <2>2. \A i \in 1..Len(s) : Each(s)[i].kind = "write" /\ s[i] \in Each(s)[i].recs
    <3> TAKE i \in 1..Len(s)
    <3>1. Each(s)[i] = Write({s[i]})
      BY <2>1
    <3> QED
      BY <1>2, <3>1
  <2> QED
    BY <1>6, <2>1, <2>2 DEF Covers
<1>8. Covers(s, AskEach(s))
  <2>1. /\ Len(AskEach(s)) = 2 * Len(s)
        /\ \A i \in 1..(2 * Len(s)) :
             IF i % 2 = 1 THEN AskEach(s)[i] = Ask ELSE AskEach(s)[i] = Write({s[i \div 2]})
    BY AskEachTyped
  <2>2. \A i \in 1..(2 * Len(s)) : AskEach(s)[i].kind # "write" => AskEach(s)[i].recs = {}
    <3> TAKE i \in 1..(2 * Len(s))
    <3>1. AskEach(s)[i] = Ask \/ AskEach(s)[i] = Write({s[i \div 2]})
      BY <2>1
    <3> QED
      BY <1>2, <3>1
  <2>3. ASSUME NEW r \in Elements(s) PROVE \E i \in 1..(2 * Len(s)) : r \in AskEach(s)[i].recs
    <3>1. PICK j \in 1..Len(s) : r = s[j]
      BY <1>6
    <3>2. 2 * j \in 1..(2 * Len(s)) /\ (2 * j) % 2 # 1 /\ (2 * j) \div 2 = j
      BY <1>6
    <3>3. AskEach(s)[2 * j] = Write({r})
      BY <2>1, <3>1, <3>2
    <3> QED
      BY <1>2, <3>2, <3>3
  <2> QED
    BY <2>1, <2>2, <2>3 DEF Covers
<1>9. CASE a \in SqlAdapterNames
  BY <1>1, <1>3, <1>4, <1>5, <1>9, SqlPlans DEF NoPlan
<1>10. CASE a \in DocumentAdapterNames
  BY <1>1, <1>3, <1>4, <1>7, <1>10, DocumentPlans DEF NoPlan
<1>11. CASE a \in SearchAdapterNames \cup TimeSeriesAdapterNames
  BY <1>1, <1>3, <1>4, <1>7, <1>8, <1>11, HttpPlans DEF NoPlan
<1> QED
  BY <1>9, <1>10, <1>11 DEF AdapterNames

CallComplete(c) ==
    /\ Appends(Op(c)) /\ pc[c] \in {"run", "detached"} =>
         \A i \in 1..Len(Plan(c)) : i < at[c] => Plan(c)[i].recs \subseteq done[c] \cup staged[c]
    /\ result[c] = "ok" /\ Appends(Op(c)) => done[c] = Elements(req[c].recs)

CompleteInv == \A c \in Calls : CallComplete(c)

LEMMA CallCovers ==
  ASSUME CallInv, NEW c \in Calls, pc[c] # "new", Appends(Op(c))
  PROVE  Covers(req[c].recs, Plan(c)) /\ IsWrite(c) /\ ~BoundedBySql(adapter, Op(c))
<1>1. operation_is_write(Op(c)) /\ ~BoundedBySql(adapter, Op(c))
  BY DEF Appends, operation_is_write, BoundedBySql
<1> QED
  BY <1>1, CallPlan, PlansCover DEF CallInv, IsWrite

\* Such a call has succeeded only when it has ended.
LEMMA OkEnded ==
  ASSUME CallInv, WriteInv, NEW c \in Calls, IsWrite(c), result[c] = "ok"
  PROVE  pc[c] = "ended"
BY DEF CallInv, Typed, Stations, WriteInv, CallWrites

LEMMA EndingComplete ==
  ASSUME CallInv, WriteInv, CompleteInv, NEW c \in Calls, Ending(c)
  PROVE  CallComplete(c)'
<1>1. PICK category, truncated : Ends(c, category, truncated)
  BY EndingEnds DEF CallInv
<1>2. /\ pc'[c] = "ended" /\ pc[c] \in {"connect", "run", "rollback", "detached"}
      /\ UNCHANGED <<adapter, req>>
      /\ IF pc[c] = "detached" THEN result'[c] = result[c]
         ELSE result'[c] = classify_operation_error(category, IsWrite(c))
  BY <1>1 DEF Ends, EndTask, Answer, CallInv, Typed
<1>3. Op(c)' = Op(c) /\ IsWrite(c)' = IsWrite(c)
  BY <1>2, PlanKept
<1>4. ASSUME result'[c] = "ok", Appends(Op(c)) PROVE done'[c] = Elements(req[c].recs)
  <2>1. IsWrite(c) /\ Covers(req[c].recs, Plan(c))
    BY <1>2, <1>4, CallCovers
  <2>2. pc[c] # "detached"
    BY <1>2, <1>4, <2>1, OkEnded
  <2>3. category = "ok"
    <3>1. classify_operation_error(category, IsWrite(c)) = "ok"
      BY <1>2, <1>4, <2>2
    <3> QED
      BY <3>1 DEF classify_operation_error
  <2>4. /\ Working(c) /\ ~Refused(c) /\ at[c] > Len(Plan(c)) /\ pc[c] = "run"
    BY <1>1, <2>2, <2>3 DEF Ends, Working
  <2>5. Len(Plan(c)) \in Nat /\ at[c] \in Nat /\ Plan(c) # NoPlan
    BY <2>4, CallPlan DEF CallInv, PlanFits, Typed, Refused
  <2>6. staged[c] = {} /\ done[c] \subseteq Elements(req[c].recs)
    BY <2>4, <2>5 DEF WriteInv, CallWrites, CallBounded
  <2>7. \A i \in 1..Len(Plan(c)) : Plan(c)[i].recs \subseteq done[c]
    BY <1>4, <2>4, <2>5, <2>6 DEF CompleteInv, CallComplete
  <2>8. done[c] = Elements(req[c].recs)
    BY <2>1, <2>5, <2>6, <2>7 DEF Covers
  <2>9. PICK E : Apply(c, E) /\ (E = {} \/ Written(c, E))
    BY EndingInDoubt DEF EndsWith
  <2>10. done'[c] = done[c] \cup E /\ done'[c] \subseteq Elements(req[c].recs)
    BY <2>9, AppliedBounded
  <2> QED
    BY <2>8, <2>10
<1> QED
  BY <1>2, <1>3, <1>4 DEF CallComplete

LEMMA ExchangingComplete ==
  ASSUME CallInv, WriteInv, CompleteInv, NEW c \in Calls, Exchanging(c)
  PROVE  CallComplete(c)'
<1>1. /\ pc[c] \in {"run", "detached"} /\ pc[c] # "new" /\ at[c] <= Len(Plan(c))
      /\ at'[c] = at[c] + 1 \/ pc'[c] = "rollback"
      /\ pc'[c] \in {pc[c], "rollback"} /\ UNCHANGED <<adapter, req, result>>
  BY ExchangingGoesOn DEF CallInv, Typed, GoesOn, Working
<1>2. at[c] \in 1..Len(Plan(c)) /\ Len(Plan(c)) \in Nat
  BY <1>1, CallExchange, CallPlan DEF CallInv, PlanFits
<1>3. Plan(c)' = Plan(c) /\ Op(c)' = Op(c)
  BY <1>1, PlanKept
<1>4. ~(result'[c] = "ok" /\ Appends(Op(c)))
  BY <1>1, CallCovers, OkEnded
<1>5. ASSUME Appends(Op(c)), pc'[c] # "rollback"
      PROVE  \A i \in 1..Len(Plan(c)) : i < at'[c] => Plan(c)[i].recs \subseteq done'[c] \cup staged'[c]
  <2>1. Covers(req[c].recs, Plan(c)) /\ ~BoundedBySql(adapter, Op(c)) /\ at'[c] = at[c] + 1
    BY <1>1, <1>5, CallCovers
  <2>2. \A i \in 1..Len(Plan(c)) : i < at[c] => Plan(c)[i].recs \subseteq done[c] \cup staged[c]
    BY <1>1, <1>5 DEF CompleteInv, CallComplete
  <2>3. Step(c).kind # "write" => Step(c).recs = {}
    BY <1>2, <2>1 DEF Covers, Step
  <2>4. \A R \in Reaches(c) : R = Step(c).recs
    BY <1>5, <2>1 DEF Reaches, Reachable, Appends
  <2>5. SUFFICES done[c] \cup staged[c] \cup Step(c).recs \subseteq done'[c] \cup staged'[c]
    <3>1. \A i \in 1..Len(Plan(c)) : i < at'[c] => i < at[c] \/ Plan(c)[i] = Step(c)
      BY <1>2, <2>1 DEF Step
    <3> QED
      BY <2>2, <2>5, <3>1
  <2>6. CASE AskDatabase(c) \/ BeginTransaction(c)
    BY <2>3, <2>6 DEF AskDatabase, BeginTransaction, At, NoEffect
  <2>7. CASE WriteRecords(c)
    <3>1. PICK R \in Reaches(c) : Apply(c, R)
      BY <2>7 DEF WriteRecords
    <3> QED
      BY <2>4, <2>7, <3>1 DEF WriteRecords, Apply, CallInv, Typed
  <2>8. CASE StageRecords(c)
    <3>1. PICK R \in Reaches(c) : staged' = [staged EXCEPT ![c] = R]
      BY <2>8 DEF StageRecords
    <3>2. staged'[c] = Step(c).recs /\ done' = done
      BY <2>4, <2>8, <3>1 DEF StageRecords, NoEffect, CallInv, Typed
    <3>3. Step(c).recs = Elements(req[c].recs)
      BY <1>1, <2>8, WriteExchange DEF StageRecords, At
    <3>4. staged[c] \subseteq Elements(req[c].recs)
      BY DEF WriteInv, CallBounded
    <3> QED
      BY <3>2, <3>3, <3>4
  <2>9. CASE CommitTransaction(c)
    <3>1. done'[c] = done[c] \cup staged[c] /\ Step(c).recs = {}
      BY <2>3, <2>9 DEF CommitTransaction, At, Apply, CallInv, Typed
    <3> QED
      BY <3>1
  <2> QED
    BY <2>6, <2>7, <2>8, <2>9 DEF Exchanging
<1> QED
  BY <1>1, <1>3, <1>4, <1>5 DEF CallComplete

LEMMA StepComplete ==
  ASSUME CallInv, WriteInv, CompleteInv, NEW c \in Calls, CallStep(c)
  PROVE  CallComplete(c)'
<1>1. ASSUME NEW r \in Requests[c], Start(c, r) PROVE CallComplete(c)'
  <2>1. result[c] = "none" /\ pc'[c] \in {"connect", "ended"} /\ result'[c] \in {result[c], "Conflict"}
    BY <1>1 DEF Start, WriteInv, CallWrites, CallInv, Typed
  <2> QED
    BY <2>1 DEF CallComplete
<1>2. ASSUME Connect(c) PROVE CallComplete(c)'
  <2>1. at'[c] = 1 /\ result'[c] = "none"
    BY <1>2 DEF Connect, WriteInv, CallWrites
  <2>2. \A i \in 1..Len(Plan(c)') : ~(i < at'[c])
    BY <2>1
  <2> QED
    BY <2>1, <2>2 DEF CallComplete
<1>3. ASSUME NEW cancelled \in BOOLEAN, Interrupt(c, cancelled) PROVE CallComplete(c)'
  <2>1. /\ result'[c] # "ok" /\ UNCHANGED <<adapter, req, at, done>>
        /\ pc'[c] \in {"detached", "orphan", "ended"}
        /\ pc'[c] = "detached" => pc[c] = "run" /\ staged' = staged
    BY <1>3 DEF Interrupt, interrupted_error, Unsure, NoEffect, CallInv, Typed
  <2>2. Plan(c)' = Plan(c) /\ Op(c)' = Op(c)
    BY <2>1, PlanKept
  <2> QED
    BY <2>1, <2>2 DEF CompleteInv, CallComplete
<1>4. ASSUME Late(c) PROVE CallComplete(c)'
  <2>1. pc'[c] = "ended" /\ result'[c] = "UnknownOutcome"
    BY <1>4 DEF Late, WriteInv, CallWrites, CallInv, Typed
  <2> QED
    BY <2>1 DEF CallComplete
<1> QED
  BY <1>1, <1>2, <1>3, <1>4, Steps, EndingComplete, ExchangingComplete

LEMMA NextCompleteInv == CallInv /\ WriteInv /\ CompleteInv /\ [Next]_vars => CompleteInv'
<1> SUFFICES ASSUME CallInv, WriteInv, CompleteInv, [Next]_vars, NEW d \in Calls
             PROVE  CallComplete(d)'
  BY DEF CompleteInv
<1>1. ASSUME adapter' = adapter, pc'[d] = pc[d], at'[d] = at[d], req'[d] = req[d], done'[d] = done[d],
             staged'[d] = staged[d], result'[d] = result[d]
      PROVE  CallComplete(d)'
  <2>1. Plan(d)' = Plan(d) /\ Op(d)' = Op(d)
    BY <1>1, PlanKept
  <2> QED
    BY <1>1, <2>1 DEF CompleteInv, CallComplete
<1>2. ASSUME NEW c \in Calls, CallStep(c) PROVE CallComplete(d)'
  <2>1. CASE d = c
    BY <1>2, <2>1, StepComplete
  <2>2. CASE d # c
    BY <1>1, <1>2, <2>2, StepOthers
  <2> QED
    BY <2>1, <2>2
<1>3. ASSUME NEW i \in Ids, Cancel(i) PROVE CallComplete(d)'
  BY <1>1, <1>3 DEF Cancel, NoEffect
<1>4. CASE invalidate_connection
  BY <1>1, <1>4 DEF invalidate_connection, NoEffect
<1>5. CASE UNCHANGED vars
  BY <1>1, <1>5 DEF vars
<1> QED
  BY <1>2, <1>3, <1>4, <1>5 DEF Next

\* For every adapter, request and interleaving: an insert, an upsert or an append that answers
\* with success has written all its records, whether in one exchange, in a transaction, or
\* record by record as CQL, Couchbase and Weaviate do.
THEOREM SuccessIsComplete == Spec => []SucceededIsComplete
<1>1. Init => CompleteInv
  BY DEF Init, CompleteInv, CallComplete
<1>2. CompleteInv => SucceededIsComplete
  BY DEF CompleteInv, CallComplete, SucceededIsComplete, Appends
<1>3. Spec => []CompleteInv
  BY <1>1, NextCompleteInv, WriteInvHolds, PTL DEF Spec
<1> QED
  BY <1>2, <1>3, PTL
-----------------------------------------------------------------------------
(***************************************************************************)
(* Conditional writes.  A database with conditions refuses the records     *)
(* that do not meet them; a transaction keeps the rows that it has written *)
(* until it commits; HBase asks first, and another call may write between  *)
(* the answer and the put.                                                 *)
(***************************************************************************)
LEMMA StepWritten ==
  ASSUME CallInv, WriteInv, NEW c \in Calls, CallStep(c)
  PROVE  \E E : Apply(c, E) /\ (E = {} \/ Written(c, E))
<1> DEFINE Good == \E E : Apply(c, E) /\ (E = {} \/ Written(c, E))
<1>1. ASSUME NoEffect PROVE Good
  BY <1>1, NothingApplied DEF CallInv
<1>2. ASSUME NEW r \in Requests[c], Start(c, r) PROVE Good
  BY <1>1, <1>2 DEF Start
<1>3. ASSUME Connect(c) PROVE Good
  BY <1>1, <1>3 DEF Connect
<1>4. ASSUME Ending(c) PROVE Good
  BY <1>4, EndingInDoubt DEF EndsWith
<1>5. ASSUME WriteRecords(c) PROVE Good
  <2>1. PICK R \in Reaches(c) : Apply(c, R)
    BY <1>5 DEF WriteRecords
  <2>2. Written(c, R)
    BY <1>5, <2>1 DEF WriteRecords, At, Working, Written
  <2> QED
    BY <2>1, <2>2
<1>6. ASSUME CommitTransaction(c) PROVE Good
  <2>1. Apply(c, staged[c]) /\ Written(c, staged[c])
    BY <1>6 DEF CommitTransaction, At, Working, Written
  <2> QED
    BY <2>1
<1>7. ASSUME AskDatabase(c) \/ BeginTransaction(c) \/ StageRecords(c) PROVE Good
  BY <1>1, <1>7 DEF AskDatabase, BeginTransaction, StageRecords
<1>8. ASSUME NEW cancelled \in BOOLEAN, Interrupt(c, cancelled) PROVE Good
  BY <1>1, <1>8 DEF Interrupt
<1>9. ASSUME Late(c) PROVE Good
  <2>1. pc[c] = "orphan" /\ at[c] <= Len(Plan(c)) /\ ~Refused(c)
    BY <1>9 DEF Late, WriteInv, CallWrites, CallInv, PathInv
  <2>2. PICK R \in Targets(c) : \E E \in Parts(R) : Apply(c, E)
    BY <1>9 DEF Late
  <2>3. PICK E \in Parts(R) : Apply(c, E)
    BY <2>2
  <2>4. E = {} \/ Written(c, E)
    BY <2>1, <2>2, <2>3, LeavesParts, TargetsWritten
  <2> QED
    BY <2>3, <2>4
<1> QED
  BY <1>2, <1>3, <1>4, <1>5, <1>6, <1>7, <1>8, <1>9, Steps DEF Exchanging

\* The inserts and updates that wait for a commit.
LEMMA TransactionOps ==
  ASSUME CallInv, NEW c \in Calls, pc[c] # "new", at[c] <= Len(Plan(c)), InTx(c), Op(c) \in {"insert", "update"}
  PROVE  adapter = "oracle" \/ (adapter = "cockroachdb" /\ Op(c) = "update")
<1>1. /\ PlanFits(adapter, Op(c), req[c].recs, Plan(c)) /\ Plan(c) = PlanOf(adapter, Op(c), req[c].recs)
      /\ at[c] \in 1..Len(Plan(c))
  BY CallPlan, CallExchange DEF CallInv
<1>2. Plan(c)[Len(Plan(c))].kind = "commit" /\ Len(Plan(c)) \in 1..Len(Plan(c))
  BY <1>1 DEF InTx
<1>3. adapter \in SqlAdapterNames
  BY <1>1, <1>2 DEF PlanFits
<1>4. Plan(c) = SqlPlan(adapter, Op(c), req[c].recs)
  BY <1>1, <1>3 DEF PlanOf
<1>5. Batch(req[c].recs)[Len(Batch(req[c].recs))].kind = "write"
  BY DEF Batch, Write
<1>6. \/ adapter \in {"postgresql", "mysql", "sqlserver"}
      \/ adapter = "cockroachdb" /\ Op(c) = "insert"
      => Plan(c) = Batch(req[c].recs)
  BY <1>4 DEF SqlPlan, PgExecute, PgStructured, PgExecuteBuilt, MySqlExecute, MySqlExecuteBuilt, TdsExecute,
              TdsExecuteBuilt
<1>7. Plan(c) # Batch(req[c].recs)
  BY <1>2, <1>5
<1> QED
  BY <1>3, <1>6, <1>7 DEF SqlAdapterNames

\* An HBase write asks, and then writes.
LEMMA HBasePlan ==
  ASSUME CallInv, NEW c \in Calls, pc[c] # "new", adapter = "hbase", IsWrite(c), ~Refused(c)
  PROVE  /\ Plan(c) = <<Ask, Write(Elements(req[c].recs))>> /\ Len(Plan(c)) = 2
         /\ Plan(c)[1].kind = "ask" /\ Plan(c)[2].kind = "write" /\ Plan(c)[2].recs = Elements(req[c].recs)
         /\ ~InTx(c)
         /\ Op(c) = "update" => Elements(req[c].recs) = {Target(c)}
<1>1. adapter \in DocumentAdapterNames /\ ~(adapter \in {"cql", "couchbase"}) /\ operation_is_write(Op(c))
  BY DEF DocumentAdapterNames, IsWrite
<1>2. Plan(c) = PlanOf(adapter, Op(c), req[c].recs) /\ Op(c) \in Operations /\ Plan(c) # NoPlan
  BY CallPlan DEF CallInv, Refused
<1>3. Plan(c) = <<Ask, Write(Elements(req[c].recs))>>
  BY <1>1, <1>2, DocumentPlans
<1>4. /\ Len(Plan(c)) = 2 /\ Plan(c)[1].kind = "ask" /\ Plan(c)[2].kind = "write"
      /\ Plan(c)[2].recs = Elements(req[c].recs)
  BY <1>3, ExchangesTyped
<1>5. ~InTx(c)
  BY <1>4 DEF InTx
<1>6. ASSUME Op(c) = "update" PROVE Elements(req[c].recs) = {Target(c)}
  <2>1. req[c].recs \in Seq(Records) /\ req[c].recs # <<>> /\ ~(Len(req[c].recs) > 1)
    BY <1>6, CallPlan, CallWritesFit DEF CallInv, Refused, OneKey
  <2>2. Len(req[c].recs) = 1 /\ DOMAIN req[c].recs = 1..1
    <3>1. PICK s \in Seq(Records) : s = req[c].recs
      BY <2>1
    <3>2. Len(s) \in Nat \ {0} /\ DOMAIN s = 1..Len(s)
      BY <2>1, <3>1
    <3>3. ~(Len(s) > 1)
      BY <2>1, <3>1
    <3>4. Len(s) = 1
      BY <3>2, <3>3
    <3> QED
      BY <3>1, <3>2, <3>4
  <2> QED
    BY <2>2 DEF Elements, Target
<1> QED
  BY <1>3, <1>4, <1>5, <1>6

KeptRows(c) ==
    \A r \in staged[c] : (Op(c) = "insert" => ~Present(r)) /\ (Op(c) = "update" => Present(r))

AskedRows(c) ==
    adapter = "hbase" /\ pc[c] \in {"run", "detached"} /\ at[c] = 2 /\ ~Refused(c) =>
      /\ Op(c) = "insert" => \A r \in Elements(req[c].recs) : Present(r) => \E d \in Calls \ {c} : r \in done[d]
      /\ Op(c) = "update" => \A r \in Elements(req[c].recs) : ~Present(r) => \E d \in Calls \ {c} : r \in done[d]

CallRows(c) ==
    /\ KeptRows(c) /\ AskedRows(c) /\ (adapter = "hbase" => pc[c] # "orphan")
    /\ \A d \in Calls \ {c} : staged[c] \cap staged[d] = {}

RowInv == (\A c \in Calls : CallRows(c)) /\ ConditionalWritesHold

\* Only an HBase call writes a record that it should not, and then another has written it too.
LEMMA ClobbersOnlyInHBase ==
  ASSUME CallInv, WriteInv, RowInv, NEW c \in Calls, NEW E, Written(c, E), Clobbers(c, E)
  PROVE  adapter = "hbase" /\ \E d \in Calls \ {c} : done[d] \cap E # {}
<1>1. /\ pc[c] \in {"run", "detached", "orphan"} /\ pc[c] # "new" /\ ~Refused(c) /\ at[c] <= Len(Plan(c))
      /\ Op(c) \in {"insert", "update"} /\ adapter \in AdapterNames
  BY CallsAssumption DEF Written, Clobbers, CallInv, Typed
<1>2. ASSUME Step(c).kind = "commit", E \subseteq staged[c] PROVE FALSE
  <2>1. adapter \in SqlAdapterNames
    BY <1>1, <1>2, CallExchange DEF CallInv, Sql
  <2>2. KeptRows(c)
    BY DEF RowInv, CallRows
  <2> QED
    BY <1>2, <2>1, <2>2 DEF Clobbers, KeptRows, SqlAdapterNames
<1>3. ASSUME Step(c).kind = "write", ~InTx(c), Refusals(c) # {}, E \subseteq Spared(c) PROVE FALSE
  <2>1. \A r \in Spared(c) : ~Hindered(c, r) /\ adapter \in {"mongodb", "elasticsearch"}
    <3>1. CASE adapter = "mongodb"
      <4>1. \A j \in DOMAIN req[c].recs : j \in 1..j
        BY <1>1, CallPlan DEF CallInv
      <4> QED
        BY <3>1, <4>1 DEF Spared
    <3>2. CASE adapter = "elasticsearch"
      BY <3>2 DEF Spared
    <3>3. CASE adapter \notin {"mongodb", "elasticsearch"}
      BY <3>3 DEF Spared
    <3> QED
      BY <3>1, <3>2, <3>3
  <2>2. adapter = "mongodb" => Op(c) = "insert"
    BY <1>1, <1>3 DEF Refusals, Hindered, ChangesIfPresent
  <2> QED
    BY <1>3, <2>1, <2>2 DEF Clobbers, Hindered, InsertsIfAbsent, ChangesIfPresent
<1>4. ASSUME Step(c).kind = "write", ~InTx(c), Refusals(c) = {}, NEW R \in Reaches(c), E \subseteq R
      PROVE  adapter = "hbase" /\ E \subseteq Step(c).recs
  <2>1. E \subseteq Reachable(c) /\ Reachable(c) \subseteq Step(c).recs
    BY <1>4 DEF Reaches, Reachable
  <2>2. \A r \in E : ~Hindered(c, r)
    BY <1>4, <2>1 DEF Refusals
  <2>3. Op(c) = "insert" => adapter \in InsertsIfAbsent \cup {"hbase", "milvus", "splunk"}
    BY <1>1, <1>4, WriteExchange
  <2>4. Op(c) = "update" /\ adapter # "hbase" => \A r \in E : Present(r)
    BY <2>1 DEF Reachable
  <2> QED
    BY <1>1, <2>1, <2>2, <2>3, <2>4 DEF Clobbers, Hindered
<1>5. adapter = "hbase" /\ Step(c).kind = "write" /\ E \subseteq Step(c).recs
  BY <1>2, <1>3, <1>4 DEF Written
<1>6. IsWrite(c) /\ pc[c] \in {"run", "detached"}
  BY <1>1, <1>5 DEF IsWrite, operation_is_write, RowInv, CallRows
<1>7. /\ Len(Plan(c)) = 2 /\ Plan(c)[1].kind = "ask" /\ Plan(c)[2].recs = Elements(req[c].recs)
  BY <1>1, <1>5, <1>6, HBasePlan
<1>8. at[c] = 2 /\ E \subseteq Elements(req[c].recs)
  <2>1. at[c] \in 1..2
    BY <1>1, <1>7, CallExchange DEF CallInv
  <2> QED
    BY <1>5, <1>7, <2>1 DEF Step
<1>9. AskedRows(c)
  BY DEF RowInv, CallRows
<1>10. \E r \in E : (Op(c) = "insert" /\ Present(r)) \/ (Op(c) = "update" /\ ~Present(r))
  BY <1>5 DEF Clobbers
<1> QED
  BY <1>1, <1>5, <1>6, <1>8, <1>9, <1>10 DEF AskedRows

\* Whether a record that another call writes is present.
LEMMA ApplyPresent ==
  ASSUME CallInv, NEW c \in Calls, NEW E, Apply(c, E), NEW r \in Records
  PROVE  /\ r \notin E => (Present(r)' <=> Present(r))
         /\ r \in E /\ Op(c) # "delete" => Present(r)'
<1>1. Nobody # c
  BY CallsAssumption
<1> QED
  BY <1>1 DEF Apply, Present, CallInv, Typed

\* A call's own step.
LEMMA OwnRows ==
  ASSUME CallInv, WriteInv, RowInv, NEW c \in Calls, CallStep(c)
  PROVE  /\ KeptRows(c)' /\ AskedRows(c)' /\ (adapter' = "hbase" => pc'[c] # "orphan")
         /\ \A d \in Calls \ {c} : staged'[c] \cap staged[d] = {}
<1> DEFINE Good == /\ KeptRows(c)' /\ AskedRows(c)' /\ (adapter' = "hbase" => pc'[c] # "orphan")
                   /\ \A d \in Calls \ {c} : staged'[c] \cap staged[d] = {}
<1>1. /\ CallWrites(c) /\ CallRows(c) /\ pc \in [Calls -> Stations] /\ staged \in [Calls -> SUBSET Records]
      /\ at \in [Calls -> Nat \ {0}]
  BY DEF WriteInv, RowInv, CallInv, Typed
<1>2. ASSUME staged'[c] = {}, pc'[c] \in {"connect", "ended"} \/ (pc'[c] = "run" /\ at'[c] = 1) PROVE Good
  BY <1>2 DEF KeptRows, AskedRows
<1>3. ASSUME NEW r \in Requests[c], Start(c, r) PROVE Good
  BY <1>1, <1>2, <1>3 DEF Start, CallWrites
<1>4. ASSUME Connect(c) PROVE Good
  BY <1>1, <1>2, <1>4 DEF Connect, CallWrites
<1>5. ASSUME Ending(c) PROVE Good
  <2>1. PICK category, truncated : Ends(c, category, truncated)
    BY <1>5, EndingEnds DEF CallInv
  <2> QED
    BY <1>1, <1>2, <2>1 DEF Ends, EndTask
<1>6. ASSUME Late(c) PROVE Good
  BY <1>1, <1>2, <1>6 DEF Late
<1>7. ASSUME NEW cancelled \in BOOLEAN, Interrupt(c, cancelled) PROVE Good
  <2>1. /\ UNCHANGED <<adapter, req, at, done, table>> /\ staged'[c] \in {staged[c], {}}
        /\ pc'[c] \in {"orphan", "ended"} \/ (pc'[c] = "detached" /\ pc[c] = "run")
        /\ adapter = "hbase" => pc'[c] # "orphan"
    BY <1>1, <1>7 DEF Interrupt, NoEffect, InFlight
  <2>2. Op(c)' = Op(c) /\ Refused(c)' = Refused(c) /\ \A r : Present(r)' = Present(r)
    BY <2>1, PlanKept DEF Present
  <2>3. KeptRows(c)' /\ AskedRows(c)'
    BY <1>1, <2>1, <2>2 DEF CallRows, KeptRows, AskedRows
  <2> QED
    BY <1>1, <2>1, <2>3 DEF CallRows
<1>8. ASSUME Exchanging(c) PROVE Good
  <2>1. /\ pc[c] \in {"run", "detached"} /\ pc[c] # "new" /\ at[c] <= Len(Plan(c)) /\ ~Refused(c)
        /\ at'[c] = at[c] + 1 \/ pc'[c] = "rollback"
        /\ pc'[c] \in {pc[c], "rollback"} /\ UNCHANGED <<adapter, req>> /\ at[c] \in Nat \ {0}
    BY <1>8, ExchangingGoesOn DEF CallInv, Typed, GoesOn, Working
  <2>2. /\ Plan(c)' = Plan(c) /\ Op(c)' = Op(c) /\ Refused(c)' = Refused(c)
    BY <2>1, PlanKept
  <2>3. KeptRows(c)' /\ \A d \in Calls \ {c} : staged'[c] \cap staged[d] = {}
    <3>1. ASSUME staged'[c] = {} PROVE KeptRows(c)' /\ \A d \in Calls \ {c} : staged'[c] \cap staged[d] = {}
      BY <3>1 DEF KeptRows
    <3>2. CASE AskDatabase(c) \/ BeginTransaction(c)
      <4>1. staged' = staged /\ table' = table
        BY <3>2 DEF AskDatabase, BeginTransaction, NoEffect
      <4> QED
        BY <1>1, <2>2, <4>1 DEF CallRows, KeptRows, Present
    <3>3. CASE WriteRecords(c)
      BY <1>1, <3>1, <3>3 DEF WriteRecords, CallWrites
    <3>4. CASE CommitTransaction(c)
      BY <1>1, <3>1, <3>4 DEF CommitTransaction
    <3>5. CASE StageRecords(c)
      <4>1. /\ RowsFree(c) /\ Refusals(c) = {} /\ InTx(c) /\ Step(c).kind = "write" /\ table' = table
        BY <3>5 DEF StageRecords, At, NoEffect
      <4>2. PICK R \in Reaches(c) : staged' = [staged EXCEPT ![c] = R]
        BY <3>5 DEF StageRecords
      <4>3. staged'[c] = R /\ R \subseteq Reachable(c) /\ R \subseteq Step(c).recs
        BY <1>1, <4>2 DEF Reaches, Reachable
      <4>4. Sql
        BY <2>1, <4>1, WriteExchange
      <4>5. adapter \in InsertsIfAbsent /\ adapter # "hbase"
        BY <4>4 DEF Sql, SqlAdapterNames, InsertsIfAbsent
      <4>6. \A r \in R : (Op(c) = "insert" => ~Present(r)) /\ (Op(c) = "update" => Present(r))
        BY <4>1, <4>3, <4>5 DEF Refusals, Hindered, Reachable
      <4>7. KeptRows(c)'
        BY <2>2, <4>1, <4>3, <4>6 DEF KeptRows, Present
      <4>8. \A d \in Calls \ {c} : staged'[c] \cap staged[d] = {}
        BY <4>1, <4>3 DEF RowsFree
      <4> QED
        BY <4>7, <4>8
    <3> QED
      BY <1>8, <3>2, <3>3, <3>4, <3>5 DEF Exchanging
  <2>4. AskedRows(c)'
    <3>1. SUFFICES ASSUME adapter = "hbase", pc'[c] \in {"run", "detached"}, at'[c] = 2,
                          Op(c) \in {"insert", "update"}
                   PROVE  \A r \in Elements(req[c].recs) :
                            (Op(c) = "insert" => ~Present(r)') /\ (Op(c) = "update" => Present(r)')
      BY <2>1, <2>2 DEF AskedRows
    <3>2. IsWrite(c) /\ at[c] = 1
      BY <2>1, <3>1 DEF IsWrite, operation_is_write
    <3>3. Step(c).kind = "ask" /\ (Op(c) = "update" => Elements(req[c].recs) = {Target(c)})
      BY <2>1, <3>1, <3>2, HBasePlan DEF Step
    <3>4. AskDatabase(c)
      BY <1>8, <3>3 DEF Exchanging, BeginTransaction, WriteRecords, StageRecords, CommitTransaction, At
    <3>5. Stops(c) = "goes on" /\ table' = table
      BY <3>4 DEF AskDatabase, NoEffect
    <3>6. Op(c) = "insert" => \A r \in Elements(req[c].recs) : ~Present(r)
      BY <3>1, <3>5 DEF Stops
    <3>7. Op(c) = "update" => Present(Target(c))
      BY <3>1, <3>5 DEF Stops
    <3> QED
      BY <3>3, <3>5, <3>6, <3>7 DEF Present
  <2>5. adapter' = "hbase" => pc'[c] # "orphan"
    BY <2>1
  <2> QED
    BY <2>3, <2>4, <2>5
<1> QED
  BY <1>3, <1>4, <1>5, <1>6, <1>7, <1>8, Steps

\* The step of another call: it writes rows of its own transaction, or, where a statement
\* writes at once, none that would break a transaction.
LEMMA OthersRows ==
  ASSUME CallInv, WriteInv, RowInv, NEW c \in Calls, CallStep(c), NEW d \in Calls \ {c}
  PROVE  KeptRows(d)' /\ AskedRows(d)' /\ (adapter' = "hbase" => pc'[d] # "orphan")
<1>1. /\ adapter' = adapter /\ pc'[d] = pc[d] /\ at'[d] = at[d] /\ req'[d] = req[d]
      /\ staged'[d] = staged[d] /\ CallRows(d) /\ CallWrites(d)
  BY StepOthers DEF RowInv, WriteInv
<1>2. Op(d)' = Op(d) /\ Refused(d)' = Refused(d)
  BY <1>1, PlanKept
<1>3. PICK E : Apply(c, E) /\ (E = {} \/ Written(c, E))
  BY StepWritten
<1>4. /\ done'[c] = done[c] \cup E /\ \A e \in Calls \ {c} : done'[e] = done[e]
      /\ staged[d] \subseteq Records
  BY <1>3 DEF Apply, CallInv, Typed
<1>5. KeptRows(d)'
  <2> SUFFICES ASSUME NEW r \in staged[d], Op(d) \in {"insert", "update"}
               PROVE  (Op(d) = "insert" => ~Present(r)') /\ (Op(d) = "update" => Present(r)')
    BY <1>1, <1>2 DEF KeptRows
  <2>1. (Op(d) = "insert" => ~Present(r)) /\ (Op(d) = "update" => Present(r)) /\ r \in Records
    BY <1>1, <1>4 DEF CallRows, KeptRows
  <2>2. CASE r \notin E
    BY <1>3, <2>1, <2>2, ApplyPresent
  <2>3. CASE r \in E
    <3>1. Written(c, E) /\ pc[c] # "new" /\ at[c] <= Len(Plan(c))
      BY <1>3, <2>3 DEF Written
    <3>2. InTx(d) /\ at[d] <= Len(Plan(d)) /\ pc[d] # "new"
      BY <1>1 DEF CallWrites
    <3>3. adapter = "oracle" \/ (adapter = "cockroachdb" /\ Op(d) = "update")
      BY <3>2, TransactionOps
    <3>4. ~(E \subseteq staged[c])
      BY <1>1, <2>3 DEF CallRows
    <3>5. Step(c).kind = "write" /\ ~InTx(c)
      BY <3>1, <3>4 DEF Written
    <3>6. adapter # "oracle" /\ (Sql => Op(c) = "insert" \/ BoundedBySql(adapter, Op(c)))
      BY <3>1, <3>5, WriteExchange
    <3>7. Op(c) = "insert" /\ Op(d) = "update"
      BY <3>3, <3>6 DEF Sql, SqlAdapterNames, BoundedBySql
    <3>8. Present(r)'
      BY <1>3, <2>1, <2>3, <3>7, ApplyPresent
    <3> QED
      BY <3>7, <3>8
  <2> QED
    BY <2>2, <2>3
<1>6. AskedRows(d)'
  <2> SUFFICES ASSUME adapter = "hbase", pc[d] \in {"run", "detached"}, at[d] = 2, ~Refused(d),
                      Op(d) \in {"insert", "update"}, NEW r \in Elements(req[d].recs),
                      \/ Op(d) = "insert" /\ Present(r)'
                      \/ Op(d) = "update" /\ ~Present(r)'
               PROVE  \E e \in Calls \ {d} : r \in done'[e]
    BY <1>1, <1>2 DEF AskedRows
  <2>1. r \in Records
    BY CallPlan DEF CallInv
  <2>2. CASE r \in E
    BY <1>4, <2>2
  <2>3. CASE r \notin E
    <3>1. Present(r)' <=> Present(r)
      BY <1>3, <2>1, <2>3, ApplyPresent
    <3>2. PICK e \in Calls \ {d} : r \in done[e]
      BY <1>1, <3>1 DEF CallRows, AskedRows
    <3> QED
      BY <1>4, <3>2
  <2> QED
    BY <2>2, <2>3
<1> QED
  BY <1>1, <1>5, <1>6 DEF CallRows

LEMMA ClobberedStep ==
  ASSUME CallInv, WriteInv, RowInv, NEW c \in Calls, CallStep(c)
  PROVE  ConditionalWritesHold'
<1>1. PICK E : Apply(c, E) /\ (E = {} \/ Written(c, E))
  BY StepWritten
<1>2. adapter' = adapter
  BY StepFrame DEF CallInv
<1>3. done'[c] = done[c] \cup E /\ (\A e \in Calls \ {c} : done'[e] = done[e]) /\ clobbered \subseteq Calls
  BY <1>1 DEF Apply, CallInv, Typed
<1>4. ~Clobbers(c, {})
  BY DEF Clobbers
<1>5. ASSUME NEW e \in clobbered' PROVE adapter = "hbase" /\ \E d \in Calls \ {e} : done'[d] \cap done'[e] # {}
  <2>1. CASE e \in clobbered
    <3>1. adapter = "hbase" /\ e \in Calls
      BY <1>3, <2>1 DEF RowInv, ConditionalWritesHold
    <3>2. PICK d \in Calls \ {e} : done[d] \cap done[e] # {}
      BY <2>1 DEF RowInv, ConditionalWritesHold
    <3>3. done[d] \subseteq done'[d] /\ done[e] \subseteq done'[e]
      BY <1>3, <3>1
    <3> QED
      BY <3>1, <3>2, <3>3
  <2>2. CASE e \notin clobbered
    <3>1. e = c /\ Clobbers(c, E)
      BY <1>1, <1>5, <2>2 DEF Apply
    <3>2. Written(c, E)
      BY <1>1, <1>4, <3>1
    <3>3. adapter = "hbase" /\ \E d \in Calls \ {c} : done[d] \cap E # {}
      BY <3>1, <3>2, ClobbersOnlyInHBase
    <3> QED
      BY <1>3, <3>1, <3>3
  <2> QED
    BY <2>1, <2>2
<1> QED
  BY <1>2, <1>5 DEF ConditionalWritesHold

LEMMA NextRowInv == CallInv /\ WriteInv /\ RowInv /\ [Next]_vars => RowInv'
<1> SUFFICES ASSUME CallInv, WriteInv, RowInv, [Next]_vars PROVE RowInv'
  OBVIOUS
<1>1. ASSUME NEW c \in Calls, CallStep(c) PROVE RowInv'
  <2>1. ASSUME NEW d \in Calls PROVE CallRows(d)'
    <3>1. CASE d = c
      <4>1. \A e \in Calls \ {c} : staged'[e] = staged[e]
        BY <1>1, StepOthers
      <4> QED
        BY <1>1, <3>1, <4>1, OwnRows DEF CallRows
    <3>2. CASE d # c
      <4>1. \A e \in Calls \ {c} : staged'[e] = staged[e]
        BY <1>1, StepOthers
      <4>2. \A e \in Calls \ {d} : staged'[d] \cap staged'[e] = {}
        <5> TAKE e \in Calls \ {d}
        <5>1. CASE e = c
          BY <1>1, <3>2, <4>1, <5>1, OwnRows
        <5>2. CASE e # c
          BY <3>2, <4>1, <5>2 DEF RowInv, CallRows
        <5> QED
          BY <5>1, <5>2
      <4> QED
        BY <1>1, <3>2, <4>2, OthersRows DEF CallRows
    <3> QED
      BY <3>1, <3>2
  <2> QED
    BY <1>1, <2>1, ClobberedStep DEF RowInv
<1>2. ASSUME UNCHANGED <<adapter, table, req, pc, at, staged, done, clobbered>> PROVE RowInv'
  <2>1. ASSUME NEW d \in Calls PROVE CallRows(d)'
    <3>1. Op(d)' = Op(d) /\ Refused(d)' = Refused(d) /\ \A r : Present(r)' = Present(r)
      BY <1>2, PlanKept DEF Present
    <3>2. CallRows(d)
      BY DEF RowInv
    <3>3. KeptRows(d)' /\ AskedRows(d)'
      BY <1>2, <3>1, <3>2 DEF CallRows, KeptRows, AskedRows
    <3> QED
      BY <1>2, <3>2, <3>3 DEF CallRows
  <2>2. ConditionalWritesHold'
    BY <1>2 DEF RowInv, ConditionalWritesHold
  <2> QED
    BY <2>1, <2>2 DEF RowInv
<1>3. ASSUME NEW i \in Ids, Cancel(i) PROVE RowInv'
  BY <1>2, <1>3 DEF Cancel, NoEffect
<1>4. CASE invalidate_connection
  BY <1>2, <1>4 DEF invalidate_connection, NoEffect
<1>5. CASE UNCHANGED vars
  BY <1>2, <1>5 DEF vars
<1> QED
  BY <1>1, <1>3, <1>4, <1>5 DEF Next

\* For every adapter, request and interleaving: an insert replaces no record, an update makes
\* none, and a Couchbase update replaces only the version that it read, except where two HBase
\* calls write the same row between the question of one and its put.
THEOREM ConditionsHold == Spec => []ConditionalWritesHold
<1>1. Init => RowInv
  BY DEF Init, RowInv, CallRows, KeptRows, AskedRows, ConditionalWritesHold
<1>2. RowInv => ConditionalWritesHold
  BY DEF RowInv
<1>3. Spec => []RowInv
  BY <1>1, NextRowInv, WriteInvHolds, PTL DEF Spec
<1> QED
  BY <1>2, <1>3, PTL
=============================================================================
