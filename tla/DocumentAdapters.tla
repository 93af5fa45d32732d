-------------------------- MODULE DocumentAdapters --------------------------
(***************************************************************************)
(* The document and wide-column adapters (connectors-document).  None has  *)
(* a transaction: each write takes effect by itself, under a condition the *)
(* server checks (IF NOT EXISTS, IF EXISTS, a unique _id, a CAS value), or *)
(* for HBase under one that the adapter checked with an earlier request.   *)
(*                                                                         *)
(* In the Fails operators, i is the exchange of the plan that failed.      *)
(***************************************************************************)
EXTENDS AdapterBase

DocumentAdapterNames == {"cql", "mongodb", "couchbase", "hbase"}

-----------------------------------------------------------------------------
(***************************************************************************)
(* Cassandra, YugabyteDB YCQL.  An update or a delete first reads the      *)
(* primary key of the table and needs a filter that fixes all of it.       *)
(***************************************************************************)
CqlManifest == Relational

CqlRead == <<Ask>>

\* Mutant: the loop over the records ends one early.
CqlInsertAllButLast(s) == Each(SubSeq(s, 1, Len(s) - 1))

CqlInsert(s) == Each(s)

primary_key_columns == <<Ask>>

CqlUpdate(s) == primary_key_columns \o Batch(s)

CqlDelete(s) == primary_key_columns \o Batch(s)

\* Of native writes only INSERT is allowed.
CqlNative(op, s) == IF op = "native_execute" THEN Batch(s) ELSE <<Ask>>

CqlExecute(op, s) ==
    CASE op = "read" -> CqlRead
      [] op = "insert" -> CqlInsert(s)
      [] op = "update" -> CqlUpdate(s)
      [] op = "delete" -> CqlDelete(s)
      [] op \in {"native_query", "native_execute"} -> CqlNative(op, s)
      [] OTHER -> NoPlan

map_db_error(f, write) ==
    [refused |-> "InvalidRequest", exists |-> "Conflict", busy |-> "RateLimited",
     down |-> Unsure(write, "Unavailable"), ambiguous |-> Unsure(write, "Timeout")][f]

map_attempt_error(f, write) ==
    IF f = "lost" THEN Unsure(write, "Unavailable") ELSE map_db_error(f, write)

\* A conditional statement whose answer has no [applied] is a Protocol error.
conditional_write(f, write) ==
    CASE f = "garbled" -> "Protocol"
      [] f = "missing" -> "NotFound"
      [] OTHER -> map_attempt_error(f, write)

CqlFails(op, i, f, write) ==
    IF op = "insert" /\ i > 1 THEN "UnknownOutcome" ELSE conditional_write(f, write)

map_session_error(f) == IF f = "busy" THEN "Timeout" ELSE map_attempt_error(f, FALSE)

-----------------------------------------------------------------------------
(***************************************************************************)
(* MongoDB.  insert_many is ordered: it stops at the first document that   *)
(* is refused.  An update or a delete needs a bound on _id.                *)
(***************************************************************************)
MongoManifest == Relational \cup {"Batch"}

MongoRead == <<Ask>>

MongoInsert(s) == Batch(s)

MongoUpdate(s) == Batch(s)

MongoDelete(s) == Batch(s)

MongoNative(op, s) == IF op = "native_execute" THEN Batch(s) ELSE <<Ask>>

MongoExecute(op, s) ==
    CASE op = "read" -> MongoRead
      [] op = "insert" -> MongoInsert(s)
      [] op = "update" -> MongoUpdate(s)
      [] op = "delete" -> MongoDelete(s)
      [] op \in {"native_query", "native_execute"} -> MongoNative(op, s)
      [] OTHER -> NoPlan

\* The code of a command that failed as a whole; a code that is not listed is a Protocol error.
map_mongo_code(f, write) ==
    [refused |-> "Protocol", misread |-> "Protocol", missing |-> "NotFound", exists |-> "Conflict",
     busy |-> "RateLimited", down |-> Unsure(write, "Unavailable")][f]

\* A write error or a write concern error of a document is an unknown outcome.
map_mongo_error(f, write) ==
    CASE f \in {"exists", "partial", "ambiguous"} /\ write -> "UnknownOutcome"
      [] f = "lost" -> Unsure(write, "Unavailable")
      [] f = "garbled" -> "Protocol"
      [] OTHER -> map_mongo_code(f, write)

-----------------------------------------------------------------------------
(***************************************************************************)
(* Couchbase.  An update reads the document and replaces it if its CAS     *)
(* value is still the one it read.                                         *)
(***************************************************************************)
CouchbaseManifest == (Relational \ {"NativeExecute"}) \cup {"Batch"}

CouchbaseRead == <<Ask>>

CouchbaseNativeQuery == <<Ask>>

CouchbaseInsert(s) == Each(s)

CouchbaseUpdate(s) == AskThen(Batch(s))

CouchbaseDelete(s) == Batch(s)

CouchbaseExecute(op, s) ==
    CASE op = "read" -> CouchbaseRead
      [] op = "insert" -> CouchbaseInsert(s)
      [] op = "update" -> CouchbaseUpdate(s)
      [] op = "delete" -> CouchbaseDelete(s)
      [] op = "native_query" -> CouchbaseNativeQuery
      [] OTHER -> NoPlan

\* An error of another kind whose text speaks of a permission is taken for a denial.
map_couchbase_error(f, write) ==
    [refused |-> "InvalidRequest", exists |-> "Conflict", missing |-> "NotFound",
     misread |-> "PermissionDenied",
     busy |-> "RateLimited", down |-> Unsure(write, "Unavailable"),
     ambiguous |-> Unsure(write, "Protocol"), lost |-> Unsure(write, "Protocol"),
     garbled |-> Unsure(write, "Protocol")][f]

CouchbaseFails(op, i, f, write) ==
    IF op = "insert" /\ i > 1 THEN "UnknownOutcome" ELSE map_couchbase_error(f, write)

-----------------------------------------------------------------------------
(***************************************************************************)
(* HBase over Thrift.  Whether the rows exist is asked first; put and      *)
(* delete are unconditional.  The exchanges run on a blocking thread that  *)
(* nothing stops.                                                          *)
(***************************************************************************)
HBaseManifest == {"TestConnection", "Discover", "Describe", "Read", "Insert", "Update",
                  "Delete", "Batch"}

HBaseRead == <<Ask>>

HBaseInsert(s) == AskThen(Batch(s))

HBaseUpdate(s) == AskThen(Batch(s))

HBaseDelete(s) == AskThen(Batch(s))

HBaseExecute(op, s) ==
    CASE op = "read" -> HBaseRead
      [] op = "insert" -> HBaseInsert(s)
      [] op = "update" -> HBaseUpdate(s)
      [] op = "delete" -> HBaseDelete(s)
      [] OTHER -> NoPlan

HBaseReusable(category) == category = "ok"

\* The text of an I/O error that speaks of a permission, or of what is not found (which ends
\* the same way), is taken for a refusal before it is asked whether this was a write.
map_thrift_error(f, write) ==
    [refused |-> "InvalidRequest", exists |-> "Conflict", missing |-> "NotFound",
     misread |-> "PermissionDenied",
     busy |-> Unsure(write, "Unavailable"), down |-> Unsure(write, "Unavailable"),
     lost |-> Unsure(write, "Unavailable"), garbled |-> Unsure(write, "Protocol"),
     partial |-> Unsure(write, "Protocol")][f]

\* checkout waits for a permit; connect_client opens the socket.
HBaseConnectFails(f) == IF f = "busy" THEN "Timeout" ELSE "Unavailable"

-----------------------------------------------------------------------------
DocumentManifest(a) ==
    CASE a = "cql" -> CqlManifest
      [] a = "mongodb" -> MongoManifest
      [] a = "couchbase" -> CouchbaseManifest
      [] a = "hbase" -> HBaseManifest

DocumentPlan(a, op, s) ==
    CASE a = "cql" -> CqlExecute(op, s)
      [] a = "mongodb" -> MongoExecute(op, s)
      [] a = "couchbase" -> CouchbaseExecute(op, s)
      [] a = "hbase" -> HBaseExecute(op, s)

DocumentFails(a, op, i, kind, f) ==
    LET write == kind = "write" IN
    CASE a = "cql" -> CqlFails(op, i, f, write)
      [] a = "mongodb" -> map_mongo_error(f, write)
      [] a = "couchbase" -> CouchbaseFails(op, i, f, write)
      [] a = "hbase" -> map_thrift_error(f, write)

DocumentConnectFails(a, f) ==
    CASE a = "cql" -> map_session_error(f)
      [] a = "couchbase" -> IF f = "busy" THEN "Timeout" ELSE map_couchbase_error(f, FALSE)
      [] a = "hbase" -> HBaseConnectFails(f)
=============================================================================
