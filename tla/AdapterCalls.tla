---------------------------- MODULE AdapterCalls ----------------------------
(***************************************************************************)
(* Data operations in an adapter, from Connector::execute to the answer:   *)
(* the registry of running requests, the cache of pools and clients, the   *)
(* exchanges with the database, their failures, and the end of a call      *)
(* that is cancelled or runs out of time while an exchange is under way.   *)
(* The adapters themselves are SqlAdapters, DocumentAdapters and           *)
(* HttpAdapters; a behaviour is about one of them and one connection.      *)
(***************************************************************************)
EXTENDS SqlAdapters, DocumentAdapters, HttpAdapters

CONSTANTS
    Adapters,       \* the adapters of this instance
    Calls,          \* calls of execute
    Requests,       \* call -> what it may be asked
    Ids,            \* request ids
    Creds,          \* versions of the credential of the connection
    Cancellable,    \* request ids that are cancelled
    Stored,         \* the sets of records that are stored at first
    Records,
    Nobody,         \* no call, or no record
    PoolSize,       \* CONNECTION_POOL_SIZE of the adapters that keep their own pool
    MaxFaults,      \* bound: exchanges that fail and deadlines that pass
    MaxInvalidations    \* bound: changes of the profile or the credential the adapter hears of

AdapterNames ==
    SqlAdapterNames \cup DocumentAdapterNames \cup SearchAdapterNames \cup TimeSeriesAdapterNames

\* An operation on records; an insert without records is refused before anything else.
Request == [op : Operations, recs : Seq(Records) \ {<<>>}, limit : Nat \ {0}, id : Ids, cred : Creds]

ASSUME CallsAssumption ==
    /\ Adapters \subseteq AdapterNames
    /\ \A c \in Calls : Requests[c] \subseteq Request
    /\ Cancellable \subseteq Ids /\ Stored \subseteq SUBSET Records
    /\ 0 \notin Creds /\ Nobody \notin Calls \cup {"seed"}
    /\ PoolSize \in Nat \ {0} /\ MaxFaults \in Nat /\ MaxInvalidations \in Nat

VARIABLES
    adapter,
    table,          \* record -> Nobody (absent), "seed", or the call that wrote it
    registry,       \* request id -> the call running under it
    token,          \* call -> its cancellation token is cancelled
    cache,          \* credential -> the call that built the cached pool or client
    idle,           \* call -> the idle connections of the pool it built
    req, pc, at,    \* call -> its request, where it is, and the exchange it is at
    lease,          \* call -> the connection it holds
    staged,         \* call -> records its open transaction has written
    seen,           \* call -> the version of the document a Couchbase update has read
    result,         \* call -> the category of its answer
    faults, invalidations,
    \* histories
    done,           \* call -> records the database has written for it
    mistaken,       \* calls that failed in a way their adapter takes for a refusal
    clobbered       \* calls that replaced a record by an insert, or made one by an update

vars == <<adapter, table, registry, token, cache, idle, req, pc, at, lease, staged,
          seen, result, faults, invalidations, done, mistaken, clobbered>>

NoRequest == [op |-> "none", recs |-> <<>>, limit |-> 0, id |-> Nobody, cred |-> 0]

NoLease == [pool |-> Nobody, cred |-> 0, tx |-> FALSE, unread |-> FALSE]

Stations == {"new", "connect", "run", "rollback", "orphan", "detached", "ended"}

-----------------------------------------------------------------------------
(***************************************************************************)
(* The adapter of this behaviour.                                          *)
(***************************************************************************)
Sql == adapter \in SqlAdapterNames

Document == adapter \in DocumentAdapterNames

\* These packs run a call in a task of its own; the others poll it in place, after the token
\* and the deadline (select! biased).
SpawnsTask == Sql \/ Document

OwnPool == adapter \in {"sqlserver", "hbase"}

Manifest ==
    IF Sql THEN SqlManifest(adapter)
    ELSE IF Document THEN DocumentManifest(adapter) ELSE HttpManifest(adapter)

Routed(op) == route_matches_operation(op) \cap Manifest # {}

Op(c) == req[c].op

IsWrite(c) == operation_is_write(Op(c))

Plan(c) ==
    IF Sql THEN SqlPlan(adapter, Op(c), req[c].recs)
    ELSE IF Document THEN DocumentPlan(adapter, Op(c), req[c].recs)
    ELSE HttpPlan(adapter, Op(c), req[c].recs)

Step(c) == Plan(c)[at[c]]

\* Writes whose effect waits for a commit.
InTx(c) == IsWrite(c) /\ Plan(c)[Len(Plan(c))].kind = "commit"

ConnectFails(f) ==
    IF Sql THEN SqlConnectFails(adapter, f) ELSE DocumentConnectFails(adapter, f)

Fails(c, kind, f) ==
    IF Sql THEN SqlFails(adapter, kind, f, IsWrite(c))
    ELSE IF Document THEN DocumentFails(adapter, Op(c), at[c], kind, f)
    ELSE HttpFails(adapter, Op(c), at[c], kind, done[c] # {}, f)

-----------------------------------------------------------------------------
(***************************************************************************)
(* The database: which records of a write it refuses, which it reaches,    *)
(* and what a failed exchange may have done.                               *)
(***************************************************************************)
Present(r) == table[r] # Nobody

\* An insert of an existing record, or a change of a missing one, that the server refuses.
InsertsIfAbsent == SqlAdapterNames \cup {"cql", "mongodb", "couchbase", "elasticsearch"}

ChangesIfPresent == {"cql", "couchbase", "elasticsearch"}

\* Mutant: the INSERT of CQL without IF NOT EXISTS.
HinderedExceptCqlInsert(c, r) ==
    \/ Op(c) = "insert" /\ adapter \in InsertsIfAbsent \ {"cql"} /\ Present(r)
    \/ Op(c) \in {"update", "delete"} /\ adapter \in ChangesIfPresent /\ ~Present(r)
    \/ adapter = "couchbase" /\ Op(c) = "update" /\ table[r] # seen[c]

Hindered(c, r) ==
    \/ Op(c) = "insert" /\ adapter \in InsertsIfAbsent /\ Present(r)
    \/ Op(c) \in {"update", "delete"} /\ adapter \in ChangesIfPresent /\ ~Present(r)
    \/ adapter = "couchbase" /\ Op(c) = "update" /\ table[r] # seen[c]

Hindrance(c) ==
    IF Op(c) = "delete" \/ (Op(c) = "update" /\ \E r \in Step(c).recs : ~Present(r))
    THEN "missing" ELSE "exists"

\* Of a batch with refused records, what a server without transactions still writes: MongoDB
\* the documents before the first refused one, Elasticsearch all the others.
Spared(c) ==
    LET s == req[c].recs IN
    CASE adapter = "mongodb" ->
           {s[i] : i \in {j \in DOMAIN s : \A k \in 1..j : ~Hindered(c, s[k])}}
      [] adapter = "elasticsearch" -> {r \in Step(c).recs : ~Hindered(c, r)}
      [] OTHER -> {}

\* A change does not reach a missing record; an HBase put makes one.
Reachable(c) ==
    IF Op(c) = "delete" \/ (Op(c) = "update" /\ adapter # "hbase")
    THEN {r \in Step(c).recs : Present(r)} ELSE Step(c).recs

\* The sets of records that the write may reach.
Reaches(c) ==
    LET n == IF Cardinality(Reachable(c)) < req[c].limit
             THEN Cardinality(Reachable(c)) ELSE req[c].limit IN
    IF BoundedBySql(adapter, Op(c))
    THEN {R \in SUBSET Reachable(c) : Cardinality(R) = n}
    ELSE {Reachable(c)}

\* The statement of a relational write takes effect as a whole.
Parts(R) == IF Sql THEN {{}, R} ELSE SUBSET R

Leaves(f, R) ==
    CASE f \in {"refused", "busy"} -> {{}}
      [] f = "down" -> IF Sql THEN {{}} ELSE Parts(R)
      [] f \in {"lost", "ambiguous", "misread", "mixed"} -> Parts(R)
      [] f = "garbled" -> {R}
      [] f = "partial" -> SUBSET R \ {{}, R}

\* The failures of this database that are told apart.
SaysPartial == {"mongodb", "hbase", "elasticsearch", "milvus", "pinecone", "influxdb",
                "prometheus"}

SaysAmbiguous == {"cockroachdb", "cql", "mongodb", "couchbase"} \cup SearchAdapterNames
                 \cup TimeSeriesAdapterNames

\* The databases with failures that the error map does not list, or knows by their text.
SaysOtherwise == {"mongodb", "couchbase", "hbase"} \cup SearchAdapterNames
                 \cup TimeSeriesAdapterNames

\* Prometheus does not read the answer to a write it accepted, Weaviate not that to a delete.
ReadsAnswer(c) == adapter # "prometheus" /\ ~(adapter = "weaviate" /\ Op(c) = "delete")

Possible(c, kind) ==
    LET writes == kind \in {"write", "commit"} /\ IsWrite(c) IN
    {"refused", "busy", "down", "lost"}
      \cup (IF ReadsAnswer(c) THEN {"garbled"} ELSE {})
      \cup (IF writes /\ adapter \in SaysPartial THEN {"partial"} ELSE {})
      \cup (IF writes /\ adapter \in SaysAmbiguous THEN {"ambiguous"} ELSE {})
      \cup (IF writes /\ adapter \in SaysOtherwise THEN {"misread"} ELSE {})
      \cup (IF writes /\ adapter = "elasticsearch" /\ Len(req[c].recs) > 1 THEN {"mixed"} ELSE {})

\* The failures that a pack reports as refusals although the database may have written: an
\* answer to a write that cannot be read, where the error map does not ask whether it was a
\* write; a connection that breaks under a time-series write (map_reqwest); the SQLSTATE of
\* CockroachDB for an unknown result (class 40); a status, a code or a text that says something
\* else than the error map makes of it; bulk items that failed for different reasons.
MistakenForRefusal(f) ==
    \/ f = "garbled" /\ adapter \in {"mysql", "sqlserver", "cql", "mongodb", "elasticsearch",
                                     "milvus", "pinecone", "qdrant", "splunk", "influxdb"}
    \/ f = "lost" /\ adapter \in {"influxdb", "prometheus"}
    \/ f = "ambiguous" /\ adapter = "cockroachdb"
    \/ f \in {"misread", "mixed"}

\* Milvus and Splunk add a record whatever there is; a Couchbase update is meant for the
\* version of the document that it read.
Clobbers(c, R) ==
    \/ Op(c) = "insert" /\ adapter \notin {"milvus", "splunk"} /\ \E r \in R : Present(r)
    \/ Op(c) = "update" /\ \E r \in R : ~Present(r)
    \/ Op(c) = "update" /\ adapter = "couchbase" /\ \E r \in R : table[r] # seen[c]

\* The database writes the records R for call c.
Apply(c, R) ==
    /\ table' = [r \in Records |-> IF r \notin R THEN table[r]
                                   ELSE IF Op(c) = "delete" THEN Nobody ELSE c]
    /\ done' = [done EXCEPT ![c] = @ \cup R]
    /\ clobbered' = IF Clobbers(c, R) THEN clobbered \cup {c} ELSE clobbered

NoEffect == UNCHANGED <<table, done, clobbered>>

-----------------------------------------------------------------------------
(***************************************************************************)
(* Admission, credentials and cancellation.                                *)
(***************************************************************************)
Init ==
    /\ adapter \in Adapters
    /\ \E S \in Stored : table = [r \in Records |-> IF r \in S THEN "seed" ELSE Nobody]
    /\ registry = [i \in Ids |-> Nobody]
    /\ token = [c \in Calls |-> FALSE]
    /\ cache = [v \in Creds |-> Nobody]
    /\ idle = [c \in Calls |-> <<>>]
    /\ req = [c \in Calls |-> NoRequest]
    /\ pc = [c \in Calls |-> "new"]
    /\ at = [c \in Calls |-> 1]
    /\ lease = [c \in Calls |-> NoLease]
    /\ staged = [c \in Calls |-> {}]
    /\ seen = [c \in Calls |-> Nobody]
    /\ result = [c \in Calls |-> "none"]
    /\ faults = 0 /\ invalidations = 0
    /\ done = [c \in Calls |-> {}]
    /\ mistaken = {}
    /\ clobbered = {}

Running(c) == pc[c] \in {"connect", "run", "rollback"}

\* A polled call makes no step once its token is cancelled.
Proceeds(c) == SpawnsTask \/ ~token[c]

\* CancellationRegistry::run, HttpRuntime::run: one call for each request id.  A call carries
\* the credential the runtime read for it, which need not be the last one.
Start(c, r) ==
    /\ pc[c] = "new" /\ Routed(r.op)
    /\ req' = [req EXCEPT ![c] = r]
    /\ IF registry[r.id] = Nobody
       THEN /\ registry' = [registry EXCEPT ![r.id] = c]
            /\ pc' = [pc EXCEPT ![c] = "connect"]
            /\ UNCHANGED result
       ELSE /\ pc' = [pc EXCEPT ![c] = "ended"]
            /\ result' = [result EXCEPT ![c] = "Conflict"]
            /\ UNCHANGED registry
    /\ NoEffect
    /\ UNCHANGED <<adapter, invalidations, token, cache, idle, at, lease, staged, seen, faults,
                   mistaken>>

Cancel(i) ==
    /\ i \in Cancellable /\ registry[i] # Nobody /\ ~token[registry[i]]
    /\ token' = [token EXCEPT ![registry[i]] = TRUE]
    /\ NoEffect
    /\ UNCHANGED <<adapter, invalidations, registry, cache, idle, req, pc, at, lease, staged, seen,
                   result, faults, mistaken>>

\* The runtime has heard of a change to the connection.
invalidate_connection ==
    /\ invalidations < MaxInvalidations /\ \E v \in Creds : cache[v] # Nobody
    /\ invalidations' = invalidations + 1
    /\ cache' = [v \in Creds |-> Nobody]
    /\ NoEffect
    /\ UNCHANGED <<adapter, registry, token, idle, req, pc, at, lease, staged, seen, result,
                   faults, mistaken>>

-----------------------------------------------------------------------------
(***************************************************************************)
(* Connecting.  The key of the cache is the connection and a hash of its   *)
(* profile and secret; a miss drops the entries of the same connection.    *)
(***************************************************************************)
\* Mutant: the key leaves the secret out.
connection_cache_key_of_profile(c) == CHOOSE v \in Creds : TRUE

connection_cache_key(c) == req[c].cred

Pool(c) ==
    LET cached == cache[connection_cache_key(c)] IN IF cached = Nobody THEN c ELSE cached

Cached(c) ==
    IF cache[connection_cache_key(c)] # Nobody THEN cache
    ELSE [v \in Creds |-> IF v = connection_cache_key(c) THEN c ELSE Nobody]

\* The credential a pool or client logs in with is that of the call that built it.
Fresh(c) == [pool |-> Pool(c), cred |-> req[Pool(c)].cred, tx |-> FALSE, unread |-> FALSE]

Leases(p) == {d \in Calls : lease[d].pool = p}

PermitFree(p) == ~OwnPool \/ Cardinality(Leases(p)) < PoolSize

Connect(c) ==
    LET p == Pool(c)
        stack == idle[p] IN
    /\ pc[c] = "connect" /\ Proceeds(c) /\ PermitFree(p)
    /\ cache' = Cached(c)
    /\ lease' = [lease EXCEPT ![c] = IF stack = <<>> THEN Fresh(c) ELSE stack[Len(stack)]]
    /\ idle' = [idle EXCEPT ![p] = IF @ = <<>> THEN @ ELSE SubSeq(@, 1, Len(@) - 1)]
    /\ pc' = [pc EXCEPT ![c] = "run"]
    /\ NoEffect
    /\ UNCHANGED <<adapter, invalidations, registry, token, req, at, staged, seen, result, faults,
                   mistaken>>

-----------------------------------------------------------------------------
(***************************************************************************)
(* The end of a call: its answer is classified, its registry entry goes,   *)
(* and its connection is kept or closed.                                   *)
(***************************************************************************)
Keeps(category, truncated) ==
    \/ adapter = "sqlserver" /\ mark_reusable(category, truncated)
    \/ adapter = "hbase" /\ HBaseReusable(category)

Release(c, category, truncated) ==
    /\ idle' = IF lease[c] # NoLease /\ Keeps(category, truncated)
               THEN [idle EXCEPT ![lease[c].pool] =
                       Append(@, [lease[c] EXCEPT !.unread = truncated /\ adapter = "sqlserver"])]
               ELSE idle
    /\ lease' = [lease EXCEPT ![c] = NoLease]

\* Mutant: the entry of an answered call stays in the registry.
AnswerKeepsEntry(c, category) ==
    /\ result' = [result EXCEPT ![c] = classify_operation_error(category, IsWrite(c))]
    /\ token' = [token EXCEPT ![c] = FALSE]
    /\ UNCHANGED registry

Answer(c, category) ==
    /\ result' = [result EXCEPT ![c] = classify_operation_error(category, IsWrite(c))]
    /\ registry' = [registry EXCEPT ![req[c].id] = Nobody]
    /\ token' = [token EXCEPT ![c] = FALSE]

\* The task of a detached call has nobody to answer to.
EndTask(c, category, truncated) ==
    /\ pc' = [pc EXCEPT ![c] = "ended"]
    /\ at' = [at EXCEPT ![c] = 1]
    /\ staged' = [staged EXCEPT ![c] = {}]
    /\ Release(c, category, truncated)
    /\ IF pc[c] = "detached" THEN UNCHANGED <<result, registry, token>> ELSE Answer(c, category)

\* HBase only waits for a permit here, and connects in its first exchange.
ConnectFault(f) ==
    \/ Sql \/ adapter \in {"cql", "couchbase"}
    \/ adapter = "hbase" /\ f = "busy"

ConnectFail(c, f) ==
    /\ pc[c] = "connect" /\ Proceeds(c) /\ faults < MaxFaults /\ ConnectFault(f)
    /\ cache' = IF Document /\ ~OwnPool THEN cache ELSE Cached(c)
    /\ faults' = faults + 1
    /\ UNCHANGED mistaken
    /\ EndTask(c, ConnectFails(f), FALSE)
    /\ NoEffect
    /\ UNCHANGED <<adapter, invalidations, req, seen>>

-----------------------------------------------------------------------------
(***************************************************************************)
(* Exchanges.                                                              *)
(***************************************************************************)
Working(c) == pc[c] \in {"run", "detached"} /\ Proceeds(c)

\* Mutant: the number of records of a relational insert is not compared with max_affected.
BoundedBeforeOutsideSql(c) == ~Sql

\* Writes that are bounded before they are sent: by their number of records, or by the keys
\* in their filter.
BoundedBefore(c) == ~(Sql /\ Op(c) \in {"update", "delete", "native_execute"})

\* A CQL primary key, a Couchbase document id and an HBase row key name one record.
OneKey(c) ==
    \/ adapter \in {"cql", "couchbase", "hbase"} /\ Op(c) \in {"update", "delete"}
    \/ adapter = "cql" /\ Op(c) = "native_execute"

Refused(c) ==
    \/ Plan(c) = NoPlan
    \/ OneKey(c) /\ Len(req[c].recs) > 1
    \/ IsWrite(c) /\ BoundedBefore(c) /\ Len(req[c].recs) > req[c].limit

Refuse(c) ==
    /\ Working(c) /\ Refused(c)
    /\ EndTask(c, IF Plan(c) = NoPlan THEN "Unsupported" ELSE "InvalidRequest", FALSE)
    /\ NoEffect
    /\ UNCHANGED <<adapter, invalidations, cache, req, seen, faults, mistaken>>

\* The call is at an exchange of this kind.
At(c, kind) ==
    /\ Working(c) /\ ~Refused(c)
    /\ at[c] <= Len(Plan(c)) /\ Step(c).kind = kind

NextExchange(c) ==
    /\ at' = [at EXCEPT ![c] = @ + 1]
    /\ UNCHANGED <<adapter, invalidations, registry, token, cache, idle, req, pc, result, faults,
                   mistaken>>

Target(c) == req[c].recs[1]

\* What an answer to a question makes an HBase write, and a Couchbase update, stop at.
Stops(c) ==
    CASE adapter = "hbase" /\ Op(c) = "insert" /\ (\E r \in Elements(req[c].recs) : Present(r))
           -> "Conflict"
      [] adapter = "hbase" /\ Op(c) \in {"update", "delete"} /\ ~Present(Target(c)) -> "NotFound"
      [] adapter = "couchbase" /\ Op(c) = "update" /\ ~Present(Target(c)) -> "NotFound"
      [] OTHER -> "goes on"

AskDatabase(c) ==
    /\ At(c, "ask") /\ Stops(c) = "goes on"
    /\ seen' = [seen EXCEPT ![c] = IF adapter = "couchbase" /\ IsWrite(c)
                                  THEN table[Target(c)] ELSE Nobody]
    /\ NextExchange(c)
    /\ NoEffect
    /\ UNCHANGED <<lease, staged>>

StopAtAnswer(c) ==
    /\ At(c, "ask") /\ Stops(c) # "goes on"
    /\ EndTask(c, Stops(c), FALSE)
    /\ NoEffect
    /\ UNCHANGED <<adapter, invalidations, cache, req, seen, faults, mistaken>>

BeginTransaction(c) ==
    /\ At(c, "begin")
    /\ lease' = [lease EXCEPT ![c].tx = TRUE]
    /\ NextExchange(c)
    /\ NoEffect
    /\ UNCHANGED <<staged, seen>>

Refusals(c) == {r \in Step(c).recs : Hindered(c, r)}

\* A statement waits for the rows that another open transaction has written.
RowsFree(c) == \A d \in Calls \ {c} : staged[d] \cap Step(c).recs = {}

\* A write of its own.
WriteRecords(c) ==
    /\ At(c, "write") /\ ~InTx(c) /\ RowsFree(c) /\ Refusals(c) = {}
    /\ \E R \in Reaches(c) : Apply(c, R)
    /\ NextExchange(c)
    /\ UNCHANGED <<lease, staged, seen>>

\* A write inside a transaction: one that affects too many records is rolled back.
StageRecords(c) ==
    /\ At(c, "write") /\ InTx(c) /\ RowsFree(c) /\ Refusals(c) = {}
    /\ \E R \in Reaches(c) :
         /\ staged' = [staged EXCEPT ![c] = R]
         /\ IF Cardinality(R) > req[c].limit
            THEN pc' = [pc EXCEPT ![c] = "rollback"] /\ UNCHANGED at
            ELSE at' = [at EXCEPT ![c] = @ + 1] /\ UNCHANGED pc
    /\ NoEffect
    /\ UNCHANGED <<adapter, invalidations, registry, token, cache, idle, req, lease, seen, result,
                   faults, mistaken>>

\* The server refuses records of the write.
WriteRefused(c) ==
    LET f == IF Spared(c) = {} THEN Hindrance(c) ELSE "partial" IN
    /\ At(c, "write") /\ RowsFree(c) /\ Refusals(c) # {}
    /\ Apply(c, Spared(c))
    /\ EndTask(c, Fails(c, "write", f), FALSE)
    /\ UNCHANGED <<adapter, invalidations, cache, req, seen, faults, mistaken>>

CommitTransaction(c) ==
    /\ At(c, "commit")
    /\ Apply(c, staged[c])
    /\ staged' = [staged EXCEPT ![c] = {}]
    /\ lease' = [lease EXCEPT ![c].tx = FALSE]
    /\ NextExchange(c)
    /\ UNCHANGED seen

Rollback(c) ==
    /\ pc[c] = "rollback" /\ Proceeds(c)
    /\ EndTask(c, "PermissionDenied", FALSE)
    /\ NoEffect
    /\ UNCHANGED <<adapter, invalidations, cache, req, seen, faults, mistaken>>

\* What the exchange under way would write.
Targets(c) ==
    IF pc[c] = "rollback" THEN {{}}
    ELSE CASE Step(c).kind = "commit" -> {staged[c]}
           [] Step(c).kind = "write" /\ ~InTx(c) ->
                IF Refusals(c) = {} THEN Reaches(c) ELSE {Spared(c)}
           [] OTHER -> {{}}

\* An exchange fails; the transaction it belongs to is rolled back when its connection goes.
ExchangeFails(c, f) ==
    /\ faults < MaxFaults
    /\ \/ \E kind \in {"ask", "begin", "write", "commit"} : At(c, kind)
       \/ pc[c] = "rollback" /\ Proceeds(c)
    /\ LET kind == IF pc[c] = "rollback" THEN "rollback" ELSE Step(c).kind IN
       /\ f \in Possible(c, kind)
       /\ \E R \in Targets(c) : \E E \in Leaves(f, R) : Apply(c, E)
       /\ EndTask(c, Fails(c, kind, f), FALSE)
    /\ faults' = faults + 1
    /\ mistaken' = IF MistakenForRefusal(f) THEN mistaken \cup {c} ELSE mistaken
    /\ UNCHANGED <<adapter, invalidations, cache, req, seen>>

\* Milvus and Weaviate answer a delete that reached nothing with NotFound.
Outcome(c) ==
    IF Op(c) = "delete" /\ adapter \in {"milvus", "weaviate"} /\ done[c] = {}
    THEN "NotFound" ELSE "ok"

Finish(c) ==
    /\ Working(c) /\ ~Refused(c) /\ at[c] > Len(Plan(c))
    /\ \E truncated \in (IF IsWrite(c) THEN {FALSE} ELSE BOOLEAN) :
         EndTask(c, Outcome(c), truncated)
    /\ NoEffect
    /\ UNCHANGED <<adapter, invalidations, cache, req, seen, faults, mistaken>>

-----------------------------------------------------------------------------
(***************************************************************************)
(* Interruption.  The task is aborted and its connection closed; a write   *)
(* that is under way reaches the database or not.  The blocking thread of  *)
(* an HBase call is not stopped: it makes its remaining exchanges.         *)
(***************************************************************************)
InFlight(c) ==
    /\ pc[c] = "run" /\ ~Refused(c) /\ at[c] <= Len(Plan(c))
    /\ \E R \in Targets(c) : R # {}

Interrupt(c, cancelled) ==
    /\ Running(c)
    /\ IF cancelled THEN token[c] /\ UNCHANGED faults
       ELSE faults < MaxFaults /\ faults' = faults + 1
    /\ result' = [result EXCEPT ![c] = interrupted_error(IsWrite(c), cancelled)]
    /\ registry' = [registry EXCEPT ![req[c].id] = Nobody]
    /\ token' = [token EXCEPT ![c] = FALSE]
    /\ IF adapter = "hbase" /\ pc[c] = "run"
       THEN pc' = [pc EXCEPT ![c] = "detached"] /\ UNCHANGED <<lease, staged>>
       ELSE /\ pc' = [pc EXCEPT ![c] = IF InFlight(c) THEN "orphan" ELSE "ended"]
            /\ lease' = [lease EXCEPT ![c] = NoLease]
            /\ staged' = [staged EXCEPT ![c] = IF InFlight(c) THEN @ ELSE {}]
    /\ NoEffect
    /\ UNCHANGED <<adapter, invalidations, cache, idle, req, at, seen, mistaken>>

\* The database has read the request of an aborted call, or not.
Late(c) ==
    /\ pc[c] = "orphan"
    /\ \E R \in Targets(c) : \E E \in Parts(R) : Apply(c, E)
    /\ pc' = [pc EXCEPT ![c] = "ended"]
    /\ staged' = [staged EXCEPT ![c] = {}]
    /\ at' = [at EXCEPT ![c] = 1]
    /\ UNCHANGED <<adapter, invalidations, registry, token, cache, idle, req, lease, seen, result,
                   faults, mistaken>>

-----------------------------------------------------------------------------
CallStep(c) ==
    \/ \E r \in Requests[c] : Start(c, r)
    \/ Connect(c)
    \/ \E f \in {"refused", "busy", "down", "lost"} : ConnectFail(c, f)
    \/ Refuse(c) \/ AskDatabase(c) \/ StopAtAnswer(c) \/ BeginTransaction(c)
    \/ WriteRecords(c) \/ StageRecords(c) \/ WriteRefused(c)
    \/ CommitTransaction(c) \/ Rollback(c)
    \/ \E f \in Faults : ExchangeFails(c, f)
    \/ Finish(c)
    \/ \E cancelled \in BOOLEAN : Interrupt(c, cancelled)
    \/ Late(c)

Next ==
    \/ \E c \in Calls : CallStep(c)
    \/ \E i \in Ids : Cancel(i)
    \/ invalidate_connection

Spec == Init /\ [][Next]_vars

-----------------------------------------------------------------------------
(***************************************************************************)
(* Properties.                                                             *)
(***************************************************************************)
\* Every variable has its type.
TypeOK ==
    /\ adapter \in Adapters
    /\ table \in [Records -> Calls \cup {Nobody, "seed"}]
    /\ registry \in [Ids -> Calls \cup {Nobody}]
    /\ token \in [Calls -> BOOLEAN]
    /\ cache \in [Creds -> Calls \cup {Nobody}]
    /\ \A c \in Calls :
         /\ Len(idle[c]) <= PoolSize
         /\ pc[c] \in Stations /\ at[c] \in Nat \ {0}
         /\ lease[c].pool \in Calls \cup {Nobody}
         /\ staged[c] \subseteq Records /\ done[c] \subseteq Records
         /\ seen[c] \in Calls \cup {Nobody, "seed"}
         /\ result[c] \in Categories \cup {"none"}
    /\ faults \in 0..MaxFaults /\ invalidations \in 0..MaxInvalidations
    /\ clobbered \subseteq Calls /\ mistaken \subseteq Calls

Definite(category) == category \notin {"none", "ok", "UnknownOutcome"}

\* A call that answers with a failure other than an unknown outcome has written nothing and
\* never will: not by an exchange that failed, by one that was under way when the call was
\* interrupted, or by a thread that outlives it; except for the failures above.
FailedLeavesNothing ==
    \A c \in Calls :
        Definite(result[c]) /\ c \notin mistaken => done[c] = {}

\* The same without exception, as the architecture promises.
NeverClaimsFailure == \A c \in Calls : Definite(result[c]) => done[c] = {}

\* An insert, an upsert or an append that succeeds has written every record it was given,
\* however many exchanges that took.
SucceededIsComplete ==
    \A c \in Calls :
        result[c] = "ok" /\ Op(c) \in {"insert", "vector_upsert", "time_series_write"}
          => done[c] = Elements(req[c].recs)

\* No write affects more records than max_affected, whether the statement, the transaction or
\* a check beforehand bounds it, and whatever became of the call.
WithinMaxAffected == \A c \in Calls : Cardinality(done[c]) <= req[c].limit

\* A connection waits in an adapter's own pool only between uses: without an open transaction
\* and without rows of an earlier result that the next use would read.
IdleIsClean ==
    \A p \in Calls : \A i \in DOMAIN idle[p] : ~idle[p][i].tx /\ ~idle[p][i].unread

\* A call uses a connection that was opened with the credential the call was given, through
\* rotations, invalidations and calls that still carry the old credential.
OwnCredential ==
    \A c \in Calls : lease[c] # NoLease => lease[c].cred = req[c].cred

\* A call can be cancelled under its request id exactly as long as it runs; a second call under
\* the same id neither takes its place nor removes it.
RegistryFollowsCalls ==
    \A c \in Calls : Running(c) <=> \E i \in Ids : registry[i] = c

\* The registry, the pools (at most PoolSize idle connections each) and the calls fit together.
CallsWellFormed == TypeOK /\ RegistryFollowsCalls

\* An insert never replaces a record, an update never makes one, and a Couchbase update never
\* replaces a version it has not read, in spite of concurrent calls; only in HBase, when another
\* call wrote the row between the question and the put.
ConditionalWritesHold ==
    \A c \in clobbered :
        adapter = "hbase" /\ \E d \in Calls \ {c} : done[d] \cap done[c] # {}
=============================================================================
