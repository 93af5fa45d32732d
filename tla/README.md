# A TLA+ model of sql-connector

sql-connector lets an MCP client run database operations through connector packs. This
directory holds TLA+ modules that model its core and its adapters, the TLC configurations
that check them and TLAPS proofs of what matters most. Paths below are relative to the repository;
`PROJECT.json` maps every definition to the lines it models.

## 1. The system

| Component | State it keeps | Operations | Hard behaviour |
|---|---|---|---|
| `connector-runtime` (`runtime.rs`) | the request map of a process, two kinds of semaphores, one control word per call (`RequestState`), the cached profile revisions, masked cursors | the four tool calls, `cancel`, `invalidate_connection` | calls interleave at every await; a dozen early returns must give back the map entry and two permits; timeouts and cancellations race answers; writes outlive the call |
| `connector-store/audit.rs` | `audit.sqlite`: consumed grant nonces, idempotency rows, audit events; shared by all processes | consume a nonce, reserve / mark / release a key, append an event | several processes; a crash between two transactions; a store that fails |
| `connector-store/profile.rs` | `profiles.sqlite`: profiles and a revision per connection; shared | upsert, get, delete, `notify_changed`, `connection_revisions` | read by calls that use the result much later |
| `connector-store/credential.rs` | the operating system's keychain (on Windows a secret is split into chunks), or an encrypted sqlite file that is pinned to one key | open, get, put, delete | a second store, without a common transaction; several processes with different key files |
| `connector-policy` | none | `classify`, `evaluate`, verify a grant | pure; the expiry of grants |
| `connector-control` | none of its own; changes profiles and credentials | create, update, `set_policy`, `set_enabled`, `replace_secret`, `replace_connection`, delete, issue a grant | read-modify-write over two stores with rollback by hand, each command in its own process |
| `apps/sql-connector/main.rs` | the monitor's remembered revisions | `run_mcp`, `monitor_connection_changes`, commands | the monitor polls while calls run |
| `connector-ipc` | per pack: generation, client, stopping flag, tombstones; per client: pending map and response reader | `call`, `shutdown`, `restart`, `recover`; cancel and invalidate with a timeout | workers die under calls; several calls recover at once; a lock is held over a launch; futures are dropped |
| `apps/sql-connector/worker.rs` | active requests, cancelled ids, data-call permits | the request loop, `dispatch` | a cancellation races the request it names |
| `connector-mcp` | the map of running schema inspections | tool calls, `db_inspect_schema`, `db_cancel` | an inspection is many requests of the runtime under one id, and a cancellation may fall between two |
| `connector-core` | none | the operations, categories and manifests that the packs share; the checks of a connection input; the cache key of a client | checks that every adapter repeats |
| `connectors-sql`, `-document`, `-http`, `-timeseries` | client and pool caches, cancellation registries | `validate_connection_input`, `test_connection`, `execute`, `search_catalog_page`, `cancel`, `invalidate_connection` | replies are lost after the server has acted; transactions and batches fail in part; connections are reused; cursors of several kinds |
| `ui` | its own database | a chat front end | not part of the connector |

How they interact. An MCP process (there may be several) owns a `Runtime`; a tool call
enters the request map, takes permits, loads its profile, is authorized (by policy, or by
a grant that the desktop signed), consumes the grant, reserves its idempotency key, and
calls a connector. In the MCP process the connector is a proxy (`WorkerConnector`) that
hands the call to a worker process over a pipe. The monitor polls the revisions of
`profiles.sqlite` and invalidates the connections that changed, which cancels their calls
here and in the worker. The control plane, in other processes, writes profiles and
credentials at any time.

## 2. Modules

| Module | Models |
|---|---|
| `WriteOnce` | the abstract promise about writes: one effect per idempotency key, and answers that agree with the effect |
| `AuditStore` | the tables of `audit.sqlite` and the transactions on them, each of which may fail |
| `Runtime` | the life of a tool call, the monitor, crashes and restarts of MCP processes, and the control plane as the calls see it; extends `AuditStore` |
| `RuntimeProofs`, `RuntimeWriteProofs`, `RuntimeGuardProofs` | theorems about `Runtime` |
| `WorkerIpc` | supervisor, clients, response readers and workers of one connector pack |
| `CredentialStore` | both credential stores, one access at a time |
| `ControlPlane` | the commands that administer connections; extends `CredentialStore` |
| `AdapterBase` | operations, categories, faults and plans that the adapters share |
| `SqlAdapters`, `DocumentAdapters`, `HttpAdapters` | what each adapter sends for an operation, and how it reads a failure; no state |
| `AdapterCalls` | `execute` in an adapter: registry, cache, exchanges, failures, interruption; extends the three |
| `Pages` | one page of each adapter, as operators on the rows the database holds |
| `ConnectionSetup` | an input is checked, saved, tested and opened |
| `Paging` | clients that page through a table or a catalog; extends `Pages` and `ConnectionSetup` |
| `SchemaInspection` | `db_inspect_schema` and `db_cancel` |
| `AdapterSession` | the composition of the last three |
| `WorkerIpcProofs` | theorems about `WorkerIpc` |
| `ControlPlaneProofs`, `ControlSecretProofs` | theorems about `ControlPlane` and `CredentialStore` |
| `AdapterCallsProofs`, `AdapterSessionProofs` | theorems about `AdapterCalls` with the adapters, and about `ConnectionSetup`, `Paging` and `SchemaInspection` in `AdapterSession` |
| `MCRuntime`, `MCWorkerIpc`, `MCControlPlane`, `MCAdapterCalls`, `MCAdapterSession` | the instances that TLC checks |

### Runtime

A call `c` is a constant record `Request[c]` (process, request id, connection, kind,
operation, key, grant); a retry is another call with the same key. `pc[c]` is the place it
has reached, in the order of the code:

    idle -> inserted -> admitted -> reserved -> (invalidating) -> loaded -> authorized
         -> active -> granted -> ready -> running -> settled -> concluding -> done

with one action for each arrow (`InsertRequest`, `AcquireGlobal`, `AcquireConnection`,
`LoadProfile`, ..., `Conclude`); an early return is a disjunct of the action in which the
code takes it and runs `Return`, which is the drop of `RequestGuard`. `lost` is a call whose
process crashed. `requests` is the request map, `globalHolders` and `connHolders` are the
holders of the semaphores, `ctl[c]` is `RequestState`, `snap[c]` the profile the call
loaded and `snapRev[c]` its revision. `wire` are the writes that a database has been
sent and may still apply; `applied` those that took effect: `DatabaseApplies` may happen
after the runtime stopped waiting, and after a crash. `seen`, `monTarget`, `monTodo` and
`monVictims` are the local variables of the monitor.

Steps are as large as the code makes them atomic: a stretch under a mutex, one SQLite
transaction, or the code between two awaits. Signatures of grants are unforgeable, so a
grant is a member of `issued` with the claims, policy version and expiry that the desktop
signed. Data is abstracted: an operation is a value that is compared, as its canonical
hash is; a result is within the limits or too large.

### WorkerIpc

A job is one call of `WorkerSupervisor`: a data call (read or write), a `Cancel`, an
`InvalidateConnection` or the `Shutdown`. `Enter` is the block under the supervisor's lock
in `call` (and in `shutdown`); `Send` is `WorkerClient::call` up to the wait; `Recover`,
`Launched` and `Retry` are the rest of `call` with the lock held from `Recover` to
`Launched`; `ControlTimesOut`, `Restart` and `Relaunched` are the 750 ms timeout and
`restart`. `RouteReply`, `ReaderEnds` and `StreamFails` are `read_responses`. In the
worker, `ReadEnvelope` is one turn of the request loop, `StartTask` and `EndTask` are
`dispatch_data`, `EndControl` the dispatch of a control call. A process ends by itself
(`WorkerDies`), is killed by `restart` or by `kill_on_drop`; what it had in memory is gone
and what it wrote is still read. A future that is dropped while it writes an envelope
leaves the worker with half a frame (`Interrupt`): such a process is `deaf`.

Simplifications: entering the pending map and writing the envelope are one step (failing
the entry in between looks like failing it after); a finished request leaves `active`,
gives back its permit and writes its reply in one step; tombstones neither expire nor
overflow; payloads always encode and decode.

### CredentialStore and ControlPlane

Each command (create, update, `set_policy`, `set_enabled`, rotate, replace secret, replace
connection, delete, test, authorize, and the start of an MCP process, which loads the
authorization key) is a process `p` at `pc[p]`; one action is one access to
`profiles.sqlite`, one step of a credential store or one await. Nothing is locked between
them, so `existing[p]`, `draft[p]` and `previous[p]`, the local variables of
`connector-control`, may be stale when they are used. `Kill` is the desktop's timeout. A
store operation is a small machine of its own (`cred[p]`): for the chunked keychain `PutChunks`,
`PutHeader`, `PutClean`, `GetHeader`, `GetChunks`, `DeleteBegin`, `DeleteEntry`, each of which may
fail; for the sqlite file one transaction, and `VerifyOrInitializeKey` when it is opened.
A secret is a kind and a value; encryption is authentic, so a row opens under the key it
was written with and no other. `overlapped`, `before` and `announced` are histories. A command
overlaps with another one if they name the same connection or touch the same credential
reference (`RefsOf`, `UsedRefs`): the rows it has read, the one that is stored, and for a
creation the reference it asks for. A command is completed when it is parsed (`Complete`):
a creation has a policy and credentials, and `KindsAgree` is `ensure_auth_kind`.

### AdapterBase, SqlAdapters, DocumentAdapters, HttpAdapters, AdapterCalls

A behaviour is about one of seventeen adapters and one connection. An adapter module says, for
every operation, the plan: the exchanges with the database (`ask`, `begin`, `write`, `commit`)
that the operation becomes, and, for every way an exchange can fail, the error category the
adapter makes of it. `AdapterCalls` runs the plans: `Start` enters the cancellation registry,
`Connect` takes a client from the cache or builds one, `AskDatabase`, `WriteRecords`,
`StageRecords`, `CommitTransaction`, `Rollback` are exchanges that succeed, `WriteRefused` and
`ExchangeFails` ones that do not, `Finish` is the answer. `Interrupt` is a cancellation or the
deadline; the write that was under way then reaches the database or not (`Late`), and an
HBase call, which is a blocking thread, makes its remaining exchanges (`detached`). What a
failed exchange has done is a choice over what its database allows (`Leaves`): nothing, all,
or, where a batch is not atomic, a part. Beside what every exchange can meet (refused, busy,
down, lost, garbled) there are failures that an error map reads differently from what they
are: `misread` is a status, a code or a text that it does not list or knows only by its words
(an I/O error of HBase that mentions a permission, a body code of Milvus, an HTTP status behind
a gateway, unlisted codes of MongoDB and Couchbase), `mixed` are items of an Elasticsearch bulk
request that failed for different reasons, of which the adapter makes one `InvalidRequest`.
Connections of the pools that the adapters write
themselves (SQL Server, HBase) are values in `idle`, with what an earlier use left on them.

The text of statements, request bodies and value conversion are abstracted away: a record is
a model value, and a statement names the records it affects. A request has at least one record
where the adapter refuses an empty one (`cql.rs:1058`, `couchbase.rs:660`, `hbase.rs:727`); this
is part of `Request`, which `CallsAssumption` requires of every request.

### Pages, ConnectionSetup, Paging, SchemaInspection, AdapterSession

`Pages` translates what each adapter asks its database for (mostly one row more than the
limit), what it keeps within `max_rows` and `max_bytes`, and which cursor it hands out: an
offset, a row, or for CQL a server page with a number of rows to skip. Rows are numbers in
the order of the read, each with a size. `Paging` adds the runtime: limits on the way back, the
loop of a catalog search with entries that the policy hides, and the registry of masked
cursors; other clients insert and delete rows between pages. A masked cursor is replaced by its
token after the result was measured, and `TokenBytes` is what the token is longer than the cursor.

`ConnectionSetup` has an input with the fields that the checks look at: authentication, secret
(complete, of another kind, with or without certificates that parse), scheme, port, TLS,
certificates, server name, and a connection string by its parts (hosts, ports, database, the way
to the server, what it says of TLS). Saving, testing and connecting have their own checks in
every adapter, and each is translated on its own. A link that is opened is a record of where it
goes, computed from what the adapter gives its driver (`Reached`), and the checks on a
connection string compare its parts with the profile's as the code does; nothing says in
advance that the two agree. Splunk and Pinecone have a second client (`data`): events go to
`hec_endpoint`, or to the endpoint with port 8088 for 8089, under a token of their own
(`OpenHec`); the data of a Pinecone index go to a host from the options or from an answer of the
control plane (`OpenIndex`). What a test makes of the server's answer is left open.

`SchemaInspection` has one request id under which inspections, other calls and cancellations
meet. `AdapterSession` goes from input to link to use; reading and inspecting share no state
but the link, so a behaviour has one of them.

## 3. Runs

| Run | Checks | The instance, and its bounds |
|---|---|---|
| `runtime_writes` | `TypeOK`, `AtMostOnce`, `KeyIsRemembered`, `SucceededIsTrue`, `MapFollowsCalls`, `ImplementsWriteOnce` | three writes under one key, two processes, one of them sends its request again under the same id and grant; one crash and one failing store transaction |
| `runtime_changes` | `GrantUsedOnce`, `NoStaleDispatch`, `CancelIsFinal` | two concurrent writes that carry one grant, two changes of the connection, one tick of the clock (the lifetime of the grant); the two calls are symmetric |
| `runtime_progress` | `PermitsFollowCalls`, `SentIsAudited`, `EveryCallReturns`, `EveryChangeIsSeen` | a confirmed write and a read that compete for the one permit of their connection, one change, one crash; liveness |
| `runtime_oversize` | `NeverClaimsCommittedWriteFailed` | **violated**, see section 5 |
| `worker_calls` | `TypeOK`, `WritesGoOutOnce`, `CancelStopsTheRequest`, `ReplacedIsBroken`, `ImplementsWriteOnce` | a write, a read and the cancellation of the read; three generations, one failure, one data-call permit |
| `worker_progress` | `EveryJobEnds` | a read, an invalidation and the shutdown; three generations, one process that dies or one response stream that fails under a living process, beside torn frames, restarts and silence; liveness |
| `worker_restart` | `RestartEndsTheSilentWorker` | **violated**, see section 5 |
| `control_plane` | `StoredIsReadable`, `StoredPairAgrees`, `AnnouncedSecretIsStored`, `GrantNamesItsPolicy`, `KeysAgree`, `FailedCommandLeavesConnection` | any two of eighteen requests, both stores, a file with or without a marker, two key files; one command killed, two store failures |
| `control_policy_race` | `GrantsBeforePolicyChangeRejected` | **violated**, see section 5 |
| `adapter_calls` | `FailedLeavesNothing`, `SucceededIsComplete`, `WithinMaxAffected`, `IdleIsClean`, `OwnCredential`, `CallsWellFormed`, `ConditionalWritesHold` | all seventeen adapters; one call of any operation with one or two records, one that interferes, two credentials, one invalidation, one cancellable id; one exchange fails or one deadline passes |
| `adapter_lost_reply` | `NeverClaimsFailure` | **violated**, see section 5 |
| `adapter_session` | `ConnectsAsSaved`, `SavedIsUsable`, `TestedIsUsable`, `PagesComplete`, `CursorsWellFormed`, `CancelledInspectionFails`, `AnswersWithinLimits`, `CancelReturns` | all seventeen adapters; inputs with every combination of credentials, TLS and certificates, every connection string, every endpoint, every second host; tables of two, four and five rows, limits below and above `max_rows`, one change of the table, one loss of masked cursors; two inspections, another call and a cancellation; liveness |

Why these bounds suffice.

- `Runtime`. The write properties relate two calls with one key, and a third one is enough
  to reach every state of the row: in flight, unknown, succeeded, released. A race for a
  grant or a permit needs as many calls as the limit plus one: the refusal of a second
  call under one id is in `runtime_writes`, that by the limit of the connection in
  `runtime_progress`. With two calls to a process the global limit of two never refuses, and
  no run uses a key for two different operations; the theorems cover both, with every
  other value of the constants. One crash
  separates any two transactions. `NoStaleDispatch` needs two changes, so that the
  monitor polls between them. The proofs remove the bounds of all safety properties.
- `WorkerIpc`. A third generation is what a second, superfluous recovery would start, and a
  call uses at most two clients. One failure suffices for a stream that ends under a job that
  has taken its client and has not written to it yet. Two calls with one request id at one
  client are in no run; the theorems cover them.
- `ControlPlane`. The hazards are between two commands; the second store failure is the one
  that hits the rollback of the first, and shows why the properties allow only one. Five
  generations of chunks are as many as two commands write.
- `AdapterCalls`. Two records tell a part of a write from all of it, `max_affected` is below
  or at their number. The second call meets the first in the same record, request id,
  pool and cache. One failure of an exchange suffices, since a call ends with it.
- `AdapterSession`. Of the rows, some pairs fit in a page and some do not, and one fits in no
  answer; the limits 1 and 3 change between pages of a traversal. The masked cursors have
  capacity two and two sessions.

`CHECK_DEADLOCK FALSE` in most runs: the calls of an instance are finite, so every instance
comes to rest. The runs of `ControlPlane` check for deadlock: a command that has begun always
has a step, and `Done` is the end of all of them.

Fairness. `Runtime`: weak fairness of each call's own steps and of the monitor. Tokio runs
a task that is ready, and every await of a call is bounded by `tokio::time::timeout`, so
`ConnectorStops` is a step of the runtime. Nothing is assumed of clients, connectors,
databases or crashes. `WorkerIpc`: weak fairness of a job's steps in the supervisor, of
the response readers, and of the deadline that every job has (the runtime's timeout for a
data call, `WORKER_CONTROL_TIMEOUT`, `WORKER_HANDSHAKE_TIMEOUT`, `WORKER_SHUTDOWN_TIMEOUT`).
Nothing is assumed of the workers. `SchemaInspection`: weak fairness of the steps of an
inspection and of a data call, whose requests the runtime bounds by a timeout
(`EveryCallReturns`), and of the turns of `db_cancel`, which yields between them. That paging
comes to an end is not stated with fairness: `PagesAdvance` (in `CursorsWellFormed`) says
that every page hands out a cursor beyond the one it was asked with.

What the properties say:

- `AtMostOnce`, `KeyIsRemembered`, `SucceededIsTrue`: idempotency keys over processes,
  retries, timeouts and crashes, and what the row tells a retry.
- `ImplementsWriteOnce` (in both modules): a caller who is told `ok` has a write that took
  effect; one who is told that it failed has a write that never will. For `Runtime` the
  promise is made to the MCP client, for `WorkerIpc` it is made by the pack to the runtime,
  and it is what `ConnectorCompletes` in `Runtime` assumes of a connector.
- `GrantUsedOnce`: a single-use grant under concurrent verification and at its expiry.
- `NoStaleDispatch`: after the monitor has acted on a change, no call goes out with the
  profile from before it.
- `CancelIsFinal`, `CancelStopsTheRequest`: a cancellation wins every race it should win,
  in the runtime's map and across worker generations.
- `PermitsFollowCalls`, `MapFollowsCalls`: no early return leaks a permit or an id.
- `SentIsAudited`: every way to end after the connector was called leaves an audit event.
- `WritesGoOutOnce`, `ReplacedIsBroken`: recovery neither repeats a write nor replaces a
  worker that another call has just started.
- `StoredIsReadable`: whatever interleaves, fails or is killed, a header names stored chunks
  and a pinned file has rows of one key. The other properties of `ControlPlane` hold under
  conditions that the definitions state: `FailedCommandLeavesConnection` and
  `StoredPairAgrees` for commands that do not overlap, are not killed and meet at most one
  store failure (a second one hits the rollback); `AnnouncedSecretIsStored` also for
  overlapping rotations; `GrantNamesItsPolicy` without overlapping edits and for connections
  that were not deleted (a connection that is created again starts its versions at one, with
  another policy); `KeysAgree` without overlapping first uses of the key. Without the conditions TLC finds counterexamples; the
  code has no lock and no compare-and-set that would exclude them.
- `FailedLeavesNothing`: an adapter that answers with a definite failure has written nothing
  and never will. The exceptions are listed in `MistakenForRefusal`: failures that an error
  map of the code takes for refusals, by adapter for unreadable and lost answers, and for all
  adapters that can meet them the misread and the mixed ones. What is left is what the code
  can promise: refusals, busy and unreachable servers, partial and ambiguous answers that the
  adapter knows, cancellations and deadlines. `SucceededIsComplete`, `WithinMaxAffected`,
  `IdleIsClean`, `OwnCredential`, `CallsWellFormed` (with the registry of running calls) are
  about all adapters; `ConditionalWritesHold` excepts HBase, where a row is asked for and
  then put.
- `ConnectsAsSaved`: where a link goes is where the profile says, whatever a connection string
  names. The time-series clients ignore `tls.server_name`; a second client leaves the
  profile's host only for one that the options or Pinecone's control plane names, and keeps TLS.
- `SavedIsUsable`, `TestedIsUsable`: the checks that every adapter repeats in three places agree.
  What was saved is refused later only for what connecting alone finds (`FoundByDriver`: a
  server name for CQL, certificates that MongoDB and MySQL leave to the driver, endpoints that the
  drivers of MongoDB and Couchbase do not parse), by an insert into Splunk without a usable
  token for events, or for the host of a Pinecone index. After a test that succeeded only the
  missing token, of which the test warns, and the host of an index are left.
- `PagesComplete`: no row is skipped or delivered twice. Offsets, and CQL's place inside a
  page, promise this only while nobody changes the table. `CursorsWellFormed` excepts
  MongoDB, which hands out the same cursor again when the first document of a page exceeds
  `max_bytes`. `AnswersWithinLimits` is about the answers that clients get; a masked one may
  exceed `max_bytes` by what its token is longer than the cursor: the runtime measures a
  result (`runtime.rs:1116`) and then replaces the cursor of a masked one by a token of 32
  characters (`runtime.rs:1274`), where `docs/architecture.md:65` has it enforce the final
  limits. The property says that nothing else is added after the check.
- `CancelledInspectionFails`, `CancelReturns`: a cancellation that found an inspection stops
  it wherever it is between its requests, and comes to an end itself.

## 4. Proofs

A theorem is about the `Spec` of its module for every value of the constants that satisfies
the assumptions of the modules it extends: any number of processes, connections, calls, jobs,
records, references, crashes and failures. Every safety property that a passing run checks is
a theorem.

`Runtime` (assumptions `RuntimeAssumption` and the one of `AuditStore`):

- `RuntimeProofs!TypeCorrect`: `TypeOK` is inductive as it stands. The module also has the
  lemmas on the building blocks that the others cite.
- `RuntimeWriteProofs`: `WriteAtMostOnce`, `KeyRemembered`, `SucceededTrue` and `Refinement`
  (`Spec => ImplementsWriteOnce`). None of the invariants is inductive. `WriteInv` adds that
  a call has not been sent before it runs (`SentBefore`), that a call between its
  reservation and the update of its row owns an in-flight row, and alone (`KeyOwned`), that
  the live writes of a key are one (`SentOnce`), and that the outcome a call remembers agrees
  with the database (`OutcomeIsTrue`). `AnswerIsTrue` carries this over to the replies; with
  it each step of `Runtime` is a step of `WriteOnce` or a stutter.
- `RuntimeGuardProofs`: `MapFollows` from `MapInv` (a live call is in the map under its id,
  and an entry is a live call), `CancelFinal` from `CancelInv`, and `StaleNeverSent` from
  `FreshInv`: a call that loaded its profile before a revision the monitor is acting on is
  cancelled, or is among the victims still to be cancelled. `FreshInv` relates the four
  variables of the monitor to every call between its load and its dispatch, which is why
  the order "enter the map, then read the profile" is needed. `GrantOnce` follows from
  `GrantInv` (a call that has passed consumption has its nonce in the store, or the grant has
  expired), `PermitsFollow` from `Held` and `Limited`, and `SentAudited` from `AuditInv`: a call
  that has not been sent cannot be among the dispatched, and one that was sent ends with its
  event, an oversized result or a failed store.

`WorkerIpc` (`WorkerIpcAssumption`):

- `TypeCorrect`, `WritesOnce`, `ReplacedBroken` from `CallInv`: a pending entry is that of a job
  that waits at the client of its current attempt, so that a failing client reaches exactly the
  jobs it should; a launch holds the lock and replaces the generation that its job saw fail;
  how often a job was written to a worker follows from where it is.
- `Refinement`: `WriteIdsAreOwn => (Spec => ImplementsWriteOnce)`. `WriteInv` places a write
  (not yet sent, once in one inbox, or registered in one worker, `Placed`) and says that every
  answer on its way is true and stays so (`RepliesTrue`). The hypothesis is needed: replies are
  routed by request id (`client.rs:190`), so a caller is told about its own write only if no
  other call carries its id. The request map of the runtime sees to it for live calls.
- `CancelStops` from `CancelInv`: the tombstone keeps a cancelled request from every later
  generation, and a worker that has read the cancellation never begins to execute it.

`ControlPlane` (`CredentialAssumption`, `ControlAssumption`):

- `ControlPlaneProofs`: `TypeCorrect` needs `AllPrepared`, what a command has at hand at each of
  its stations. `StoredReadable` from `StoreInv`: generations are older than the next one,
  no two headers name one, a pending put is the only one to know its generation, and in a
  pinned file whoever is past the opening has the pinned key. `GrantPolicy` from `PolicyInv`:
  as long as no two edits overlapped, the draft of an edit is that of the stored row, with a
  new version if the policy changes, and a version once left is not taken again.
- `ControlSecretProofs`: `KeysStayTheSame` from `ContentsInv` (a generation holds one thing, a
  pending one what its put was given) and `KeyInv` (one process at a time is between the read of
  the key and its use, and stores one only where there is none).
- `StoredPair`, `AnnouncedIsStored` and `FailedCommandUndone` in the same module rest on four
  invariants. `AllFits`: the store operation of a command is on the reference it works on, and
  what it is going to store has one kind. `AloneInv`: a connection that never overlapped has a
  reference of its own that no other command writes. `CourseInv`: with one failure at most, a
  command that is alone either has not touched its connection (`Kept`), or has what it needs to
  finish or to bring it back (`Storing`, `Undoing`, `Removing`); the single failure is spent
  when a rollback begins, so the rollback succeeds. `EditsInv`, for overlapping edits: the secret
  of the connection is the one announced, or some command has moved the header and is about to
  announce it.

  The proof of `AloneInv` failed at first: the history of overlaps compared a new command with
  the rows as they were stored and not with what the other command had read, which is only
  enough for two commands. `UsedRefs` is the correction.

`AdapterCalls` (`CallsAssumption`), for all seventeen adapters:

- `WellFormed`, `OwnCredentials`, `IdleClean` from `CallInv`, which ties registry, cache, leases and
  pools to where each call is. What all plans have in common is proved first (`PlanFits`), so
  that the steps need not be looked at adapter by adapter.
- `FailuresLeaveNothing` and `MaxAffectedHolds` from `WriteInv`: an operation writes in its last
  exchange, in a transaction before the last, or record by record (`WritesFit`); a failure
  after a write, or in an exchange that may have written, is in doubt unless the adapter takes
  it for a refusal (`Mistakes`, which the `misread` and `mixed` faults are for every adapter
  that meets them).
- `SuccessIsComplete` from `CompleteInv` (the exchanges behind an append have written their
  records) and `ConditionsHold` from `RowInv` (the rows of an open transaction stay as it found
  them; HBase asks first, which is its exception).

`AdapterSession` (`PagesAssumption`, `PagingAssumption`; the sessions are finitely many, so that
there always is a fresh token):

- `LinksAsSaved`, `SavedUsable`, `TestedUsable` from `SetupInv` (what is saved was accepted), after
  lemmas that compare, for every input, the checks of each adapter with one another and its
  accepted strings with what the driver makes of them.
- `CancelledFails` from `FlagInv`: a cancellation that holds an inspection has set its flag, and
  an inspection in the map has no answer yet.
- `TraversalsComplete` and `CursorsLeadOn` from `PagingInv`. A traversal under way has a mark, the
  row that its cursor stands for (`Mark`, `Placed`), and has delivered what it wants up to the
  mark, once and in order (`Carries`). A cursor that names a row says so by itself, whatever
  happens to the table between two pages; an offset, and CQL's place inside a page, only while
  nobody changes it (`Tracked`). A masked token stands for the cursor of the session that it was
  given to (`TokensOK`). What a page must do for that is stated once (`ReadContract`,
  `CatalogContract`: it delivers what follows the mark without a gap, and its cursor is the
  mark of what it delivered last) and proved adapter by adapter, so that the steps of
  `Paging` need not look at them.
- `AnswersBounded`: what the runtime's check lets through fits (`AllFit`), whatever page it was
  given, but for the token of a masked cursor.

  These proofs need what `Only`, `Size` and the prefixes of `Pages` compute for every sequence. The
  induction theorems of the library cannot be instantiated by the provers; `LeastNumber` (a set of
  numbers that is not empty has a least one) takes their place: a lemma assumes a shortest
  counterexample and shows that there is a shorter one. TLC checked `PagingInv` on the instance
  of `adapter_session` first.

Only model-checked: the liveness properties `EveryCallReturns`, `EveryChangeIsSeen`,
`EveryJobEnds` and `CancelReturns` (fairness is out of the prover's reach).

## 5. Findings

- `runtime_oversize`. A write that the database committed but whose result exceeds the row
  or byte limit is answered `result_too_large`, and no audit event is recorded, because
  `enforce_result_limits_and_masking` returns early (`runtime.rs:1116`).
  `docs/architecture.md:76` promises that a write which may have been committed is never
  claimed to have failed. `WriteOnce` therefore has an answer of its own, `withheld`.
- `worker_restart`. `restart` (`supervisor.rs:164`) ends whatever worker is current, without
  the generation check that `recover` has. A control call that waits for the lock while
  another call launches a worker times out after 750 ms and then ends the worker that was
  launched in the meantime, with the calls on it. The comment above it speaks of "a live
  process [that] stops answering IPC calls".

- `control_policy_race`. `set_policy` (`connector-control/src/lib.rs:247`) reads a profile,
  counts its version up and writes it back. Two edits that overlap store two policies
  under one version, and a grant that was signed between the two writes is good for the
  second. `docs/configuration.md:257` says that grants issued before a policy change are
  rejected.
- `adapter_lost_reply`. `map_reqwest` of the time-series pack (`http.rs:345`) makes a protocol
  error of a reply that is lost, for writes too, which the runtime takes for a definite
  failure; `docs/architecture.md:76` as above. The other entries of `MistakenForRefusal` are of the
  same kind: an answer to a write that cannot be read or is read as a refusal.

## 6. Not modelled

- `connector-policy`'s classification and evaluation: a pure reading of SQL, native commands
  and policies. `Runtime` takes its verdict, `Paging` the visible entries, as given.
- `connector-runtime`'s registry, which never changes after the start, and the masking of values.
- In the adapters: the text of statements and requests, the conversion of values,
  `describe_entity` (it reads metadata and keeps nothing), generated Thrift code. SQL reads
  without a sort have no ORDER BY and Elasticsearch sorts may tie: `Pages` takes the order of
  a read as the same for each of its pages.
- The recognition of a product in `test_connection`: each adapter looks for some names in the text
  of a version, and a server that says nothing of itself passes. A model would restate the list.
- Behind the link: what a cluster's driver discovers after its first server, and query parameters
  of a Couchbase endpoint beyond whether they parse.
- In `WorkerIpc`: the expiry and the capacity of tombstones, encoding and decoding errors.
- Time is a counter that never goes back.
- Command line, connection strings as text, logging, the desktop's user interface.
- `ControlPlane` and `Runtime` are not composed: each has the other's part that it reads. A
  call that reads its profile before and its secret after a replacement is a listed hazard
  without a property. The others are behaviours that the code has and that the properties
  except: two first uses of the authorization key, HBase's question before a put, MongoDB's
  cursor at an oversized document, a connection created again under its id.

## 7. Plan

1. A composition of the commands that write a profile and a secret with the calls that read
   them, for the pair that a call uses.
2. `PolicyEngine`: `evaluate` as an operator, checked against a reference that says which
   operations a policy permits.
