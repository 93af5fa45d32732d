----------------------------- MODULE WorkerIpc ------------------------------
(***************************************************************************)
(* A connector pack behind its worker process: WorkerConnector and         *)
(* WorkerSupervisor in the MCP process (connector-ipc/src/connector.rs,    *)
(* supervisor.rs), one WorkerClient per worker generation (client.rs), and *)
(* the worker's request loop (apps/sql-connector/src/worker.rs).           *)
(*                                                                         *)
(* A job is one call of the supervisor: a data call of the runtime, a      *)
(* Cancel, an InvalidateConnection, or the final Shutdown.  Jobs run       *)
(* concurrently; the supervisor's state is behind one lock, which is held  *)
(* while a worker is launched.  Worker processes and their response        *)
(* streams fail at any time.  What a process keeps in memory is gone when  *)
(* it ends; what it wrote is still read.                                   *)
(***************************************************************************)
EXTENDS Integers, Sequences, FiniteSets

CONSTANTS
    Jobs, Job,          \* the jobs, and what each one asks for
    Ids,                \* request ids of envelopes
    Connections,
    NoJob,
    MaxDataCalls,       \* MAX_CONCURRENT_DATA_CALLS
    MaxGeneration,      \* bound: worker generations after the first
    MaxFailures         \* bound: processes and streams that fail by themselves

DataKinds == {"read", "write"}

ControlKinds == {"cancel", "invalidate"}

\* `target' is the request id that a Cancel names; other jobs do not use it.
JobType == [kind : DataKinds \cup ControlKinds \cup {"shutdown"},
            id : Ids, conn : Connections, target : Ids]

\* The ids of control calls are fresh (Uuid::new_v4).
ASSUME WorkerIpcAssumption ==
    /\ Job \in [Jobs -> JobType]
    /\ NoJob \notin Jobs
    /\ \A q, j \in Jobs : q # j /\ Job[q].id = Job[j].id =>
          Job[q].kind \in DataKinds /\ Job[j].kind \in DataKinds
    /\ MaxDataCalls \in Nat \ {0}
    /\ MaxGeneration \in Nat /\ MaxFailures \in Nat

Generations == 0..MaxGeneration

NoClient == -1

IsData(q)    == Job[q].kind \in DataKinds
IsWrite(q)   == Job[q].kind = "write"
IsControl(q) == Job[q].kind \in ControlKinds

VARIABLES
    \* WorkerSupervisor
    generation, stopping, tombstones, lock,
    \* the WorkerClient of each generation: the jobs that wait, the pipe from the
    \* worker, and whether read_responses runs
    pending, outbox, reading,
    \* the worker process of each generation: its unread requests, the registered data
    \* calls, the cancelled ones, the cancelled ids, the jobs being dispatched
    process, inbox, active, cancelled, workerTombstones, running,
    \* one job: its client, the client of its second attempt, its answer
    pc, client, retry, reply,
    \* the database
    wire, applied,
    \* a bound, and a history: how often a job was written to a worker
    failures, sent

supervisorVars == <<generation, stopping, tombstones>>
clientVars     == <<pending, outbox, reading>>
memoryVars     == <<inbox, active, cancelled, workerTombstones, running>>
jobVars        == <<pc, client, retry, reply>>
databaseVars   == <<wire, applied>>

vars == <<supervisorVars, lock, clientVars, process, memoryVars, jobVars, databaseVars,
          failures, sent>>

\* `chosen' has a client, `waiting' is in that client's pending map, `failed' has seen
\* a restartable error, `launching' holds the lock, `recovered' may retry, `silent' is
\* a control call that timed out, `relaunching' its restart of the worker.
Stations == {"idle", "chosen", "waiting", "failed", "launching", "recovered",
             "silent", "relaunching", "done"}

Replies == {"none", "ok", "failed", "unknown", "cancelled", "conflict", "busy",
            "error", "dropped"}

\* A `deaf' process runs its tasks but its input ends in a torn frame.
ProcessStates == {"none", "live", "deaf", "dead"}

Init ==
    /\ generation = 0 /\ stopping = FALSE /\ tombstones = {} /\ lock = NoJob
    /\ pending = [g \in Generations |-> {}]
    /\ outbox = [g \in Generations |-> <<>>]
    /\ reading = [g \in Generations |-> g = 0]
    /\ process = [g \in Generations |-> IF g = 0 THEN "live" ELSE "none"]
    /\ inbox = [g \in Generations |-> <<>>]
    /\ active = [g \in Generations |-> {}]
    /\ cancelled = [g \in Generations |-> {}]
    /\ workerTombstones = [g \in Generations |-> {}]
    /\ running = [g \in Generations |-> {}]
    /\ pc = [q \in Jobs |-> "idle"]
    /\ client = [q \in Jobs |-> NoClient]
    /\ retry = [q \in Jobs |-> NoClient]
    /\ reply = [q \in Jobs |-> "none"]
    /\ wire = {} /\ applied = {}
    /\ failures = 0
    /\ sent = [q \in Jobs |-> 0]

-----------------------------------------------------------------------------
(***************************************************************************)
(* Building blocks                                                         *)
(***************************************************************************)
Goto(q, station) == pc' = [pc EXCEPT ![q] = station]

\* The calls of the jobs in `ended' return.
Return(ended, r) ==
    /\ pc' = [q \in Jobs |-> IF q \in ended THEN "done" ELSE pc[q]]
    /\ reply' = [q \in Jobs |-> IF q \in ended THEN r ELSE reply[q]]
    /\ client' = [q \in Jobs |-> IF q \in ended THEN NoClient ELSE client[q]]
    /\ retry' = [q \in Jobs |-> IF q \in ended THEN NoClient ELSE retry[q]]

\* Mutant: a write that was interrupted is reported like a read.
IpcErrorAvailable(q) == "error"

\* ipc_error: a write that was handed to a worker may have been executed.
IpcError(q) == IF IsWrite(q) THEN "unknown" ELSE "error"

\* cancellation_barrier.
Barred(q) == IsData(q) /\ Job[q].id \in tombstones

\* Mutant: the cancellation is recorded under the id of its own envelope.
RecordOwnId(q) == tombstones \cup (IF Job[q].kind = "cancel" THEN {Job[q].id} ELSE {})

\* CancellationTombstones::record.
RecordCancellation(q) ==
    tombstones \cup (IF Job[q].kind = "cancel" THEN {Job[q].target} ELSE {})

\* Mutant: every call is repeated on the new worker.
SafeToRetryAlways(q) == Job[q].kind # "shutdown"

SafeToRetry(q) == Job[q].kind \notin {"write", "shutdown"}

\* The client that the current attempt of a job uses.
Using(q) == IF retry[q] = NoClient THEN client[q] ELSE retry[q]

\* fail_pending: every job that waits at client g sees a restartable error.
FailPending(g) ==
    /\ pc' = [q \in Jobs |-> IF q \in pending[g] THEN "failed" ELSE pc[q]]
    /\ pending' = [pending EXCEPT ![g] = {}]
    /\ outbox' = [outbox EXCEPT ![g] = <<>>]
    /\ reading' = [reading EXCEPT ![g] = FALSE]

\* write_reply: without a reader the pipe is closed.
WriteReply(g, q, answer) ==
    outbox' = IF reading[g]
              THEN [outbox EXCEPT ![g] = Append(@, [job |-> q, answer |-> answer])]
              ELSE outbox

\* The process of generation g ends, with all that it had in memory.
ProcessEnds(g) ==
    /\ process' = [process EXCEPT ![g] = "dead"]
    /\ inbox' = [inbox EXCEPT ![g] = <<>>]
    /\ active' = [active EXCEPT ![g] = {}]
    /\ cancelled' = [cancelled EXCEPT ![g] = {}]
    /\ workerTombstones' = [workerTombstones EXCEPT ![g] = {}]
    /\ running' = [running EXCEPT ![g] = {}]

-----------------------------------------------------------------------------
(***************************************************************************)
(* WorkerSupervisor::call and ::shutdown                                   *)
(***************************************************************************)
\* Under the lock: a shutdown sets the flag that stops the others, a Cancel leaves a
\* tombstone, a cancelled data call ends here, the rest take the current client.
Enter(q) ==
    /\ pc[q] = "idle" /\ lock = NoJob
    /\ stopping' = (stopping \/ Job[q].kind = "shutdown")
    /\ tombstones' = IF stopping THEN tombstones ELSE RecordCancellation(q)
    /\ IF stopping /\ Job[q].kind # "shutdown" THEN Return({q}, IpcError(q))
       ELSE IF Barred(q) THEN Return({q}, "cancelled")
       ELSE /\ Goto(q, "chosen")
            /\ client' = [client EXCEPT ![q] = generation]
            /\ UNCHANGED <<retry, reply>>
    /\ UNCHANGED <<generation, lock, clientVars, process, memoryVars, databaseVars,
                   failures, sent>>

\* WorkerClient::call: enter the pending map, where the id must be free, and write the
\* envelope, which fails when the process is gone.
Send(q) ==
    /\ pc[q] = "chosen"
    /\ LET g == Using(q)
           taken == \E j \in pending[g] : Job[j].id = Job[q].id
       IN
       \/ /\ taken
          /\ Return({q}, IpcError(q))
          /\ UNCHANGED <<pending, inbox, sent>>
       \/ /\ ~taken /\ process[g] = "dead"
          /\ Goto(q, "failed")
          /\ UNCHANGED <<pending, inbox, sent, client, retry, reply>>
       \/ /\ ~taken /\ process[g] # "dead"
          /\ pending' = [pending EXCEPT ![g] = @ \cup {q}]
          /\ inbox' = [inbox EXCEPT ![g] = Append(@, q)]
          /\ sent' = [sent EXCEPT ![q] = @ + 1]
          /\ Goto(q, "waiting")
          /\ UNCHANGED <<client, retry, reply>>
    /\ UNCHANGED <<supervisorVars, lock, outbox, reading, process, active, cancelled,
                   workerTombstones, running, databaseVars, failures>>

\* The error of a shutdown or of a second attempt.
GiveUp(q) ==
    /\ pc[q] = "failed"
    /\ Job[q].kind = "shutdown" \/ retry[q] # NoClient
    /\ Return({q}, IpcError(q))
    /\ UNCHANGED <<supervisorVars, lock, clientVars, process, memoryVars, databaseVars,
                   failures, sent>>

\* Mutant: every job that failed starts a worker of its own.
RecoverAlways(q) ==
    /\ pc[q] = "failed" /\ lock = NoJob
    /\ Job[q].kind # "shutdown" /\ retry[q] = NoClient
    /\ IF stopping
       THEN Goto(q, "recovered") /\ UNCHANGED lock
       ELSE Goto(q, "launching") /\ lock' = q
    /\ UNCHANGED <<supervisorVars, clientVars, process, memoryVars, client, retry, reply,
                   databaseVars, failures, sent>>

\* recover, up to the launch: the first job that saw its generation fail replaces it;
\* the others take the current one.
Recover(q) ==
    /\ pc[q] = "failed" /\ lock = NoJob
    /\ Job[q].kind # "shutdown" /\ retry[q] = NoClient
    /\ \/ /\ stopping
          /\ Goto(q, "recovered")
          /\ UNCHANGED <<lock, retry>>
       \/ /\ ~stopping /\ generation # client[q]
          /\ Goto(q, "recovered")
          /\ retry' = [retry EXCEPT ![q] = generation]
          /\ UNCHANGED lock
       \/ /\ ~stopping /\ generation = client[q]
          /\ Goto(q, "launching")
          /\ lock' = q
          /\ UNCHANGED retry
    /\ UNCHANGED <<supervisorVars, clientVars, process, memoryVars, client, reply,
                   databaseVars, failures, sent>>

\* launch: a new process with a client and a response reader becomes current.
StartGeneration ==
    /\ generation < MaxGeneration
    /\ generation' = generation + 1
    /\ process' = [process EXCEPT ![generation + 1] = "live"]
    /\ reading' = [reading EXCEPT ![generation + 1] = TRUE]

\* The process does not start, or its handshake fails or times out and it is killed.
LaunchFails == UNCHANGED <<generation, process, reading>>

Launched(q) ==
    /\ pc[q] = "launching"
    /\ \/ StartGeneration /\ retry' = [retry EXCEPT ![q] = generation + 1]
       \/ LaunchFails /\ UNCHANGED retry
    /\ lock' = NoJob
    /\ Goto(q, "recovered")
    /\ UNCHANGED <<stopping, tombstones, pending, outbox, memoryVars, client, reply, databaseVars,
                   failures, sent>>

\* A write keeps its error.  Any other call looks at the tombstones again and, if there
\* is a client, is sent once more.
Retry(q) ==
    /\ pc[q] = "recovered"
    /\ SafeToRetry(q) => lock = NoJob
    /\ IF SafeToRetry(q) /\ Barred(q) THEN Return({q}, "cancelled")
       ELSE IF ~SafeToRetry(q) \/ retry[q] = NoClient THEN Return({q}, IpcError(q))
       ELSE Goto(q, "chosen") /\ UNCHANGED <<client, retry, reply>>
    /\ UNCHANGED <<supervisorVars, lock, clientVars, process, memoryVars, databaseVars,
                   failures, sent>>

-----------------------------------------------------------------------------
(***************************************************************************)
(* read_responses: replies are routed by request id until the stream ends. *)
(***************************************************************************)
RouteReply(g) ==
    /\ outbox[g] # <<>>
    /\ LET m == Head(outbox[g])
           receivers == {q \in pending[g] : Job[q].id = Job[m.job].id}
       IN  /\ pending' = [pending EXCEPT ![g] = @ \ receivers]
           /\ Return(receivers, m.answer)
    /\ outbox' = [outbox EXCEPT ![g] = Tail(@)]
    /\ UNCHANGED <<supervisorVars, lock, reading, process, memoryVars, databaseVars, failures, sent>>

\* The process has ended and everything it wrote has been read.
ReaderEnds(g) ==
    /\ reading[g] /\ process[g] = "dead" /\ outbox[g] = <<>>
    /\ FailPending(g)
    /\ UNCHANGED <<supervisorVars, lock, process, memoryVars, client, retry, reply, databaseVars,
                   failures, sent>>

\* A frame cannot be read although the process lives.
StreamFails(g) ==
    /\ reading[g] /\ process[g] # "dead" /\ failures < MaxFailures
    /\ failures' = failures + 1
    /\ FailPending(g)
    /\ UNCHANGED <<supervisorVars, lock, process, memoryVars, client, retry, reply, databaseVars,
                   sent>>

-----------------------------------------------------------------------------
(***************************************************************************)
(* WorkerConnector: futures that are dropped, control calls that time out. *)
(***************************************************************************)
InCall == {"chosen", "waiting", "failed", "launching", "recovered"}

\* Mutant: a launch that is given up keeps the supervisor's lock.
WithdrawKeepsLock(q) ==
    /\ pending' = [g \in Generations |-> pending[g] \ {q}]
    /\ UNCHANGED lock

\* What dropping the future of a job undoes: its pending entry and its hold on the lock.
Withdraw(q) ==
    /\ pending' = [g \in Generations |-> pending[g] \ {q}]
    /\ lock' = IF lock = q THEN NoJob ELSE lock

\* An envelope that was half written leaves the worker with a torn frame.
Interrupt(q) ==
    \/ UNCHANGED process
    \/ /\ pc[q] = "chosen" /\ process[Using(q)] = "live"
       /\ process' = [process EXCEPT ![Using(q)] = "deaf"]

\* The runtime stops waiting for a data call, the MCP process for a shutdown.
Abandon(q) ==
    /\ ~IsControl(q) /\ pc[q] \in InCall
    /\ Withdraw(q)
    /\ Interrupt(q)
    /\ Return({q}, "dropped")
    /\ UNCHANGED <<supervisorVars, outbox, reading, memoryVars, databaseVars,
                   failures, sent>>

\* WORKER_CONTROL_TIMEOUT, also while the call still waits for the lock.
ControlTimesOut(q) ==
    /\ IsControl(q)
    /\ pc[q] \in InCall \/ (pc[q] = "idle" /\ lock # NoJob)
    /\ Withdraw(q)
    /\ Interrupt(q)
    /\ Goto(q, "silent")
    /\ UNCHANGED <<supervisorVars, outbox, reading, memoryVars, client, retry, reply,
                   databaseVars, failures, sent>>

\* restart, which first terminates the current worker.
Restart(q) ==
    /\ pc[q] = "silent" /\ lock = NoJob
    /\ IF stopping
       THEN /\ Return({q}, "error")
            /\ UNCHANGED <<lock, process, memoryVars>>
       ELSE /\ Goto(q, "relaunching")
            /\ lock' = q
            /\ ProcessEnds(generation)
            /\ UNCHANGED <<client, retry, reply>>
    /\ UNCHANGED <<supervisorVars, clientVars, databaseVars, failures, sent>>

\* The old client's reader has ended; then launch.
Relaunched(q) ==
    /\ pc[q] = "relaunching" /\ ~reading[generation]
    /\ StartGeneration \/ LaunchFails
    /\ lock' = NoJob
    /\ Return({q}, "error")
    /\ UNCHANGED <<stopping, tombstones, pending, outbox, memoryVars, databaseVars,
                   failures, sent>>

-----------------------------------------------------------------------------
(***************************************************************************)
(* The worker: run_with_io reads one envelope after the other.             *)
(***************************************************************************)
\* Mutant: the cancellation of a request that has not arrived yet is forgotten.
LifecycleCancelActiveOnly(g, target) ==
    /\ cancelled' = [cancelled EXCEPT ![g] = @ \cup {q \in active[g] : Job[q].id = target}]
    /\ UNCHANGED workerTombstones

\* RequestLifecycle::cancel.
LifecycleCancel(g, target) ==
    LET found == {q \in active[g] : Job[q].id = target} IN
    /\ cancelled' = [cancelled EXCEPT ![g] = @ \cup found]
    /\ workerTombstones' = IF found # {} THEN workerTombstones
                           ELSE [workerTombstones EXCEPT ![g] = @ \cup {target}]

\* RequestLifecycle::cancel_connection.
LifecycleCancelConnection(g, conn) ==
    /\ cancelled' = [cancelled EXCEPT ![g] = @ \cup {q \in active[g] : Job[q].conn = conn}]
    /\ UNCHANGED workerTombstones

\* RequestLifecycle::finish, then the reply: the request is no longer active, and if it
\* was cancelled its id stays so.
FinishTask(g, q, answer) ==
    /\ active' = [active EXCEPT ![g] = @ \ {q}]
    /\ running' = [running EXCEPT ![g] = @ \ {q}]
    /\ cancelled' = [cancelled EXCEPT ![g] = @ \ {q}]
    /\ workerTombstones' = IF q \in cancelled[g]
                           THEN [workerTombstones EXCEPT ![g] = @ \cup {Job[q].id}]
                           ELSE workerTombstones
    /\ WriteReply(g, q, answer)

\* RequestLifecycle::begin, then the permits of data calls.
Refusal(g, q) ==
    IF \E j \in active[g] : Job[j].id = Job[q].id THEN "conflict"
    ELSE IF Job[q].id \in workerTombstones[g] THEN "cancelled"
    ELSE IF Cardinality(active[g]) >= MaxDataCalls THEN "busy"
    ELSE "none"

\* The reader records a cancellation itself, and a task tells the adapters.
ReadControl(g, q) ==
    /\ IsControl(q)
    /\ \/ Job[q].kind = "cancel" /\ LifecycleCancel(g, Job[q].target)
       \/ Job[q].kind = "invalidate" /\ LifecycleCancelConnection(g, Job[q].conn)
    /\ inbox' = [inbox EXCEPT ![g] = Tail(@)]
    /\ running' = [running EXCEPT ![g] = @ \cup {q}]
    /\ UNCHANGED <<process, active, outbox>>

\* The reader registers a data call before its task is spawned, or refuses it.
ReadData(g, q) ==
    /\ IsData(q)
    /\ IF Refusal(g, q) = "none"
       THEN active' = [active EXCEPT ![g] = @ \cup {q}] /\ UNCHANGED outbox
       ELSE WriteReply(g, q, Refusal(g, q)) /\ UNCHANGED active
    /\ inbox' = [inbox EXCEPT ![g] = Tail(@)]
    /\ UNCHANGED <<process, cancelled, workerTombstones, running>>

\* The tasks are aborted, the call is acknowledged and the process ends.
ReadShutdown(g, q) ==
    /\ Job[q].kind = "shutdown"
    /\ WriteReply(g, q, "ok")
    /\ ProcessEnds(g)

ReadEnvelope(g) ==
    /\ process[g] = "live" /\ inbox[g] # <<>>
    /\ LET q == Head(inbox[g]) IN ReadControl(g, q) \/ ReadData(g, q) \/ ReadShutdown(g, q)
    /\ UNCHANGED <<supervisorVars, lock, pending, reading, jobVars, databaseVars,
                   failures, sent>>

\* dispatch_data: a request that was cancelled before its task ran is not executed.
StartTask(g, q) ==
    /\ q \in active[g] \ running[g]
    /\ IF q \in cancelled[g]
       THEN FinishTask(g, q, "cancelled") /\ UNCHANGED wire
       ELSE /\ running' = [running EXCEPT ![g] = @ \cup {q}]
            /\ wire' = IF IsWrite(q) THEN wire \cup {q} ELSE wire
            /\ UNCHANGED <<active, cancelled, workerTombstones, outbox>>
    /\ UNCHANGED <<supervisorVars, lock, pending, reading, process, inbox, jobVars,
                   applied, failures, sent>>

\* What an adapter may answer: ok if the write has taken effect, a definite failure if
\* it has not and will not.
AdapterAnswers(q) ==
    {"cancelled"}
      \cup (IF IsWrite(q) THEN {"unknown"} ELSE {})
      \cup (IF IsWrite(q) /\ q \notin applied THEN {} ELSE {"ok"})
      \cup (IF q \in applied THEN {} ELSE {"failed"})

\* Mutant: an adapter that was told to cancel a write is believed.
NormalizeCancelledWriteNot(q, answer) == answer

NormalizeCancelledWrite(q, answer) ==
    IF IsWrite(q) /\ answer = "cancelled" THEN "unknown" ELSE answer

\* dispatch_data, the select: first the token, then the adapter's answer.
EndTask(g, q) ==
    /\ q \in active[g] \cap running[g]
    /\ IF q \in cancelled[g]
       THEN /\ FinishTask(g, q, IF IsWrite(q) THEN "unknown" ELSE "cancelled")
            /\ UNCHANGED wire
       ELSE \E answer \in AdapterAnswers(q) :
               /\ FinishTask(g, q, NormalizeCancelledWrite(q, answer))
               /\ wire' = IF answer \in {"ok", "failed"} THEN wire \ {q} ELSE wire
    /\ UNCHANGED <<supervisorVars, lock, pending, reading, process, inbox, jobVars,
                   applied, failures, sent>>

\* dispatch of a control call; an adapter may refuse a cancellation.
EndControl(g, q) ==
    /\ q \in running[g] /\ IsControl(q)
    /\ running' = [running EXCEPT ![g] = @ \ {q}]
    /\ \/ WriteReply(g, q, "ok")
       \/ Job[q].kind = "cancel" /\ WriteReply(g, q, "failed")
    /\ UNCHANGED <<supervisorVars, lock, pending, reading, process, inbox, active, cancelled,
                   workerTombstones, jobVars, databaseVars, failures, sent>>

\* The process ends by itself, over a torn frame or a closed pipe, or because its
\* client was replaced and nobody holds it any more (kill_on_drop).
Holders(g) == {q \in Jobs : g \in {client[q], retry[q]} /\ pc[q] \in InCall}

WorkerDies(g) ==
    /\ process[g] \in {"live", "deaf"}
    /\ \/ failures < MaxFailures /\ failures' = failures + 1
       \/ process[g] = "deaf" /\ UNCHANGED failures
       \/ ~reading[g] /\ UNCHANGED failures
       \/ g < generation /\ Holders(g) = {} /\ UNCHANGED failures
    /\ ProcessEnds(g)
    /\ UNCHANGED <<supervisorVars, lock, clientVars, jobVars, databaseVars, sent>>

\* A database applies a write that is on its way, whatever became of the worker.
DatabaseApplies(q) ==
    /\ q \in wire \ applied
    /\ applied' = applied \cup {q}
    /\ UNCHANGED <<supervisorVars, lock, clientVars, process, memoryVars, jobVars, wire,
                   failures, sent>>

-----------------------------------------------------------------------------
SupervisorStep(q) ==
    \/ Enter(q) \/ Send(q) \/ GiveUp(q) \/ Recover(q) \/ Launched(q) \/ Retry(q)
    \/ Restart(q) \/ Relaunched(q)

ReaderStep(g) == RouteReply(g) \/ ReaderEnds(g)

WorkerStep(g) ==
    \/ ReadEnvelope(g)
    \/ \E q \in Jobs : StartTask(g, q) \/ EndTask(g, q) \/ EndControl(g, q)

Next ==
    \/ \E q \in Jobs :
          SupervisorStep(q) \/ Abandon(q) \/ ControlTimesOut(q) \/ DatabaseApplies(q)
    \/ \E g \in Generations : ReaderStep(g) \/ WorkerStep(g) \/ StreamFails(g) \/ WorkerDies(g)

Spec == Init /\ [][Next]_vars

\* Threads run, and every wait has a deadline: the runtime's timeout for a data call,
\* WORKER_CONTROL_TIMEOUT, those of the handshake and of the shutdown.  Nothing is
\* assumed of the worker processes.
Fairness ==
    /\ \A q \in Jobs :
          /\ WF_vars(SupervisorStep(q) /\ pc[q] # "idle")
          /\ WF_vars(Abandon(q) \/ ControlTimesOut(q))
    /\ \A g \in Generations : WF_vars(ReaderStep(g))

FairSpec == Spec /\ Fairness

-----------------------------------------------------------------------------
(***************************************************************************)
(* Properties                                                              *)
(***************************************************************************)
TypeOK ==
    /\ generation \in Generations
    /\ stopping \in BOOLEAN
    /\ tombstones \subseteq {Job[q].target : q \in {j \in Jobs : Job[j].kind = "cancel"}}
    /\ lock \in Jobs \cup {NoJob}
    /\ pending \in [Generations -> SUBSET Jobs]
    /\ outbox \in [Generations -> Seq([job : Jobs, answer : Replies])]
    /\ reading \in [Generations -> BOOLEAN]
    /\ process \in [Generations -> ProcessStates]
    /\ inbox \in [Generations -> Seq(Jobs)]
    /\ active \in [Generations -> SUBSET Jobs]
    /\ cancelled \in [Generations -> SUBSET Jobs]
    /\ workerTombstones \in [Generations -> SUBSET Ids]
    /\ running \in [Generations -> SUBSET Jobs]
    /\ pc \in [Jobs -> Stations]
    /\ client \in [Jobs -> Generations \cup {NoClient}]
    /\ retry \in [Jobs -> Generations \cup {NoClient}]
    /\ reply \in [Jobs -> Replies]
    /\ wire \subseteq Jobs
    /\ applied \subseteq Jobs
    /\ failures \in Nat
    /\ sent \in [Jobs -> Nat]

\* A write is handed to one worker only, however many workers fail under it, and any
\* other call to at most two (WorkerSupervisor::call, safe_to_retry).
WritesGoOutOnce ==
    \A q \in Jobs : sent[q] <= (IF IsWrite(q) THEN 1 ELSE 2)

\* What the runtime relies on: a write that the pack answers with ok took effect, and
\* one that it refuses or fails never will; a lost worker, a cancellation or a restart
\* leaves at worst an unknown outcome (ipc_error, normalize_cancelled_write).
AnswerFor(r) ==
    CASE r = "none"                   -> "none"
      [] r = "ok"                     -> "ok"
      [] r \in {"unknown", "dropped"} -> "unknown"
      [] OTHER                        -> "failed"

SameJob(q, j) == q = j

Writes == {q \in Jobs : IsWrite(q)}

Promise == INSTANCE WriteOnce WITH
    SameKey <- SameJob,
    effect <- applied,
    answer <- [q \in Writes |-> AnswerFor(reply[q])]

ImplementsWriteOnce == Promise!Spec

\* Once a worker has answered the cancellation of a request, neither that worker nor a
\* later one begins to execute the request, whether it was on its way, waiting for its
\* task, or about to be repeated (the tombstones of supervisor and RequestLifecycle).
CancelStopsTheRequest ==
    [][\A k, q \in Jobs :
         /\ Job[k].kind = "cancel" /\ reply[k] \in {"ok", "failed"}
         /\ IsData(q) /\ Job[q].id = Job[k].target
         => \A g \in generation..MaxGeneration : q \notin running'[g] \ running[g]]_vars

\* A worker generation is replaced only when its process or its response stream has
\* failed: of several jobs that saw the failure one launches the new worker, and none
\* of the others replaces that one (recover).
ReplacedIsBroken ==
    [][generation' # generation => process[generation] = "dead" \/ ~reading[generation]]_vars

\* Every job that is under way ends, although launches hold the supervisor's lock, the
\* future that holds it may be dropped, and replies may have no reader.
EveryJobEnds ==
    <>[](\A q \in Jobs : pc[q] \in {"idle", "done"})

\* restart replaces "the current worker generation after a live process stops answering
\* IPC calls" (supervisor.rs): the worker that it ends is the one that was asked and
\* did not answer.
RestartEndsTheSilentWorker ==
    [][\A q \in Jobs :
         pc[q] = "silent" /\ pc'[q] = "relaunching" => Using(q) = generation]_vars
=============================================================================
