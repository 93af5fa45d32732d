-------------------------- MODULE WorkerIpcProofs ---------------------------
(***************************************************************************)
(* Theorems about WorkerIpc, for every set of jobs and every number of     *)
(* worker generations, concurrent data calls and failures.                 *)
(***************************************************************************)
EXTENDS WorkerIpc, TLAPS

LEMMA JobFacts ==
    ASSUME NEW q \in Jobs
    PROVE  /\ Job[q].kind \in DataKinds \cup ControlKinds \cup {"shutdown"}
           /\ Job[q].id \in Ids /\ Job[q].target \in Ids /\ q # NoJob
BY WorkerIpcAssumption DEF JobType

LEMMA GenerationFacts ==
    /\ MaxGeneration \in Nat /\ MaxFailures \in Nat /\ 0 \in Generations
    /\ \A g \in Generations : g \in Nat /\ g # NoClient
    /\ \A g \in Generations : g < MaxGeneration => g + 1 \in Generations
    /\ NoClient \notin Generations
BY WorkerIpcAssumption DEF Generations, NoClient

\* What the replies to a job can be.
LEMMA ReplyFacts ==
    ASSUME NEW q \in Jobs
    PROVE  /\ IpcError(q) \in {"unknown", "error"}
           /\ \A g \in Generations : Refusal(g, q) \in {"none", "conflict", "cancelled", "busy"}
           /\ AdapterAnswers(q) \subseteq {"cancelled", "unknown", "ok", "failed"}
           /\ \A a \in AdapterAnswers(q) : NormalizeCancelledWrite(q, a) \in
                                               {"cancelled", "unknown", "ok", "failed"}
BY DEF IpcError, Refusal, AdapterAnswers, NormalizeCancelledWrite

LEMMA HeadTail ==
    ASSUME NEW S, NEW s \in Seq(S), s # <<>>
    PROVE  /\ Head(s) \in S /\ Tail(s) \in Seq(S) /\ Head(s) = s[1]
           /\ Len(s) \in Nat \ {0} /\ Len(Tail(s)) = Len(s) - 1
           /\ \A i \in 1..Len(s) - 1 : Tail(s)[i] = s[i + 1]
OBVIOUS

LEMMA SetUpdate ==
    ASSUME NEW D, NEW S, NEW f \in [D -> SUBSET S], NEW g, NEW T \in SUBSET S
    PROVE  [f EXCEPT ![g] = T] \in [D -> SUBSET S]
OBVIOUS

(***************************************************************************)
(* Types of the building blocks.                                           *)
(***************************************************************************)
LEMMA ReturnType ==
    ASSUME TypeOK, NEW ended \in SUBSET Jobs, NEW r \in Replies, Return(ended, r)
    PROVE  /\ pc' \in [Jobs -> Stations] /\ reply' \in [Jobs -> Replies]
           /\ client' \in [Jobs -> Generations \cup {NoClient}]
           /\ retry' \in [Jobs -> Generations \cup {NoClient}]
BY DEF TypeOK, Return, Stations

LEMMA GotoType ==
    ASSUME TypeOK, NEW q \in Jobs, NEW s \in Stations, Goto(q, s)
    PROVE  pc' \in [Jobs -> Stations]
BY DEF TypeOK, Goto

LEMMA FailPendingType ==
    ASSUME TypeOK, NEW g \in Generations, FailPending(g)
    PROVE  /\ pc' \in [Jobs -> Stations]
           /\ pending' \in [Generations -> SUBSET Jobs]
           /\ outbox' \in [Generations -> Seq([job : Jobs, answer : Replies])]
           /\ reading' \in [Generations -> BOOLEAN]
<1>1. <<>> \in Seq([job : Jobs, answer : Replies])
  OBVIOUS
<1>2. outbox' \in [Generations -> Seq([job : Jobs, answer : Replies])]
  BY <1>1 DEF TypeOK, FailPending
<1>3. pc' \in [Jobs -> Stations]
  BY DEF TypeOK, FailPending, Stations
<1> QED
  BY <1>2, <1>3 DEF TypeOK, FailPending

LEMMA WriteReplyType ==
    ASSUME TypeOK, NEW g \in Generations, NEW q \in Jobs, NEW a \in Replies, WriteReply(g, q, a)
    PROVE  outbox' \in [Generations -> Seq([job : Jobs, answer : Replies])]
<1>1. [job |-> q, answer |-> a] \in [job : Jobs, answer : Replies]
  OBVIOUS
<1>2. outbox[g] \in Seq([job : Jobs, answer : Replies])
  BY DEF TypeOK
<1>3. Append(outbox[g], [job |-> q, answer |-> a]) \in Seq([job : Jobs, answer : Replies])
  BY <1>1, <1>2
<1> QED
  BY <1>3 DEF TypeOK, WriteReply

LEMMA ProcessEndsType ==
    ASSUME TypeOK, NEW g \in Generations, ProcessEnds(g)
    PROVE  /\ process' \in [Generations -> ProcessStates]
           /\ inbox' \in [Generations -> Seq(Jobs)]
           /\ active' \in [Generations -> SUBSET Jobs]
           /\ cancelled' \in [Generations -> SUBSET Jobs]
           /\ workerTombstones' \in [Generations -> SUBSET Ids]
           /\ running' \in [Generations -> SUBSET Jobs]
BY DEF TypeOK, ProcessEnds, ProcessStates

LEMMA FinishTaskType ==
    ASSUME TypeOK, NEW g \in Generations, NEW q \in Jobs, NEW a \in Replies, FinishTask(g, q, a)
    PROVE  /\ active' \in [Generations -> SUBSET Jobs]
           /\ running' \in [Generations -> SUBSET Jobs]
           /\ cancelled' \in [Generations -> SUBSET Jobs]
           /\ workerTombstones' \in [Generations -> SUBSET Ids]
           /\ outbox' \in [Generations -> Seq([job : Jobs, answer : Replies])]
<1>1. WriteReply(g, q, a)
  BY DEF FinishTask
<1> QED
  BY <1>1, WriteReplyType, JobFacts DEF TypeOK, FinishTask

LEMMA StartGenerationType ==
    ASSUME TypeOK, StartGeneration \/ LaunchFails
    PROVE  /\ generation' \in Generations
           /\ process' \in [Generations -> ProcessStates]
           /\ reading' \in [Generations -> BOOLEAN]
<1>1. CASE StartGeneration
  <2>1. generation + 1 \in Generations
    BY <1>1, GenerationFacts DEF TypeOK, StartGeneration
  <2> QED
    BY <1>1, <2>1 DEF TypeOK, StartGeneration, ProcessStates
<1>2. CASE LaunchFails
  BY <1>2 DEF TypeOK, LaunchFails
<1> QED
  BY <1>1, <1>2

LEMMA WithdrawType ==
    ASSUME TypeOK, NEW q \in Jobs, Withdraw(q)
    PROVE  /\ pending' \in [Generations -> SUBSET Jobs]
           /\ lock' \in Jobs \cup {NoJob}
BY DEF TypeOK, Withdraw

LEMMA InterruptType ==
    ASSUME TypeOK, NEW q \in Jobs, Interrupt(q)
    PROVE  process' \in [Generations -> ProcessStates]
BY DEF TypeOK, Interrupt, ProcessStates

\* A tombstone names a request that somebody cancelled.
LEMMA RecordType ==
    ASSUME TypeOK, NEW q \in Jobs
    PROVE  RecordCancellation(q) \subseteq {Job[k].target : k \in {j \in Jobs : Job[j].kind = "cancel"}}
BY DEF TypeOK, RecordCancellation

(***************************************************************************)
(* Type correctness, action by action.                                     *)
(***************************************************************************)
LEMMA TypeSupervisor ==
    ASSUME TypeOK, NEW q \in Jobs, SupervisorStep(q)
    PROVE  TypeOK'
<1> USE DEF supervisorVars, clientVars, memoryVars, jobVars, databaseVars
<1>0. /\ IpcError(q) \in Replies /\ "cancelled" \in Replies /\ "error" \in Replies
      /\ {q} \in SUBSET Jobs
      /\ {"chosen", "waiting", "failed", "launching", "recovered", "relaunching"} \subseteq Stations
  BY ReplyFacts DEF Replies, Stations
<1>1. CASE Enter(q)
  <2>1. tombstones' \subseteq {Job[k].target : k \in {j \in Jobs : Job[j].kind = "cancel"}}
    BY <1>1, RecordType DEF Enter, TypeOK
  <2>2. /\ pc' \in [Jobs -> Stations] /\ reply' \in [Jobs -> Replies]
        /\ client' \in [Jobs -> Generations \cup {NoClient}]
        /\ retry' \in [Jobs -> Generations \cup {NoClient}]
    <3>1. CASE Return({q}, IpcError(q)) \/ Return({q}, "cancelled")
      BY <1>0, <3>1, ReturnType
    <3>2. CASE Goto(q, "chosen") /\ client' = [client EXCEPT ![q] = generation] /\ UNCHANGED <<retry, reply>>
      BY <1>0, <3>2, GotoType DEF TypeOK
    <3> QED
      BY <1>1, <3>1, <3>2 DEF Enter
  <2>3. stopping' \in BOOLEAN
    BY <1>1 DEF Enter
  <2> QED
    BY <1>1, <2>1, <2>2, <2>3 DEF Enter, TypeOK
<1>2. CASE Send(q)
  <2> DEFINE g == Using(q)
  <2>1. /\ pc' \in [Jobs -> Stations] /\ reply' \in [Jobs -> Replies]
        /\ client' \in [Jobs -> Generations \cup {NoClient}]
        /\ retry' \in [Jobs -> Generations \cup {NoClient}]
    <3>1. CASE Return({q}, IpcError(q))
      BY <1>0, <3>1, ReturnType
    <3>2. CASE (Goto(q, "failed") \/ Goto(q, "waiting")) /\ UNCHANGED <<client, retry, reply>>
      BY <1>0, <3>2, GotoType DEF TypeOK
    <3> QED
      BY <1>2, <3>1, <3>2 DEF Send
  <2>2. /\ pending' \in [Generations -> SUBSET Jobs]
        /\ inbox' \in [Generations -> Seq(Jobs)]
        /\ sent' \in [Jobs -> Nat]
    <3>0. g \in Generations => pending[g] \cup {q} \in SUBSET Jobs
      BY DEF TypeOK
    <3>1. pending' \in [Generations -> SUBSET Jobs]
      <4>1. pending' = pending \/ pending' = [pending EXCEPT ![g] = @ \cup {q}]
        BY <1>2 DEF Send
      <4> QED
        BY <3>0, <4>1 DEF TypeOK
    <3>2. sent' \in [Jobs -> Nat]
      BY <1>2 DEF Send, TypeOK
    <3>3. inbox' = inbox \/ inbox' = [inbox EXCEPT ![g] = Append(@, q)]
      BY <1>2 DEF Send
    <3>4. g \in Generations => Append(inbox[g], q) \in Seq(Jobs)
      BY DEF TypeOK
    <3>5. inbox' \in [Generations -> Seq(Jobs)]
      BY <3>3, <3>4 DEF TypeOK
    <3> QED
      BY <3>1, <3>2, <3>5
  <2> QED
    BY <1>2, <2>1, <2>2 DEF Send, TypeOK
<1>3. CASE GiveUp(q)
  <2>1. Return({q}, IpcError(q))
    BY <1>3 DEF GiveUp
  <2> QED
    BY <1>0, <1>3, <2>1, ReturnType DEF GiveUp, TypeOK
<1>4. CASE Recover(q)
  <2>1. pc' \in [Jobs -> Stations]
    BY <1>0, <1>4, GotoType DEF Recover
  <2>2. lock' \in Jobs \cup {NoJob} /\ retry' \in [Jobs -> Generations \cup {NoClient}]
    BY <1>4 DEF Recover, TypeOK
  <2> QED
    BY <1>4, <2>1, <2>2 DEF Recover, TypeOK
<1>5. CASE Launched(q)
  <2>1. pc' \in [Jobs -> Stations]
    BY <1>0, <1>5, GotoType DEF Launched
  <2>2. /\ generation' \in Generations
        /\ process' \in [Generations -> ProcessStates]
        /\ reading' \in [Generations -> BOOLEAN]
    BY <1>5, StartGenerationType DEF Launched
  <2>3. retry' \in [Jobs -> Generations \cup {NoClient}]
    <3>1. retry' = retry \/ retry' = [retry EXCEPT ![q] = generation']
      BY <1>5 DEF Launched, StartGeneration
    <3> QED
      BY <2>2, <3>1 DEF TypeOK
  <2> QED
    BY <1>5, <2>1, <2>2, <2>3 DEF Launched, TypeOK
<1>6. CASE Retry(q)
  <2>1. /\ pc' \in [Jobs -> Stations] /\ reply' \in [Jobs -> Replies]
        /\ client' \in [Jobs -> Generations \cup {NoClient}]
        /\ retry' \in [Jobs -> Generations \cup {NoClient}]
    <3>1. CASE Return({q}, IpcError(q)) \/ Return({q}, "cancelled")
      BY <1>0, <3>1, ReturnType
    <3>2. CASE Goto(q, "chosen") /\ UNCHANGED <<client, retry, reply>>
      BY <1>0, <3>2, GotoType DEF TypeOK
    <3> QED
      BY <1>6, <3>1, <3>2 DEF Retry
  <2> QED
    BY <1>6, <2>1 DEF Retry, TypeOK
<1>7. CASE Restart(q)
  <2>1. CASE stopping
    <3>1. Return({q}, "error") /\ UNCHANGED <<lock, process, memoryVars>>
      BY <1>7, <2>1 DEF Restart
    <3> QED
      BY <1>0, <1>7, <3>1, ReturnType DEF Restart, TypeOK
  <2>2. CASE ~stopping
    <3>1. Goto(q, "relaunching") /\ lock' = q /\ ProcessEnds(generation) /\ UNCHANGED <<client, retry, reply>>
      BY <1>7, <2>2 DEF Restart
    <3>2. generation \in Generations
      BY DEF TypeOK
    <3>3. pc' \in [Jobs -> Stations]
      BY <1>0, <3>1, GotoType
    <3> QED
      BY <1>7, <3>1, <3>2, <3>3, ProcessEndsType DEF Restart, TypeOK
  <2> QED
    BY <2>1, <2>2
<1>8. CASE Relaunched(q)
  <2>1. Return({q}, "error") /\ (StartGeneration \/ LaunchFails)
    BY <1>8 DEF Relaunched
  <2> QED
    BY <1>0, <1>8, <2>1, ReturnType, StartGenerationType DEF Relaunched, TypeOK
<1> QED
  BY <1>1, <1>2, <1>3, <1>4, <1>5, <1>6, <1>7, <1>8 DEF SupervisorStep

LEMMA TypeCallers ==
    ASSUME TypeOK, NEW q \in Jobs, Abandon(q) \/ ControlTimesOut(q) \/ DatabaseApplies(q)
    PROVE  TypeOK'
<1> USE DEF supervisorVars, clientVars, memoryVars, jobVars, databaseVars
<1>1. CASE Abandon(q)
  <2>1. Withdraw(q) /\ Interrupt(q) /\ Return({q}, "dropped")
    BY <1>1 DEF Abandon
  <2>2. "dropped" \in Replies /\ {q} \in SUBSET Jobs
    BY DEF Replies
  <2> QED
    BY <1>1, <2>1, <2>2, ReturnType, WithdrawType, InterruptType DEF Abandon, TypeOK
<1>2. CASE ControlTimesOut(q)
  <2>1. Withdraw(q) /\ Interrupt(q) /\ Goto(q, "silent")
    BY <1>2 DEF ControlTimesOut
  <2>2. "silent" \in Stations
    BY DEF Stations
  <2> QED
    BY <1>2, <2>1, <2>2, GotoType, WithdrawType, InterruptType DEF ControlTimesOut, TypeOK
<1>3. CASE DatabaseApplies(q)
  BY <1>3 DEF DatabaseApplies, TypeOK
<1> QED
  BY <1>1, <1>2, <1>3

LEMMA TypeReader ==
    ASSUME TypeOK, NEW g \in Generations, ReaderStep(g) \/ StreamFails(g) \/ WorkerDies(g)
    PROVE  TypeOK'
<1> USE DEF supervisorVars, clientVars, memoryVars, jobVars, databaseVars
<1>1. CASE RouteReply(g)
  <2> DEFINE m == Head(outbox[g])
             receivers == {q \in pending[g] : Job[q].id = Job[m.job].id}
  <2>1. m \in [job : Jobs, answer : Replies]
        /\ Tail(outbox[g]) \in Seq([job : Jobs, answer : Replies])
    <3>1. outbox[g] \in Seq([job : Jobs, answer : Replies]) /\ outbox[g] # <<>>
      BY <1>1 DEF RouteReply, TypeOK
    <3> QED
      BY <3>1, HeadTail
  <2>2. receivers \in SUBSET Jobs /\ m.answer \in Replies
    BY <2>1 DEF TypeOK
  <2>3. Return(receivers, m.answer)
    BY <1>1 DEF RouteReply
  <2>4. /\ pc' \in [Jobs -> Stations] /\ reply' \in [Jobs -> Replies]
        /\ client' \in [Jobs -> Generations \cup {NoClient}]
        /\ retry' \in [Jobs -> Generations \cup {NoClient}]
    BY <2>2, <2>3, ReturnType
  <2>5. pending' \in [Generations -> SUBSET Jobs]
    BY <1>1 DEF RouteReply, TypeOK
  <2>6. outbox' \in [Generations -> Seq([job : Jobs, answer : Replies])]
    BY <1>1, <2>1 DEF RouteReply, TypeOK
  <2> QED
    BY <1>1, <2>4, <2>5, <2>6 DEF RouteReply, TypeOK
<1>2. CASE ReaderEnds(g)
  BY <1>2, FailPendingType DEF ReaderEnds, TypeOK
<1>3. CASE StreamFails(g)
  <2>1. failures' \in Nat
    BY <1>3 DEF StreamFails, TypeOK
  <2> QED
    BY <1>3, <2>1, FailPendingType DEF StreamFails, TypeOK
<1>4. CASE WorkerDies(g)
  <2>1. failures' \in Nat
    BY <1>4 DEF WorkerDies, TypeOK
  <2>2. ProcessEnds(g)
    BY <1>4 DEF WorkerDies
  <2> QED
    BY <1>4, <2>1, <2>2, ProcessEndsType DEF WorkerDies, TypeOK
<1> QED
  BY <1>1, <1>2, <1>3, <1>4 DEF ReaderStep

LEMMA TypeEnvelope ==
    ASSUME TypeOK, NEW g \in Generations, ReadEnvelope(g)
    PROVE  TypeOK'
<1> USE DEF supervisorVars, clientVars, memoryVars, jobVars, databaseVars
<1> DEFINE q == Head(inbox[g])
<1>1. q \in Jobs /\ Tail(inbox[g]) \in Seq(Jobs)
  BY DEF ReadEnvelope, TypeOK
<1>2. [inbox EXCEPT ![g] = Tail(@)] \in [Generations -> Seq(Jobs)]
  BY <1>1 DEF TypeOK
<1>3. "ok" \in Replies /\ Refusal(g, q) \in Replies
  BY <1>1, ReplyFacts DEF Replies
<1>4. CASE ReadControl(g, q)
  <2>1. /\ cancelled' \in [Generations -> SUBSET Jobs]
        /\ workerTombstones' \in [Generations -> SUBSET Ids]
    <3> DEFINE found == {j \in active[g] : Job[j].id = Job[q].target}
               known == {j \in active[g] : Job[j].conn = Job[q].conn}
    <3>1. /\ cancelled[g] \cup found \in SUBSET Jobs /\ cancelled[g] \cup known \in SUBSET Jobs
          /\ workerTombstones[g] \cup {Job[q].target} \in SUBSET Ids
      BY <1>1, JobFacts DEF TypeOK
    <3>2. /\ \/ cancelled' = [cancelled EXCEPT ![g] = cancelled[g] \cup found]
             \/ cancelled' = [cancelled EXCEPT ![g] = cancelled[g] \cup known]
          /\ \/ workerTombstones' = workerTombstones
             \/ workerTombstones' =
                   [workerTombstones EXCEPT ![g] = workerTombstones[g] \cup {Job[q].target}]
      BY <1>4 DEF ReadControl, LifecycleCancel, LifecycleCancelConnection
    <3> HIDE DEF found, known, q
    <3>3. cancelled' \in [Generations -> SUBSET Jobs]
      <4>1. ASSUME NEW T \in SUBSET Jobs, cancelled' = [cancelled EXCEPT ![g] = T]
            PROVE  cancelled' \in [Generations -> SUBSET Jobs]
        BY <4>1 DEF TypeOK
      <4> QED
        BY <3>1, <3>2, <4>1
    <3>4. workerTombstones' \in [Generations -> SUBSET Ids]
      <4>1. ASSUME NEW T \in SUBSET Ids, workerTombstones' = [workerTombstones EXCEPT ![g] = T]
            PROVE  workerTombstones' \in [Generations -> SUBSET Ids]
        BY <4>1 DEF TypeOK
      <4> QED
        BY <3>1, <3>2, <4>1 DEF TypeOK
    <3> QED
      BY <3>3, <3>4
  <2>2. running' \in [Generations -> SUBSET Jobs]
    BY <1>1, <1>4 DEF ReadControl, TypeOK
  <2> QED
    BY <1>2, <1>4, <2>1, <2>2 DEF ReadEnvelope, ReadControl, TypeOK
<1>5. CASE ReadData(g, q)
  <2>1. outbox' \in [Generations -> Seq([job : Jobs, answer : Replies])]
    BY <1>1, <1>3, <1>5, WriteReplyType DEF ReadData, TypeOK
  <2>2. active' \in [Generations -> SUBSET Jobs]
    <3>1. active[g] \cup {q} \in SUBSET Jobs
      BY <1>1 DEF TypeOK
    <3> HIDE DEF q
    <3>2. active' = active \/ active' = [active EXCEPT ![g] = active[g] \cup {q}]
      BY <1>5 DEF ReadData
    <3>3. active \in [Generations -> SUBSET Jobs]
      BY DEF TypeOK
    <3>4. [active EXCEPT ![g] = active[g] \cup {q}] \in [Generations -> SUBSET Jobs]
      BY <3>1, <3>3, SetUpdate
    <3> QED
      BY <3>2, <3>3, <3>4
  <2> QED
    BY <1>2, <1>5, <2>1, <2>2 DEF ReadEnvelope, ReadData, TypeOK
<1>6. CASE ReadShutdown(g, q)
  <2>1. outbox' \in [Generations -> Seq([job : Jobs, answer : Replies])]
    BY <1>1, <1>3, <1>6, WriteReplyType DEF ReadShutdown
  <2>2. ProcessEnds(g)
    BY <1>6 DEF ReadShutdown
  <2> QED
    BY <2>1, <2>2, ProcessEndsType DEF ReadEnvelope, TypeOK
<1> QED
  BY <1>4, <1>5, <1>6 DEF ReadEnvelope

LEMMA TypeTask ==
    ASSUME TypeOK, NEW g \in Generations, NEW q \in Jobs,
           StartTask(g, q) \/ EndTask(g, q) \/ EndControl(g, q)
    PROVE  TypeOK'
<1> USE DEF supervisorVars, clientVars, memoryVars, jobVars, databaseVars
<1>0. {"ok", "failed", "unknown", "cancelled"} \subseteq Replies
  BY DEF Replies
<1>1. CASE StartTask(g, q)
  <2>1. CASE FinishTask(g, q, "cancelled") /\ UNCHANGED wire
    BY <1>0, <1>1, <2>1, FinishTaskType DEF StartTask, TypeOK
  <2>2. CASE q \notin cancelled[g]
    <3>1. running' = [running EXCEPT ![g] = running[g] \cup {q}] /\ wire' \subseteq Jobs
      BY <1>1, <2>2 DEF StartTask, TypeOK
    <3>2. running[g] \cup {q} \in SUBSET Jobs
      BY DEF TypeOK
    <3>3. running' \in [Generations -> SUBSET Jobs]
      BY <3>1, <3>2, SetUpdate DEF TypeOK
    <3> QED
      BY <1>1, <2>2, <3>1, <3>3 DEF StartTask, TypeOK
  <2> QED
    BY <1>1, <2>1, <2>2 DEF StartTask
<1>2. CASE EndTask(g, q)
  <2>1. PICK a \in Replies : FinishTask(g, q, a)
    BY <1>0, <1>2, ReplyFacts DEF EndTask
  <2>2. wire' \subseteq Jobs
    BY <1>2 DEF EndTask, TypeOK
  <2> QED
    BY <1>2, <2>1, <2>2, FinishTaskType DEF EndTask, TypeOK
<1>3. CASE EndControl(g, q)
  <2>1. outbox' \in [Generations -> Seq([job : Jobs, answer : Replies])]
    BY <1>0, <1>3, WriteReplyType DEF EndControl
  <2>2. running' \in [Generations -> SUBSET Jobs]
    BY <1>3 DEF EndControl, TypeOK
  <2> QED
    BY <1>3, <2>1, <2>2 DEF EndControl, TypeOK
<1> QED
  BY <1>1, <1>2, <1>3

LEMMA TypeStep == TypeOK /\ [Next]_vars => TypeOK'
<1> SUFFICES ASSUME TypeOK, [Next]_vars
             PROVE  TypeOK'
  OBVIOUS
<1>1. CASE UNCHANGED vars
  BY <1>1 DEF vars, supervisorVars, clientVars, memoryVars, jobVars, databaseVars, TypeOK
<1>2. CASE Next
  BY <1>2, TypeSupervisor, TypeCallers, TypeReader, TypeEnvelope, TypeTask DEF Next, WorkerStep
<1> QED
  BY <1>1, <1>2

\* Every variable of the supervisor, the clients, the workers and the jobs has its type; a
\* tombstone of the supervisor is a request id that some Cancel names.
THEOREM TypeCorrect == Spec => []TypeOK
<1>1. Init => TypeOK
  <2>1. <<>> \in Seq(Jobs) /\ <<>> \in Seq([job : Jobs, answer : Replies])
    OBVIOUS
  <2> SUFFICES ASSUME Init
               PROVE  TypeOK
    OBVIOUS
  <2>2. /\ pending \in [Generations -> SUBSET Jobs] /\ active \in [Generations -> SUBSET Jobs]
        /\ cancelled \in [Generations -> SUBSET Jobs] /\ running \in [Generations -> SUBSET Jobs]
        /\ workerTombstones \in [Generations -> SUBSET Ids]
    BY DEF Init
  <2>3. /\ outbox \in [Generations -> Seq([job : Jobs, answer : Replies])]
        /\ inbox \in [Generations -> Seq(Jobs)]
    BY <2>1 DEF Init
  <2>4. /\ pc \in [Jobs -> Stations] /\ reply \in [Jobs -> Replies]
        /\ process \in [Generations -> ProcessStates] /\ reading \in [Generations -> BOOLEAN]
    BY DEF Init, Stations, Replies, ProcessStates
  <2> QED
    BY <2>2, <2>3, <2>4, GenerationFacts DEF Init, TypeOK
<1> QED
  BY <1>1, TypeStep, PTL DEF Spec

-----------------------------------------------------------------------------
(***************************************************************************)
(* A job and the client it uses.  The strengthening that WritesGoOutOnce   *)
(* and ReplacedIsBroken need: a pending entry is that of a job that waits  *)
(* at the client of its current attempt, so that a failing client reaches  *)
(* exactly the jobs it should; a launch holds the lock and replaces the    *)
(* generation its job saw fail; and how often a job was written to a       *)
(* worker follows from where it is.                                        *)
(***************************************************************************)
Broken(g) == process[g] = "dead" \/ ~reading[g]

PendingWaits ==
    \A g \in Generations : \A q \in pending[g] : pc[q] = "waiting" /\ Using(q) = g

ClientKnown(q) ==
    /\ pc[q] = "idle" => client[q] = NoClient /\ retry[q] = NoClient
    /\ pc[q] \in InCall => client[q] \in Generations
    /\ client[q] <= generation /\ retry[q] <= generation

LaunchHolds(q) ==
    /\ pc[q] \in {"launching", "relaunching"} => lock = q
    /\ pc[q] = "launching" =>
          retry[q] = NoClient /\ client[q] = generation /\ Broken(generation)

FailedIsBroken(q) == pc[q] = "failed" => Broken(Using(q))

SilentIsControl(q) == pc[q] \in {"silent", "relaunching"} => IsControl(q)

SecondAttempt(q) == retry[q] # NoClient /\ ~IsWrite(q)

SentBound(q) ==
    /\ pc[q] = "idle" => sent[q] = 0
    /\ pc[q] = "chosen" => sent[q] = 0 \/ (SecondAttempt(q) /\ sent[q] <= 1)
    /\ pc[q] \in {"waiting", "failed"} => sent[q] <= 1 \/ (SecondAttempt(q) /\ sent[q] <= 2)
    /\ pc[q] \in {"launching", "recovered"} => sent[q] <= 1
    /\ sent[q] <= (IF IsWrite(q) THEN 1 ELSE 2)
    /\ pc[q] = "chosen" /\ retry[q] # NoClient => ~IsWrite(q)

JobInv(q) ==
    ClientKnown(q) /\ LaunchHolds(q) /\ FailedIsBroken(q) /\ SilentIsControl(q) /\ SentBound(q)

CallInv == PendingWaits /\ \A q \in Jobs : JobInv(q)

LEMMA CallTypes ==
    ASSUME TypeOK
    PROVE  /\ pc \in [Jobs -> Stations] /\ sent \in [Jobs -> Nat]
           /\ client \in [Jobs -> Generations \cup {NoClient}]
           /\ retry \in [Jobs -> Generations \cup {NoClient}]
           /\ generation \in Generations /\ generation \in Nat
           /\ lock \in Jobs \cup {NoJob}
           /\ reading \in [Generations -> BOOLEAN]
           /\ process \in [Generations -> ProcessStates]
           /\ pending \in [Generations -> SUBSET Jobs]
           /\ \A q \in Jobs : client[q] \in Int /\ retry[q] \in Int /\ Using(q) \in Generations \cup {NoClient}
BY GenerationFacts DEF TypeOK, Using, NoClient

\* What a job knows of its client stays true while others step.
LEMMA JobFrame ==
    ASSUME TypeOK, NEW j \in Jobs, JobInv(j),
           pc'[j] = pc[j], client'[j] = client[j], retry'[j] = retry[j], sent'[j] = sent[j],
           generation' \in Generations, generation <= generation',
           \A g \in Generations : g <= generation /\ Broken(g) => Broken(g)',
           lock = j => lock' = j /\ generation' = generation
    PROVE  JobInv(j)'
<1>1. /\ Using(j)' = Using(j) /\ client[j] \in Int /\ retry[j] \in Int
      /\ generation \in Int /\ generation' \in Int /\ generation \in Generations
  BY CallTypes, GenerationFacts DEF Using
<1>2. SecondAttempt(j)' = SecondAttempt(j)
  BY DEF SecondAttempt
<1>3. ClientKnown(j)'
  BY <1>1 DEF JobInv, ClientKnown
<1>4. LaunchHolds(j)'
  BY <1>1 DEF JobInv, LaunchHolds
<1>5. FailedIsBroken(j)'
  <2>1. pc[j] = "failed" => Using(j) \in Generations /\ Using(j) <= generation
    BY CallTypes DEF JobInv, ClientKnown, Using, InCall
  <2> QED
    BY <1>1, <2>1 DEF JobInv, FailedIsBroken
<1>6. SilentIsControl(j)' /\ SentBound(j)'
  BY <1>2 DEF JobInv, SilentIsControl, SentBound
<1> QED
  BY <1>3, <1>4, <1>5, <1>6 DEF JobInv

\* A step of job q alone.
LEMMA JobMoves ==
    ASSUME TypeOK, CallInv, NEW q \in Jobs,
           \A j \in Jobs \ {q} : /\ pc'[j] = pc[j] /\ client'[j] = client[j]
                                 /\ retry'[j] = retry[j] /\ sent'[j] = sent[j],
           generation' \in Generations, generation <= generation',
           \A g \in Generations : g <= generation /\ Broken(g) => Broken(g)',
           lock \in {NoJob, q} \/ (lock' = lock /\ generation' = generation),
           \A g \in Generations : pending'[g] \subseteq pending[g] \cup {q},
           \A g \in Generations : q \in pending'[g] => pc'[q] = "waiting" /\ Using(q)' = g,
           JobInv(q)'
    PROVE  CallInv'
<1>1. \A j \in Jobs : JobInv(j)'
  <2> SUFFICES ASSUME NEW j \in Jobs \ {q}
               PROVE  JobInv(j)'
    OBVIOUS
  <2>1. lock = j => lock' = j /\ generation' = generation
    BY JobFacts
  <2>2. JobInv(j)
    BY DEF CallInv
  <2> QED
    BY <2>1, <2>2, JobFrame
<1>2. PendingWaits'
  <2> SUFFICES ASSUME NEW g \in Generations, NEW j \in pending'[g], j # q
               PROVE  pc'[j] = "waiting" /\ Using(j)' = g
    BY DEF PendingWaits
  <2>1. j \in pending[g] /\ j \in Jobs
    BY CallTypes
  <2>2. pc[j] = "waiting" /\ Using(j) = g
    BY <2>1 DEF CallInv, PendingWaits
  <2> QED
    BY <2>1, <2>2 DEF Using
<1> QED
  BY <1>1, <1>2 DEF CallInv

\* Steps of the workers and the databases: a process that has ended stays so.
LEMMA CallFrame ==
    ASSUME TypeOK, CallInv, UNCHANGED <<pc, client, retry, sent, generation, lock, pending, reading>>,
           \A g \in Generations : process[g] = "dead" => process'[g] = "dead"
    PROVE  CallInv'
<1>1. \A g \in Generations : Broken(g) => Broken(g)'
  BY DEF Broken
<1>2. \A j \in Jobs : JobInv(j)'
  BY <1>1, CallTypes, JobFrame DEF CallInv
<1>3. PendingWaits'
  BY DEF CallInv, PendingWaits, Using
<1> QED
  BY <1>2, <1>3 DEF CallInv

\* The call of job q returns.
LEMMA JobReturns ==
    ASSUME TypeOK, CallInv, NEW q \in Jobs, NEW r, Return({q}, r), UNCHANGED sent,
           generation' \in Generations, generation <= generation',
           \A g \in Generations : g <= generation /\ Broken(g) => Broken(g)',
           lock \in {NoJob, q} \/ (lock' = lock /\ generation' = generation),
           \A g \in Generations : pending'[g] \subseteq pending[g] /\ q \notin pending'[g]
    PROVE  CallInv'
<1>1. /\ \A j \in Jobs \ {q} : /\ pc'[j] = pc[j] /\ client'[j] = client[j]
                               /\ retry'[j] = retry[j] /\ sent'[j] = sent[j]
      /\ pc'[q] = "done" /\ client'[q] = NoClient /\ retry'[q] = NoClient
  BY DEF Return
<1>2. JobInv(q)'
  <2>1. sent[q] <= (IF IsWrite(q) THEN 1 ELSE 2)
    BY DEF CallInv, JobInv, SentBound
  <2>2. NoClient <= generation'
    BY GenerationFacts DEF NoClient
  <2> QED
    BY <1>1, <2>1, <2>2
       DEF JobInv, ClientKnown, LaunchHolds, FailedIsBroken, SilentIsControl, SentBound, InCall
<1> QED
  BY <1>1, <1>2, JobMoves

\* A job that does not wait is in no pending map.
LEMMA NotPending ==
    ASSUME CallInv, NEW q \in Jobs, pc[q] # "waiting", NEW g \in Generations
    PROVE  q \notin pending[g]
BY DEF CallInv, PendingWaits

LEMMA StartGenerationBreaks ==
    ASSUME TypeOK, StartGeneration \/ LaunchFails
    PROVE  /\ generation' \in Generations /\ generation <= generation'
           /\ \A g \in Generations : g <= generation /\ Broken(g) => Broken(g)'
BY StartGenerationType, CallTypes, GenerationFacts DEF StartGeneration, LaunchFails, Broken

LEMMA CallSupervisor ==
    ASSUME TypeOK, CallInv, NEW q \in Jobs, SupervisorStep(q)
    PROVE  CallInv'
<1> USE DEF supervisorVars, clientVars, memoryVars, jobVars, databaseVars
<1>0. JobInv(q) /\ generation <= generation
  BY CallTypes DEF CallInv
<1>1. CASE Enter(q)
  <2>1. /\ pc[q] = "idle" /\ lock = NoJob
        /\ UNCHANGED <<generation, lock, pending, reading, process, sent>>
    BY <1>1 DEF Enter
  <2>2. CASE \E r : Return({q}, r)
    BY <1>0, <2>1, <2>2, JobReturns, NotPending, CallTypes DEF Broken
  <2>3. CASE Goto(q, "chosen") /\ client' = [client EXCEPT ![q] = generation] /\ UNCHANGED <<retry, reply>>
    <3>1. JobInv(q)'
      BY <1>0, <2>1, <2>3, CallTypes
         DEF Goto, JobInv, ClientKnown, LaunchHolds, FailedIsBroken, SilentIsControl, SentBound
    <3> QED
      BY <1>0, <2>1, <2>3, <3>1, JobMoves, NotPending, CallTypes DEF Goto, Broken
  <2> QED
    BY <1>1, <2>2, <2>3 DEF Enter
<1>2. CASE Send(q)
  <2> DEFINE g == Using(q)
  <2>1. /\ pc[q] = "chosen" /\ UNCHANGED <<generation, lock, reading, process>>
    BY <1>2 DEF Send
  <2>2. g \in Generations
    BY <1>0, <2>1, CallTypes DEF JobInv, ClientKnown, InCall, Using
  <2>3. CASE Return({q}, IpcError(q)) /\ UNCHANGED <<pending, sent>>
    BY <1>0, <2>1, <2>3, JobReturns, NotPending, CallTypes DEF Broken
  <2>4. CASE process[g] = "dead" /\ Goto(q, "failed") /\ UNCHANGED <<pending, sent, client, retry>>
    <3>1. JobInv(q)'
      BY <1>0, <2>1, <2>4, CallTypes
         DEF Goto, JobInv, ClientKnown, LaunchHolds, FailedIsBroken, SilentIsControl, SentBound,
             InCall, SecondAttempt, Broken, Using
    <3> QED
      BY <1>0, <2>1, <2>4, <3>1, JobMoves, NotPending, CallTypes DEF Goto, Broken
  <2>5. CASE /\ pending' = [pending EXCEPT ![g] = @ \cup {q}]
             /\ sent' = [sent EXCEPT ![q] = @ + 1]
             /\ Goto(q, "waiting") /\ UNCHANGED <<client, retry>>
    <3>1. JobInv(q)'
      BY <1>0, <2>1, <2>5, CallTypes
         DEF Goto, JobInv, ClientKnown, LaunchHolds, FailedIsBroken, SilentIsControl, SentBound,
             InCall, SecondAttempt
    <3>2. Using(q)' = g /\ pc'[q] = "waiting"
      BY <2>5, CallTypes DEF Using, Goto
    <3>3. \A h \in Generations : pending'[h] \subseteq pending[h] \cup {q}
      BY <2>5, CallTypes
    <3>4. \A h \in Generations : q \in pending'[h] => h = g
      BY <2>1, <2>5, NotPending, CallTypes
    <3> QED
      BY <1>0, <2>1, <2>5, <3>1, <3>2, <3>3, <3>4, JobMoves, CallTypes DEF Goto, Broken
  <2> QED
    BY <1>2, <2>3, <2>4, <2>5 DEF Send
<1>3. CASE GiveUp(q)
  BY <1>0, <1>3, JobReturns, NotPending, CallTypes DEF GiveUp, Broken
<1>4. CASE Recover(q)
  <2>1. /\ pc[q] = "failed" /\ lock = NoJob /\ retry[q] = NoClient
        /\ UNCHANGED <<generation, pending, reading, process, sent, client>>
    BY <1>4 DEF Recover
  <2>2. /\ \/ pc' = [pc EXCEPT ![q] = "recovered"]
              /\ retry' \in {retry, [retry EXCEPT ![q] = generation]}
           \/ /\ generation = client[q] /\ pc' = [pc EXCEPT ![q] = "launching"]
              /\ lock' = q /\ UNCHANGED retry
    BY <1>4 DEF Recover, Goto
  <2>3. JobInv(q)'
    BY <1>0, <2>1, <2>2, CallTypes, GenerationFacts
       DEF JobInv, ClientKnown, LaunchHolds, FailedIsBroken, SilentIsControl, SentBound,
           InCall, SecondAttempt, Broken, Using
  <2> QED
    BY <1>0, <2>1, <2>2, <2>3, JobMoves, NotPending, CallTypes DEF Broken
<1>5. CASE Launched(q)
  <2>1. /\ pc[q] = "launching" /\ UNCHANGED <<pending, sent, client>> /\ lock' = NoJob
        /\ pc' = [pc EXCEPT ![q] = "recovered"]
        /\ \/ StartGeneration /\ retry' = [retry EXCEPT ![q] = generation']
           \/ LaunchFails /\ UNCHANGED retry
    BY <1>5 DEF Launched, Goto, StartGeneration
  <2>2. lock = q
    BY <1>0, <2>1 DEF JobInv, LaunchHolds
  <2>3. generation' \in Generations /\ generation <= generation'
    BY <2>1, StartGenerationBreaks
  <2>4. JobInv(q)'
    BY <1>0, <2>1, <2>3, CallTypes, GenerationFacts
       DEF JobInv, ClientKnown, LaunchHolds, FailedIsBroken, SilentIsControl, SentBound,
           InCall, SecondAttempt
  <2>5. \A g \in Generations : g <= generation /\ Broken(g) => Broken(g)'
    BY <2>1, StartGenerationBreaks
  <2>6. \A j \in Jobs \ {q} : /\ pc'[j] = pc[j] /\ client'[j] = client[j]
                               /\ retry'[j] = retry[j] /\ sent'[j] = sent[j]
    BY <2>1, CallTypes
  <2> QED
    BY <2>1, <2>2, <2>3, <2>4, <2>5, <2>6, JobMoves, NotPending
<1>6. CASE Retry(q)
  <2>1. /\ pc[q] = "recovered" /\ UNCHANGED <<generation, lock, pending, reading, process, sent>>
    BY <1>6 DEF Retry
  <2>2. CASE \E r : Return({q}, r)
    BY <1>0, <2>1, <2>2, JobReturns, NotPending, CallTypes DEF Broken
  <2>3. CASE /\ SafeToRetry(q) /\ retry[q] # NoClient
             /\ Goto(q, "chosen") /\ UNCHANGED <<client, retry, reply>>
    <3>1. JobInv(q)'
      BY <1>0, <2>1, <2>3, CallTypes
         DEF Goto, JobInv, ClientKnown, LaunchHolds, FailedIsBroken, SilentIsControl, SentBound,
             InCall, SecondAttempt, SafeToRetry, IsWrite
    <3> QED
      BY <1>0, <2>1, <2>3, <3>1, JobMoves, NotPending, CallTypes DEF Goto, Broken
  <2> QED
    BY <1>6, <2>2, <2>3 DEF Retry
<1>7. CASE Restart(q)
  <2>1. pc[q] = "silent" /\ lock = NoJob /\ UNCHANGED <<generation, pending, reading, sent>>
    BY <1>7 DEF Restart
  <2>2. CASE Return({q}, "error") /\ UNCHANGED <<lock, process, memoryVars>>
    BY <1>0, <2>1, <2>2, JobReturns, NotPending, CallTypes DEF Broken
  <2>3. CASE /\ Goto(q, "relaunching") /\ lock' = q /\ ProcessEnds(generation)
             /\ UNCHANGED <<client, retry, reply>>
    <3>1. JobInv(q)'
      BY <1>0, <2>1, <2>3, CallTypes
         DEF Goto, JobInv, ClientKnown, LaunchHolds, FailedIsBroken, SilentIsControl, SentBound, InCall
    <3>2. \A h \in Generations : Broken(h) => Broken(h)'
      BY <2>1, <2>3, CallTypes DEF ProcessEnds, Broken
    <3> QED
      BY <1>0, <2>1, <2>3, <3>1, <3>2, JobMoves, NotPending, CallTypes DEF Goto
  <2> QED
    BY <1>7, <2>2, <2>3 DEF Restart
<1>8. CASE Relaunched(q)
  <2>1. /\ pc[q] = "relaunching" /\ Return({q}, "error") /\ UNCHANGED <<pending, sent>>
        /\ StartGeneration \/ LaunchFails
    BY <1>8 DEF Relaunched
  <2>2. lock = q
    BY <1>0, <2>1 DEF JobInv, LaunchHolds
  <2> QED
    BY <2>1, <2>2, JobReturns, StartGenerationBreaks, NotPending
<1> QED
  BY <1>1, <1>2, <1>3, <1>4, <1>5, <1>6, <1>7, <1>8 DEF SupervisorStep

LEMMA CallCallers ==
    ASSUME TypeOK, CallInv, NEW q \in Jobs, Abandon(q) \/ ControlTimesOut(q)
    PROVE  CallInv'
<1> USE DEF supervisorVars, clientVars, memoryVars, jobVars, databaseVars
<1>0. JobInv(q) /\ generation <= generation
  BY CallTypes DEF CallInv
<1>1. Withdraw(q) /\ Interrupt(q) /\ UNCHANGED <<generation, reading, sent>>
  BY DEF Abandon, ControlTimesOut
<1>2. \A g \in Generations : Broken(g) => Broken(g)'
  BY <1>1, CallTypes DEF Interrupt, Broken
<1>3. /\ \A g \in Generations : pending'[g] \subseteq pending[g] /\ q \notin pending'[g]
      /\ lock \in {NoJob, q} \/ lock' = lock
  BY <1>1 DEF Withdraw
<1>4. CASE Abandon(q)
  BY <1>0, <1>1, <1>2, <1>3, <1>4, JobReturns, CallTypes DEF Abandon
<1>5. CASE ControlTimesOut(q)
  <2>1. IsControl(q) /\ Goto(q, "silent") /\ UNCHANGED <<client, retry>>
    BY <1>5 DEF ControlTimesOut
  <2>2. JobInv(q)'
    BY <1>0, <1>1, <2>1, CallTypes
       DEF Goto, JobInv, ClientKnown, LaunchHolds, FailedIsBroken, SilentIsControl, SentBound, InCall
  <2> QED
    BY <1>0, <1>1, <1>2, <1>3, <2>1, <2>2, JobMoves, CallTypes DEF Goto
<1> QED
  BY <1>4, <1>5

\* Every job that waits at client g, and no other, sees the client fail.
LEMMA CallFails ==
    ASSUME TypeOK, CallInv, NEW g \in Generations, FailPending(g),
           UNCHANGED <<generation, lock, process, client, retry, sent>>
    PROVE  CallInv'
<1>1. \A h \in Generations : Broken(h) => Broken(h)'
  BY CallTypes DEF FailPending, Broken
<1>2. ASSUME NEW j \in Jobs \ pending[g]
      PROVE  JobInv(j)'
  <2>1. JobInv(j) /\ pc'[j] = pc[j] /\ generation <= generation
    BY CallTypes DEF CallInv, FailPending
  <2> QED
    BY <1>1, <2>1, JobFrame, CallTypes
<1>3. ASSUME NEW j \in pending[g]
      PROVE  JobInv(j)'
  <2>1. j \in Jobs /\ pc[j] = "waiting" /\ Using(j) = g /\ JobInv(j)
    BY CallTypes DEF CallInv, PendingWaits
  <2>2. pc'[j] = "failed" /\ Using(j)' = g /\ ~reading'[g]
    BY <2>1, CallTypes DEF FailPending, Using
  <2> QED
    BY <2>1, <2>2, CallTypes
       DEF JobInv, ClientKnown, LaunchHolds, FailedIsBroken, SilentIsControl, SentBound,
           InCall, SecondAttempt, Broken
<1>4. PendingWaits'
  <2> SUFFICES ASSUME NEW h \in Generations, NEW j \in pending'[h]
               PROVE  pc'[j] = "waiting" /\ Using(j)' = h
    BY DEF PendingWaits
  <2>1. h # g /\ j \in pending[h] /\ j \in Jobs
    BY CallTypes DEF FailPending
  <2>2. pc[j] = "waiting" /\ Using(j) = h
    BY <2>1 DEF CallInv, PendingWaits
  <2>3. j \notin pending[g]
    BY <2>1, <2>2 DEF CallInv, PendingWaits
  <2> QED
    BY <2>1, <2>2, <2>3 DEF FailPending, Using
<1> QED
  BY <1>2, <1>3, <1>4 DEF CallInv

LEMMA CallRoute ==
    ASSUME TypeOK, CallInv, NEW g \in Generations, RouteReply(g)
    PROVE  CallInv'
<1> USE DEF supervisorVars, clientVars, memoryVars, jobVars, databaseVars
<1> DEFINE m == Head(outbox[g])
           receivers == {q \in pending[g] : Job[q].id = Job[m.job].id}
<1>0. UNCHANGED <<generation, lock, process, reading, sent>> /\ generation <= generation
  BY CallTypes DEF RouteReply
<1>1. \A h \in Generations : Broken(h) => Broken(h)'
  BY <1>0 DEF Broken
<1>2. Return(receivers, m.answer) /\ pending' = [pending EXCEPT ![g] = @ \ receivers]
  BY DEF RouteReply
<1>3. receivers \subseteq pending[g] /\ receivers \subseteq Jobs
  BY CallTypes
<1> HIDE DEF receivers, m
<1>4. ASSUME NEW j \in Jobs \ receivers
      PROVE  JobInv(j)'
  <2>1. JobInv(j) /\ pc'[j] = pc[j] /\ client'[j] = client[j] /\ retry'[j] = retry[j]
    BY <1>2 DEF CallInv, Return
  <2> QED
    BY <1>0, <1>1, <2>1, JobFrame, CallTypes
<1>5. ASSUME NEW j \in receivers
      PROVE  JobInv(j)'
  <2>1. /\ j \in Jobs /\ JobInv(j)
        /\ pc'[j] = "done" /\ client'[j] = NoClient /\ retry'[j] = NoClient
    BY <1>2, <1>3 DEF CallInv, Return
  <2>2. NoClient <= generation
    BY CallTypes DEF NoClient
  <2> QED
    BY <1>0, <2>1, <2>2
       DEF JobInv, ClientKnown, LaunchHolds, FailedIsBroken, SilentIsControl, SentBound, InCall
<1>6. PendingWaits'
  <2> SUFFICES ASSUME NEW h \in Generations, NEW j \in pending'[h]
               PROVE  pc'[j] = "waiting" /\ Using(j)' = h
    BY DEF PendingWaits
  <2>1. j \in pending[h] /\ j \in Jobs /\ (h = g => j \notin receivers)
    BY <1>2, CallTypes
  <2>2. pc[j] = "waiting" /\ Using(j) = h
    BY <2>1 DEF CallInv, PendingWaits
  <2>3. j \notin receivers
    BY <1>3, <2>1, <2>2 DEF CallInv, PendingWaits
  <2> QED
    BY <1>2, <2>1, <2>2, <2>3 DEF Return, Using
<1> QED
  BY <1>4, <1>5, <1>6 DEF CallInv

LEMMA CallStep == TypeOK /\ CallInv /\ [Next]_vars => CallInv'
<1> SUFFICES ASSUME TypeOK, CallInv, [Next]_vars
             PROVE  CallInv'
  OBVIOUS
<1> USE DEF supervisorVars, clientVars, memoryVars, jobVars, databaseVars
<1>1. CASE UNCHANGED vars
  BY <1>1, CallFrame DEF vars
<1>2. ASSUME NEW q \in Jobs, DatabaseApplies(q)
      PROVE  CallInv'
  BY <1>2, CallFrame DEF DatabaseApplies
<1>3. ASSUME NEW g \in Generations, ReaderEnds(g) \/ StreamFails(g)
      PROVE  CallInv'
  BY <1>3, CallFails DEF ReaderEnds, StreamFails
<1>4. ASSUME NEW g \in Generations, ReadEnvelope(g) \/ WorkerDies(g)
      PROVE  CallInv'
  <2>1. \A h \in Generations : process[h] = "dead" => process'[h] = "dead"
    BY <1>4, CallTypes
       DEF ReadEnvelope, ReadControl, ReadData, ReadShutdown, WorkerDies, ProcessEnds
  <2> QED
    BY <1>4, <2>1, CallFrame DEF ReadEnvelope, WorkerDies
<1>5. ASSUME NEW g \in Generations, NEW q \in Jobs,
             StartTask(g, q) \/ EndTask(g, q) \/ EndControl(g, q)
      PROVE  CallInv'
  BY <1>5, CallFrame DEF StartTask, EndTask, EndControl
<1> QED
  BY <1>1, <1>2, <1>3, <1>4, <1>5, CallSupervisor, CallCallers, CallRoute
     DEF Next, ReaderStep, WorkerStep

LEMMA CallInvariant == Spec => []CallInv
<1>1. Init => CallInv
  BY GenerationFacts
     DEF Init, CallInv, PendingWaits, JobInv, ClientKnown, LaunchHolds, FailedIsBroken,
         SilentIsControl, SentBound, InCall, NoClient
<1> QED
  BY <1>1, CallStep, TypeCorrect, PTL DEF Spec

\* However many workers fail under it, a write is written to one worker at most and any
\* other call to at most two (WorkerSupervisor::call, safe_to_retry).
THEOREM WritesOnce == Spec => []WritesGoOutOnce
<1>1. CallInv => WritesGoOutOnce
  BY DEF CallInv, JobInv, SentBound, WritesGoOutOnce
<1> QED
  BY <1>1, CallInvariant, PTL

\* recover and restart replace a worker generation only when its process has ended or its
\* responses can no longer be read, whatever the other jobs do meanwhile.
THEOREM ReplacedBroken == Spec => ReplacedIsBroken
<1>1. TypeOK /\ CallInv /\ [Next]_vars =>
        [generation' # generation => process[generation] = "dead" \/ ~reading[generation]]_vars
  <2> SUFFICES ASSUME TypeOK, CallInv, [Next]_vars, generation' # generation
               PROVE  process[generation] = "dead" \/ ~reading[generation]
    OBVIOUS
  <2> USE DEF supervisorVars, clientVars, memoryVars, jobVars, databaseVars
  <2>1. ASSUME NEW q \in Jobs, Launched(q)
        PROVE  process[generation] = "dead" \/ ~reading[generation]
    BY <2>1 DEF Launched, CallInv, JobInv, LaunchHolds, Broken
  <2>2. ASSUME NEW q \in Jobs, Relaunched(q)
        PROVE  process[generation] = "dead" \/ ~reading[generation]
    BY <2>2 DEF Relaunched
  <2>3. \A q \in Jobs : /\ ~Enter(q) /\ ~Send(q) /\ ~GiveUp(q) /\ ~Recover(q) /\ ~Retry(q)
                        /\ ~Restart(q) /\ ~Abandon(q) /\ ~ControlTimesOut(q) /\ ~DatabaseApplies(q)
    BY DEF Enter, Send, GiveUp, Recover, Retry, Restart, Abandon, ControlTimesOut, DatabaseApplies
  <2>4. \A g \in Generations : /\ ~RouteReply(g) /\ ~ReaderEnds(g) /\ ~StreamFails(g)
                               /\ ~WorkerDies(g) /\ ~ReadEnvelope(g)
    BY DEF RouteReply, ReaderEnds, StreamFails, WorkerDies, ReadEnvelope
  <2>5. \A g \in Generations, q \in Jobs : ~StartTask(g, q) /\ ~EndTask(g, q) /\ ~EndControl(g, q)
    BY DEF StartTask, EndTask, EndControl
  <2> QED
    BY <2>1, <2>2, <2>3, <2>4, <2>5 DEF Next, SupervisorStep, ReaderStep, WorkerStep, vars
<1> QED
  BY <1>1, TypeCorrect, CallInvariant, PTL DEF Spec, ReplacedIsBroken

-----------------------------------------------------------------------------
(***************************************************************************)
(* Writes.  Replies are routed by request id, so what a caller is told     *)
(* about a write is about that write only if no other call carries its id. *)
(* The runtime's request map lets one live call use an id, and a call that *)
(* the runtime gives up is cancelled first, which bars its id.             *)
(***************************************************************************)
WriteIdsAreOwn == \A q, j \in Jobs : IsWrite(q) /\ q # j => Job[q].id # Job[j].id

Definite(answer) == answer \in {"failed", "cancelled", "conflict", "busy", "error"}

Listed(g, q) == \E i \in 1..Len(inbox[g]) : inbox[g][i] = q

\* The database has not seen the write.
Untouched(q) == q \notin wire /\ q \notin applied

\* No worker is going to execute the write.
Absent(q) == \A g \in Generations : ~Listed(g, q) /\ q \notin active[g]

\* A write is in one place: not yet sent, once in one inbox, or registered in one worker;
\* and only when its task has begun may the database know of it.
Placed(q) ==
    /\ sent[q] = 0 => Absent(q) /\ Untouched(q)
    /\ \A g \in Generations : Listed(g, q) =>
          /\ Untouched(q)
          /\ \A h \in Generations : q \notin active[h] /\ (Listed(h, q) => h = g)
          /\ \A i, k \in 1..Len(inbox[g]) : inbox[g][i] = q /\ inbox[g][k] = q => i = k
    /\ \A g \in Generations : q \in active[g] =>
          /\ q \notin running[g] => Untouched(q)
          /\ \A h \in Generations : q \in active[h] => h = g

\* What is said of a write is true, and stays so.
TrueOf(q, answer) ==
    /\ answer = "ok" => q \in applied
    /\ Definite(answer) => Absent(q) /\ Untouched(q)

RepliesTrue(q) ==
    /\ \A g \in Generations : \A i \in 1..Len(outbox[g]) :
          outbox[g][i].job = q => sent[q] # 0 /\ TrueOf(q, outbox[g][i].answer)
    /\ TrueOf(q, reply[q])

AnsweredOnce == \A q \in Jobs : reply[q] = "none" <=> pc[q] # "done"

MessagesAnswer ==
    \A g \in Generations : \A i \in 1..Len(outbox[g]) : outbox[g][i].answer # "none"

WriteInv ==
    /\ AnsweredOnce
    /\ MessagesAnswer
    /\ wire \subseteq Writes
    /\ \A q \in Writes : Placed(q) /\ RepliesTrue(q)

Once(g, q) == \A i, k \in 1..Len(inbox[g]) : inbox[g][i] = q /\ inbox[g][k] = q => i = k

LEMMA TailListed ==
    ASSUME NEW S, NEW s \in Seq(S), s # <<>>, NEW q
    PROVE  /\ (\E i \in 1..Len(Tail(s)) : Tail(s)[i] = q) => \E i \in 1..Len(s) : s[i] = q
           /\ (\A i, k \in 1..Len(s) : s[i] = q /\ s[k] = q => i = k) =>
                 /\ \A i, k \in 1..Len(Tail(s)) : Tail(s)[i] = q /\ Tail(s)[k] = q => i = k
                 /\ Head(s) = q => ~\E i \in 1..Len(Tail(s)) : Tail(s)[i] = q
<1>1. \A i \in 1..Len(Tail(s)) : i + 1 \in 1..Len(s) /\ Tail(s)[i] = s[i + 1]
  BY HeadTail
<1>2. 1 \in 1..Len(s) /\ s[1] = Head(s) /\ Len(Tail(s)) \in Nat
  BY HeadTail
<1> QED
  BY <1>1, <1>2

\* A write that is not itself moved keeps its place and what is said of it.
LEMMA Stays ==
    ASSUME NEW q \in Writes, Placed(q), RepliesTrue(q), sent'[q] = sent[q],
           \A g \in Generations : Listed(g, q)' => Listed(g, q) /\ (Once(g, q) => Once(g, q)'),
           \A g \in Generations : q \in active'[g] =>
               q \in active[g] /\ (q \in running[g] => q \in running'[g]),
           Untouched(q) => Untouched(q)',
           q \in applied => q \in applied',
           \A g \in Generations : \A i \in 1..Len(outbox'[g]) : outbox'[g][i].job = q =>
               \/ \E k \in 1..Len(outbox[g]) : outbox[g][k] = outbox'[g][i]
               \/ sent[q] # 0 /\ TrueOf(q, outbox[g][i].answer)',
           reply'[q] = reply[q] \/ TrueOf(q, reply[q])'
    PROVE  Placed(q)' /\ RepliesTrue(q)'
<1>1. Absent(q) => Absent(q)'
  BY DEF Absent
<1>2. Placed(q)'
  BY <1>1 DEF Placed, Once
<1>3. ASSUME NEW a, TrueOf(q, a)
      PROVE  /\ a = "ok" => q \in applied'
             /\ Definite(a) => Absent(q)' /\ Untouched(q)'
  BY <1>1, <1>3 DEF TrueOf
<1>4. TrueOf(q, reply[q])'
  BY <1>3 DEF RepliesTrue, TrueOf
<1>5. ASSUME NEW g \in Generations, NEW i \in 1..Len(outbox'[g]), outbox'[g][i].job = q
      PROVE  sent'[q] # 0 /\ TrueOf(q, outbox[g][i].answer)'
  <2>1. CASE \E k \in 1..Len(outbox[g]) : outbox[g][k] = outbox'[g][i]
    <3>1. PICK k \in 1..Len(outbox[g]) : outbox[g][k] = outbox'[g][i]
      BY <2>1
    <3>2. sent[q] # 0 /\ TrueOf(q, outbox[g][k].answer)
      BY <1>5, <3>1 DEF RepliesTrue
    <3> QED
      BY <1>3, <3>1, <3>2 DEF TrueOf
  <2> QED
    BY <1>5, <2>1
<1> QED
  BY <1>2, <1>4, <1>5 DEF RepliesTrue

\* A reply that is written is the last message of its pipe, or nobody reads it.
LEMMA ReplyWritten ==
    ASSUME TypeOK, NEW g \in Generations, NEW q \in Jobs, NEW a \in Replies, WriteReply(g, q, a)
    PROVE  \A h \in Generations : \A i \in 1..Len(outbox'[h]) :
              \/ \E k \in 1..Len(outbox[h]) : outbox[h][k] = outbox'[h][i]
              \/ outbox'[h][i].job = q /\ outbox'[h][i].answer = a
<1> SUFFICES ASSUME NEW h \in Generations, NEW i \in 1..Len(outbox'[h])
             PROVE  \/ \E k \in 1..Len(outbox[h]) : outbox[h][k] = outbox'[h][i]
                    \/ outbox'[h][i] = [job |-> q, answer |-> a]
  OBVIOUS
<1>1. outbox[h] \in Seq([job : Jobs, answer : Replies])
  BY DEF TypeOK
<1>2. CASE outbox'[h] = outbox[h]
  BY <1>1, <1>2
<1>3. CASE outbox'[h] = Append(outbox[h], [job |-> q, answer |-> a])
  BY <1>1, <1>3
<1>4. outbox' = outbox \/ outbox' = [outbox EXCEPT ![g] = Append(outbox[g], [job |-> q, answer |-> a])]
  BY DEF WriteReply
<1>5. outbox \in [Generations -> Seq([job : Jobs, answer : Replies])]
  BY DEF TypeOK
<1> QED
  BY <1>2, <1>3, <1>4, <1>5

LEMMA MessageType ==
    ASSUME TypeOK, NEW g \in Generations, NEW i \in 1..Len(outbox[g])
    PROVE  outbox[g][i].job \in Jobs /\ outbox[g][i].answer \in Replies
<1>1. outbox[g] \in Seq([job : Jobs, answer : Replies])
  BY DEF TypeOK
<1> DEFINE Message == [job : Jobs, answer : Replies]
<1>2. outbox[g][i] \in Message
  <2> HIDE DEF Message
  <2>1. outbox[g] \in Seq(Message)
    BY <1>1 DEF Message
  <2> QED
    BY <2>1
<1> QED
  BY <1>2

LEMMA WriteFacts ==
    ASSUME NEW q \in Writes
    PROVE  q \in Jobs /\ IsWrite(q) /\ IsData(q) /\ ~IsControl(q) /\ IpcError(q) = "unknown"
BY DEF Writes, IsWrite, IsData, IsControl, IpcError, DataKinds, ControlKinds

\* Nothing moves but the job that waits for the write.
LEMMA QuietStays ==
    ASSUME NEW q \in Writes, Placed(q), RepliesTrue(q),
           UNCHANGED <<inbox, active, running, wire, applied, outbox>>, sent'[q] = sent[q],
           reply'[q] = reply[q] \/ TrueOf(q, reply[q])'
    PROVE  Placed(q)' /\ RepliesTrue(q)'
BY Stays DEF Listed, Once, Untouched

\* A process ends; what it has written to its pipe is still there, or more.
LEMMA EndsStays ==
    ASSUME TypeOK, NEW q \in Writes, Placed(q), RepliesTrue(q), NEW g \in Generations, ProcessEnds(g),
           UNCHANGED <<wire, applied, sent, reply>>,
           \A h \in Generations : \A i \in 1..Len(outbox'[h]) : outbox'[h][i].job = q =>
               \E k \in 1..Len(outbox[h]) : outbox[h][k] = outbox'[h][i]
    PROVE  Placed(q)' /\ RepliesTrue(q)'
<1>1. \A h \in Generations : inbox'[h] = inbox[h] \/ inbox'[h] = <<>>
  BY DEF ProcessEnds, TypeOK
<1>2. \A h \in Generations : Listed(h, q)' => Listed(h, q) /\ (Once(h, q) => Once(h, q)')
  BY <1>1 DEF Listed, Once
<1>3. \A h \in Generations : q \in active'[h] =>
          q \in active[h] /\ (q \in running[h] => q \in running'[h])
  BY DEF ProcessEnds, TypeOK
<1> QED
  BY <1>2, <1>3, Stays DEF Untouched

LEMMA WriteSupervisor ==
    ASSUME TypeOK, CallInv, NEW j \in Jobs, SupervisorStep(j),
           NEW q \in Writes, Placed(q), RepliesTrue(q), AnsweredOnce
    PROVE  Placed(q)' /\ RepliesTrue(q)'
<1> USE DEF supervisorVars, clientVars, memoryVars, jobVars, databaseVars
<1>0. q \in Jobs /\ IsWrite(q) /\ ~IsControl(q) /\ IpcError(q) = "unknown" /\ JobInv(j)
  BY WriteFacts DEF CallInv
<1>1. ASSUME NEW r, Return({j}, r), j = q => TrueOf(q, r)'
      PROVE  reply'[q] = reply[q] \/ TrueOf(q, reply[q])'
  BY <1>0, <1>1 DEF Return, TrueOf
<1>2. TrueOf(q, "unknown")'
  BY DEF TrueOf, Definite
<1>3. CASE Enter(j)
  <2>1. UNCHANGED <<inbox, active, running, wire, applied, outbox, sent>> /\ pc[j] = "idle"
    BY <1>3 DEF Enter
  <2>2. j = q => TrueOf(q, "cancelled")'
    <3>1. j = q => sent[q] = 0
      BY <1>0, <2>1 DEF JobInv, SentBound
    <3>2. j = q => Absent(q) /\ Untouched(q)
      BY <3>1 DEF Placed
    <3> QED
      BY <2>1, <3>2 DEF TrueOf, Absent, Untouched, Listed
  <2>3. CASE Return({j}, IpcError(j))
    BY <1>0, <1>1, <1>2, <2>1, <2>3, QuietStays
  <2>4. CASE Return({j}, "cancelled")
    BY <1>1, <2>1, <2>2, <2>4, QuietStays
  <2>5. CASE UNCHANGED reply
    BY <2>1, <2>5, QuietStays
  <2> QED
    BY <1>3, <2>3, <2>4, <2>5 DEF Enter
<1>4. CASE Send(j)
  <2>0. PICK g \in Generations : g = Using(j)
    BY <1>0, <1>4, CallTypes DEF Send, JobInv, ClientKnown, InCall, Using, TypeOK
  <2>1. UNCHANGED <<active, running, wire, applied, outbox>> /\ pc[j] = "chosen"
    BY <1>4 DEF Send
  <2>2. CASE Return({j}, IpcError(j)) /\ UNCHANGED <<inbox, sent>>
    BY <1>0, <1>1, <1>2, <2>1, <2>2, QuietStays
  <2>3. CASE UNCHANGED <<inbox, sent, reply>>
    BY <2>1, <2>3, QuietStays
  <2>4. CASE /\ inbox' = [inbox EXCEPT ![g] = Append(@, j)] /\ sent' = [sent EXCEPT ![j] = @ + 1]
             /\ UNCHANGED reply
    <3>1. inbox \in [Generations -> Seq(Jobs)] /\ inbox[g] \in Seq(Jobs)
      BY DEF TypeOK
    <3>2. /\ \A h \in Generations \ {g} : inbox'[h] = inbox[h]
          /\ inbox'[g] = Append(inbox[g], j)
      BY <2>4, <3>1
    <3>3. /\ Len(inbox'[g]) = Len(inbox[g]) + 1 /\ Len(inbox[g]) \in Nat
          /\ inbox'[g][Len(inbox[g]) + 1] = j
          /\ \A i \in 1..Len(inbox[g]) : inbox'[g][i] = inbox[g][i]
      BY <3>1, <3>2
    <3>4. CASE j # q
      <4>1. \A h \in Generations : Listed(h, q)' => Listed(h, q) /\ (Once(h, q) => Once(h, q)')
        <5>1. \A i \in 1..Len(inbox'[g]) : inbox'[g][i] = q => i \in 1..Len(inbox[g]) /\ inbox[g][i] = q
          BY <3>3, <3>4
        <5> QED
          BY <3>2, <5>1 DEF Listed, Once
      <4>2. sent'[q] = sent[q]
        BY <1>0, <2>4, <3>4, CallTypes
      <4> QED
        BY <2>1, <2>4, <4>1, <4>2, Stays DEF Untouched
    <3>5. CASE j = q
      <4>1. sent[q] = 0
        BY <1>0, <2>1, <3>5 DEF JobInv, SentBound, SecondAttempt
      <4>2. Absent(q) /\ Untouched(q) /\ sent'[q] # 0
        BY <1>0, <2>4, <3>5, <4>1, CallTypes DEF Placed
      <4>3. \A h \in Generations : Listed(h, q)' => h = g
        BY <3>2, <4>2 DEF Absent, Listed
      <4>4. Once(g, q)'
        BY <3>3, <4>2, <3>1 DEF Absent, Listed, Once
      <4>5. Untouched(q)' /\ \A h \in Generations : q \notin active'[h]
        BY <2>1, <4>2 DEF Untouched, Absent
      <4>6. Placed(q)'
        BY <4>2, <4>3, <4>4, <4>5 DEF Placed, Once
      <4>7. \A h \in Generations : \A i \in 1..Len(outbox[h]) : outbox[h][i].job # q
        BY <4>1 DEF RepliesTrue
      <4>8. TrueOf(q, reply[q])'
        BY <1>0, <2>1, <2>4, <3>5 DEF AnsweredOnce, TrueOf, Definite
      <4> QED
        BY <2>1, <4>6, <4>7, <4>8 DEF RepliesTrue
    <3> QED
      BY <3>4, <3>5
  <2> QED
    BY <1>4, <2>0, <2>2, <2>3, <2>4 DEF Send
<1>5. CASE GiveUp(j)
  BY <1>0, <1>1, <1>2, <1>5, QuietStays DEF GiveUp
<1>6. CASE Recover(j) \/ Launched(j)
  BY <1>6, QuietStays DEF Recover, Launched
<1>7. CASE Retry(j)
  <2>1. UNCHANGED <<inbox, active, running, wire, applied, outbox, sent>>
    BY <1>7 DEF Retry
  <2>2. CASE SafeToRetry(j) /\ Return({j}, "cancelled")
    <3>1. j # q
      BY <1>0, <2>2 DEF SafeToRetry, IsWrite
    <3> QED
      BY <1>1, <2>1, <2>2, <3>1, QuietStays
  <2>3. CASE Return({j}, IpcError(j))
    BY <1>0, <1>1, <1>2, <2>1, <2>3, QuietStays
  <2>4. CASE UNCHANGED reply
    BY <2>1, <2>4, QuietStays
  <2> QED
    BY <1>7, <2>2, <2>3, <2>4 DEF Retry
<1>8. CASE Restart(j)
  <2>1. pc[j] = "silent" /\ UNCHANGED <<outbox, wire, applied, sent>> /\ j # q
    BY <1>0, <1>8 DEF Restart, JobInv, SilentIsControl
  <2>2. CASE Return({j}, "error") /\ UNCHANGED <<inbox, active, running>>
    BY <1>1, <2>1, <2>2, QuietStays
  <2>3. CASE ProcessEnds(generation) /\ UNCHANGED reply
    BY <2>1, <2>3, EndsStays, CallTypes
  <2> QED
    BY <1>8, <2>2, <2>3 DEF Restart
<1>9. CASE Relaunched(j)
  <2>1. j # q
    BY <1>0, <1>9 DEF Relaunched, JobInv, SilentIsControl
  <2> QED
    BY <1>1, <1>9, <2>1, QuietStays DEF Relaunched
<1> QED
  BY <1>3, <1>4, <1>5, <1>6, <1>7, <1>8, <1>9 DEF SupervisorStep

LEMMA WriteCallers ==
    ASSUME TypeOK, NEW j \in Jobs, Abandon(j) \/ ControlTimesOut(j) \/ DatabaseApplies(j),
           NEW q \in Writes, Placed(q), RepliesTrue(q)
    PROVE  Placed(q)' /\ RepliesTrue(q)'
<1> USE DEF supervisorVars, clientVars, memoryVars, jobVars, databaseVars
<1>1. TrueOf(q, "dropped")'
  BY DEF TrueOf, Definite
<1>2. CASE Abandon(j)
  <2>1. reply'[q] = reply[q] \/ TrueOf(q, reply[q])'
    BY <1>1, <1>2, WriteFacts DEF Abandon, Return, TrueOf
  <2> QED
    BY <1>2, <2>1, QuietStays DEF Abandon
<1>3. CASE ControlTimesOut(j)
  BY <1>3, QuietStays DEF ControlTimesOut
<1>4. CASE DatabaseApplies(j)
  <2>1. Untouched(q) => Untouched(q)'
    BY <1>4 DEF DatabaseApplies, Untouched
  <2>2. UNCHANGED <<inbox, active, running, outbox, reply, sent>> /\ applied \subseteq applied'
    BY <1>4 DEF DatabaseApplies
  <2> QED
    BY <2>1, <2>2, Stays DEF Listed, Once
<1> QED
  BY <1>2, <1>3, <1>4

LEMMA WriteReader ==
    ASSUME TypeOK, WriteIdsAreOwn, NEW g \in Generations, RouteReply(g) \/ ReaderEnds(g) \/ StreamFails(g),
           NEW q \in Writes, Placed(q), RepliesTrue(q)
    PROVE  Placed(q)' /\ RepliesTrue(q)'
<1> USE DEF supervisorVars, clientVars, memoryVars, jobVars, databaseVars
<1>0. UNCHANGED <<inbox, active, running, wire, applied, sent>>
  BY DEF RouteReply, ReaderEnds, StreamFails
<1>1. ASSUME \A h \in Generations : \A i \in 1..Len(outbox'[h]) :
                 \E k \in 1..Len(outbox[h]) : outbox[h][k] = outbox'[h][i],
             reply'[q] = reply[q] \/ TrueOf(q, reply[q])'
      PROVE  Placed(q)' /\ RepliesTrue(q)'
  BY <1>0, <1>1, Stays DEF Listed, Once, Untouched
<1>2. outbox \in [Generations -> Seq([job : Jobs, answer : Replies])]
  BY DEF TypeOK
<1>3. CASE RouteReply(g)
  <2> DEFINE Message == [job : Jobs, answer : Replies]
  <2>1. outbox[g] \in Seq(Message) /\ outbox[g] # <<>> /\ outbox' = [outbox EXCEPT ![g] = Tail(outbox[g])]
    BY <1>2, <1>3 DEF RouteReply
  <2>2. \A i \in 1..Len(Tail(outbox[g])) : i + 1 \in 1..Len(outbox[g])
                                           /\ Tail(outbox[g])[i] = outbox[g][i + 1]
    <3> HIDE DEF Message
    <3> QED
      BY <2>1, HeadTail
  <2>3. \A h \in Generations : \A i \in 1..Len(outbox'[h]) :
            \E k \in 1..Len(outbox[h]) : outbox[h][k] = outbox'[h][i]
    BY <1>2, <2>1, <2>2
  <2>3a. Head(outbox[g]) = outbox[g][1] /\ 1 \in 1..Len(outbox[g])
    <3> HIDE DEF Message
    <3> QED
      BY <2>1, HeadTail
  <2>4. PICK m : m = outbox[g][1] /\ m = Head(outbox[g]) /\ 1 \in 1..Len(outbox[g])
    BY <2>3a
  <2>5. m.job \in Jobs
    BY <2>4, MessageType
  <2>6. reply'[q] # reply[q] => Job[q].id = Job[m.job].id /\ reply'[q] = m.answer
    BY <1>3, <2>4, WriteFacts DEF RouteReply, Return
  <2>7. reply'[q] # reply[q] => m.job = q
    BY <2>5, <2>6, WriteFacts DEF WriteIdsAreOwn
  <2>8. m.job = q => TrueOf(q, m.answer)
    BY <2>4 DEF RepliesTrue
  <2>9. reply'[q] = reply[q] \/ TrueOf(q, reply[q])'
    BY <1>0, <2>6, <2>7, <2>8 DEF TrueOf, Absent, Untouched, Listed
  <2> QED
    BY <1>1, <2>3, <2>9
<1>4. CASE ReaderEnds(g) \/ StreamFails(g)
  <2>1. outbox' = [outbox EXCEPT ![g] = <<>>] /\ UNCHANGED reply
    BY <1>4 DEF ReaderEnds, StreamFails, FailPending
  <2>2. \A h \in Generations : outbox'[h] = outbox[h] \/ outbox'[h] = <<>>
    BY <1>2, <2>1
  <2> QED
    BY <1>1, <2>1, <2>2
<1> QED
  BY <1>3, <1>4

\* What was said of a write that a worker still has promises nothing that the rest of its
\* execution could break.
LEMMA Moved ==
    ASSUME NEW q \in Writes, Placed(q), RepliesTrue(q), ~Absent(q), UNCHANGED <<sent, reply>>,
           applied \subseteq applied',
           \A g \in Generations : \A i \in 1..Len(outbox'[g]) : outbox'[g][i].job = q =>
               \/ \E k \in 1..Len(outbox[g]) : outbox[g][k] = outbox'[g][i]
               \/ TrueOf(q, outbox[g][i].answer)'
    PROVE  sent[q] # 0 /\ RepliesTrue(q)'
<1>1. sent[q] # 0
  BY DEF Placed
<1>2. ASSUME NEW a, TrueOf(q, a)
      PROVE  (a = "ok" => q \in applied') /\ ~Definite(a)
  BY <1>2 DEF TrueOf
<1>3. TrueOf(q, reply[q])'
  BY <1>2 DEF RepliesTrue, TrueOf
<1>4. ASSUME NEW g \in Generations, NEW i \in 1..Len(outbox'[g]), outbox'[g][i].job = q
      PROVE  TrueOf(q, outbox[g][i].answer)'
  <2>1. CASE \E k \in 1..Len(outbox[g]) : outbox[g][k] = outbox'[g][i]
    <3>1. PICK k \in 1..Len(outbox[g]) : outbox[g][k] = outbox'[g][i]
      BY <2>1
    <3>2. TrueOf(q, outbox[g][k].answer)
      BY <1>4, <3>1 DEF RepliesTrue
    <3> QED
      BY <1>2, <3>1, <3>2 DEF TrueOf
  <2> QED
    BY <1>4, <2>1
<1> QED
  BY <1>1, <1>3, <1>4 DEF RepliesTrue

LEMMA WriteEnvelope ==
    ASSUME TypeOK, NEW g \in Generations, ReadEnvelope(g),
           NEW q \in Writes, Placed(q), RepliesTrue(q)
    PROVE  Placed(q)' /\ RepliesTrue(q)'
<1> USE DEF supervisorVars, clientVars, memoryVars, jobVars, databaseVars
<1>0. UNCHANGED <<sent, reply, wire, applied>> /\ inbox[g] # <<>>
  BY DEF ReadEnvelope
<1>1. inbox \in [Generations -> Seq(Jobs)] /\ inbox[g] \in Seq(Jobs)
      /\ active \in [Generations -> SUBSET Jobs] /\ running \in [Generations -> SUBSET Jobs]
  BY DEF TypeOK
<1>2. PICK p \in Jobs : p = Head(inbox[g]) /\ p = inbox[g][1] /\ 1 \in 1..Len(inbox[g])
  BY <1>0, <1>1, HeadTail
<1>3. ReadControl(g, p) \/ ReadData(g, p) \/ ReadShutdown(g, p)
  BY <1>2 DEF ReadEnvelope
<1>4. ASSUME inbox' = [inbox EXCEPT ![g] = Tail(@)]
      PROVE  /\ \A h \in Generations : Listed(h, q)' => Listed(h, q) /\ (Once(h, q) => Once(h, q)')
             /\ Once(g, q) /\ p = q => ~Listed(g, q)'
  <2>1. \A h \in Generations : inbox'[h] = IF h = g THEN Tail(inbox[g]) ELSE inbox[h]
    BY <1>1, <1>4
  <2>2. /\ Listed(g, q)' => Listed(g, q)
        /\ Once(g, q) => Once(g, q)'
        /\ Once(g, q) /\ p = q => ~Listed(g, q)'
    <3>1. inbox'[g] = Tail(inbox[g])
      BY <2>1
    <3> DEFINE s == inbox[g]
    <3>2. /\ (\E i \in 1..Len(Tail(s)) : Tail(s)[i] = q) => \E i \in 1..Len(s) : s[i] = q
          /\ (\A i, k \in 1..Len(s) : s[i] = q /\ s[k] = q => i = k) =>
                /\ \A i, k \in 1..Len(Tail(s)) : Tail(s)[i] = q /\ Tail(s)[k] = q => i = k
                /\ Head(s) = q => ~\E i \in 1..Len(Tail(s)) : Tail(s)[i] = q
      BY <1>0, <1>1, TailListed
    <3> QED
      BY <1>2, <3>1, <3>2, Zenon DEF Listed, Once
  <2>3. \A h \in Generations \ {g} : Listed(h, q)' = Listed(h, q) /\ Once(h, q)' = Once(h, q)
    BY <2>1 DEF Listed, Once
  <2> QED
    BY <2>2, <2>3
<1>5. Untouched(q)' = Untouched(q)
  BY <1>0 DEF Untouched
<1>6. CASE ReadControl(g, p)
  <2>1. \A h \in Generations : active'[h] = active[h] /\ running[h] \subseteq running'[h]
    BY <1>1, <1>6 DEF ReadControl
  <2>2. UNCHANGED outbox /\ inbox' = [inbox EXCEPT ![g] = Tail(@)]
    BY <1>6 DEF ReadControl
  <2> QED
    BY <1>0, <1>4, <1>5, <2>1, <2>2, Stays
<1>7. CASE ReadShutdown(g, p)
  <2>1. p # q /\ "ok" \in Replies
    BY <1>7, WriteFacts DEF ReadShutdown, IsWrite, Replies
  <2>2. \A h \in Generations : \A i \in 1..Len(outbox'[h]) : outbox'[h][i].job = q =>
            \E k \in 1..Len(outbox[h]) : outbox[h][k] = outbox'[h][i]
    BY <1>7, <2>1, ReplyWritten DEF ReadShutdown
  <2> QED
    BY <1>0, <1>7, <2>2, EndsStays DEF ReadShutdown
<1>8. CASE ReadData(g, p)
  <2>1. inbox' = [inbox EXCEPT ![g] = Tail(@)] /\ UNCHANGED running
    BY <1>8 DEF ReadData
  <2>2. \/ active' = [active EXCEPT ![g] = @ \cup {p}] /\ UNCHANGED outbox
        \/ /\ UNCHANGED active
           /\ \E a \in {"conflict", "cancelled", "busy"} : a \in Replies /\ WriteReply(g, p, a)
    BY <1>8, <1>2, ReplyFacts DEF ReadData, Replies
  <2>3. \A h \in Generations : \A i \in 1..Len(outbox'[h]) :
            \/ \E k \in 1..Len(outbox[h]) : outbox[h][k] = outbox'[h][i]
            \/ /\ UNCHANGED active /\ outbox'[h][i].job = p
               /\ outbox'[h][i].answer \in {"conflict", "cancelled", "busy"}
    <3>1. CASE UNCHANGED outbox
      BY <3>1
    <3>2. ASSUME NEW a \in {"conflict", "cancelled", "busy"}, a \in Replies, WriteReply(g, p, a),
                 UNCHANGED active
          PROVE  \A h \in Generations : \A i \in 1..Len(outbox'[h]) :
                    \/ \E k \in 1..Len(outbox[h]) : outbox[h][k] = outbox'[h][i]
                    \/ outbox'[h][i].job = p /\ outbox'[h][i].answer = a
      BY <3>2, ReplyWritten
    <3> QED
      BY <2>2, <3>1, <3>2
  <2>4. CASE p # q
    <3>1. \A h \in Generations : q \in active'[h] => q \in active[h]
      BY <1>1, <2>2, <2>4
    <3> QED
      BY <1>0, <1>4, <1>5, <2>1, <2>3, <2>4, <3>1, Stays
  <2>5. CASE p = q
    <3>1. Listed(g, q) /\ Once(g, q)
      BY <1>2, <2>5 DEF Listed, Placed, Once
    <3>2. /\ Untouched(q) /\ ~Absent(q)
          /\ \A h \in Generations : q \notin active[h] /\ (Listed(h, q) => h = g)
      BY <3>1 DEF Placed, Absent
    <3>3. \A h \in Generations : ~Listed(h, q)'
      BY <1>4, <2>1, <2>5, <3>1, <3>2
    <3>4. \A h \in Generations : q \in active'[h] => h = g
      BY <1>1, <2>2, <3>2
    <3>5. UNCHANGED active => Absent(q)'
      BY <3>2, <3>3 DEF Absent
    <3>6. sent[q] # 0 /\ RepliesTrue(q)'
      <4>1. \A h \in Generations : \A i \in 1..Len(outbox'[h]) :
                \/ \E k \in 1..Len(outbox[h]) : outbox[h][k] = outbox'[h][i]
                \/ TrueOf(q, outbox[h][i].answer)'
        BY <1>5, <2>3, <3>2, <3>5 DEF TrueOf
      <4> QED
        BY <1>0, <3>2, <4>1, Moved
    <3>7. Placed(q)'
      BY <1>0, <1>5, <3>2, <3>3, <3>4, <3>6 DEF Placed
    <3> QED
      BY <3>6, <3>7
  <2> QED
    BY <2>4, <2>5
<1> QED
  BY <1>3, <1>6, <1>7, <1>8

LEMMA WriteTask ==
    ASSUME TypeOK, NEW g \in Generations, NEW p \in Jobs,
           StartTask(g, p) \/ EndTask(g, p) \/ EndControl(g, p),
           NEW q \in Writes, Placed(q), RepliesTrue(q)
    PROVE  Placed(q)' /\ RepliesTrue(q)'
<1> USE DEF supervisorVars, clientVars, memoryVars, jobVars, databaseVars
<1>0. UNCHANGED <<sent, reply, applied, inbox>>
  BY DEF StartTask, EndTask, EndControl
<1>1. /\ active \in [Generations -> SUBSET Jobs] /\ running \in [Generations -> SUBSET Jobs]
      /\ q \in Jobs /\ IsWrite(q) /\ ~IsControl(q)
  BY WriteFacts DEF TypeOK
<1>2. \A h \in Generations : Listed(h, q)' = Listed(h, q) /\ Once(h, q)' = Once(h, q)
  BY <1>0 DEF Listed, Once

\* What the step does, by whom it does it to.
<1>3. /\ active' \in {active, [active EXCEPT ![g] = @ \ {p}]}
      /\ running' \in {[running EXCEPT ![g] = @ \ {p}], [running EXCEPT ![g] = @ \cup {p}]}
      /\ wire' \in {wire, wire \cup {p}, wire \ {p}}
  BY DEF StartTask, EndTask, EndControl, FinishTask
<1>4. \/ UNCHANGED outbox
      \/ \E a \in Replies : WriteReply(g, p, a)
  <2>1. CASE StartTask(g, p)
    BY <2>1 DEF StartTask, FinishTask, Replies
  <2>2. CASE EndTask(g, p)
    BY <2>2, ReplyFacts DEF EndTask, FinishTask, Replies
  <2>3. CASE EndControl(g, p)
    BY <2>3 DEF EndControl, Replies
  <2> QED
    BY <2>1, <2>2, <2>3
<1>5. CASE p # q
  <2>1. \A h \in Generations : /\ q \in active'[h] => q \in active[h]
                               /\ q \in running[h] => q \in running'[h]
    BY <1>1, <1>3, <1>5
  <2>2. Untouched(q)' = Untouched(q)
    BY <1>0, <1>3, <1>5 DEF Untouched
  <2>3. \A h \in Generations : \A i \in 1..Len(outbox'[h]) : outbox'[h][i].job = q =>
            \E k \in 1..Len(outbox[h]) : outbox[h][k] = outbox'[h][i]
    BY <1>4, <1>5, ReplyWritten
  <2> QED
    BY <1>0, <1>2, <2>1, <2>2, <2>3, Stays
<1>6. CASE p = q
  <2>1. q \in active[g]
    BY <1>1, <1>6 DEF StartTask, EndTask, EndControl
  <2>2. /\ ~Absent(q) /\ \A h \in Generations : ~Listed(h, q) /\ (q \in active[h] => h = g)
    BY <2>1 DEF Placed, Absent
  <2>3. \A h \in Generations : ~Listed(h, q)' /\ (q \in active'[h] => h = g /\ q \in active'[g])
    BY <1>1, <1>2, <1>3, <2>2
  <2>4. active' = [active EXCEPT ![g] = @ \ {q}] => Absent(q)'
    BY <1>1, <2>2, <2>3 DEF Absent
  <2>5. ASSUME NEW a \in Replies, FinishTask(g, q, a), TrueOf(q, a)'
        PROVE  Placed(q)' /\ RepliesTrue(q)'
    <3>1. \A h \in Generations : \A i \in 1..Len(outbox'[h]) :
              \/ \E k \in 1..Len(outbox[h]) : outbox[h][k] = outbox'[h][i]
              \/ TrueOf(q, outbox[h][i].answer)'
      <4>1. WriteReply(g, q, a)
        BY <2>5 DEF FinishTask
      <4> SUFFICES ASSUME NEW h \in Generations, NEW i \in 1..Len(outbox'[h]),
                          outbox'[h][i].answer = a
                   PROVE  TrueOf(q, outbox[h][i].answer)'
        BY <1>1, <4>1, ReplyWritten
      <4> QED
        BY <2>5 DEF TrueOf
    <3>2. sent[q] # 0 /\ RepliesTrue(q)'
      BY <1>0, <2>2, <3>1, Moved
    <3>3. Absent(q)'
      BY <2>4, <2>5 DEF FinishTask
    <3>4. Placed(q)'
      BY <1>0, <3>2, <3>3 DEF Placed, Absent
    <3> QED
      BY <3>2, <3>4
  <2>6. CASE StartTask(g, p)
    <3>1. Untouched(q) /\ q \notin running[g]
      BY <1>6, <2>1, <2>6 DEF StartTask, Placed
    <3>2. CASE FinishTask(g, q, "cancelled") /\ UNCHANGED wire
      <4>1. TrueOf(q, "cancelled")'
        BY <1>0, <2>4, <3>1, <3>2 DEF TrueOf, Untouched, FinishTask
      <4> QED
        BY <2>5, <3>2, <4>1 DEF Replies
    <3>3. CASE running' = [running EXCEPT ![g] = @ \cup {q}] /\ UNCHANGED <<active, outbox>>
      <4>1. sent[q] # 0 /\ RepliesTrue(q)'
        BY <1>0, <2>2, <3>3, Moved
      <4>2. q \in running'[g]
        BY <1>1, <3>3
      <4>3. Placed(q)'
        BY <1>0, <2>3, <4>1, <4>2 DEF Placed
      <4> QED
        BY <4>1, <4>3
    <3> QED
      BY <1>6, <2>6, <3>2, <3>3 DEF StartTask
  <2>7. CASE EndTask(g, p)
    <3>1. TrueOf(q, "unknown")'
      BY DEF TrueOf, Definite
    <3>2. CASE FinishTask(g, q, "unknown")
      BY <2>5, <3>1, <3>2 DEF Replies
    <3>3. ASSUME NEW a \in AdapterAnswers(q), FinishTask(g, q, NormalizeCancelledWrite(q, a)),
                 wire' = IF a \in {"ok", "failed"} THEN wire \ {q} ELSE wire
          PROVE  Placed(q)' /\ RepliesTrue(q)'
      <4>1. NormalizeCancelledWrite(q, a) \in {"unknown", "ok", "failed"}
        BY <1>1, <3>3, ReplyFacts DEF NormalizeCancelledWrite
      <4>2. CASE NormalizeCancelledWrite(q, a) = "unknown"
        BY <3>2, <3>3, <4>2
      <4>3. CASE a = "ok" /\ NormalizeCancelledWrite(q, a) = a
        <5>1. TrueOf(q, "ok")'
          BY <1>0, <1>1, <4>3, <3>3 DEF AdapterAnswers, TrueOf, Definite
        <5> QED
          BY <2>5, <3>3, <4>3, <5>1 DEF Replies
      <4>4. CASE a = "failed" /\ NormalizeCancelledWrite(q, a) = a
        <5>1. q \notin applied' /\ q \notin wire'
          BY <1>0, <3>3, <4>4 DEF AdapterAnswers
        <5>2. TrueOf(q, "failed")'
          BY <2>4, <3>3, <5>1 DEF TrueOf, Untouched, FinishTask
        <5> QED
          BY <2>5, <3>3, <4>4, <5>2 DEF Replies
      <4> QED
        BY <4>1, <4>2, <4>3, <4>4 DEF NormalizeCancelledWrite
    <3> QED
      BY <1>1, <1>6, <2>7, <3>2, <3>3 DEF EndTask
  <2>8. CASE EndControl(g, p)
    BY <1>1, <1>6, <2>8 DEF EndControl
  <2> QED
    BY <2>6, <2>7, <2>8
<1> QED
  BY <1>5, <1>6

\* Who is answered, and which messages carry answers.
LEMMA AnsweredMoves ==
    ASSUME AnsweredOnce,
           \A q \in Jobs : \/ pc'[q] = pc[q] /\ reply'[q] = reply[q]
                           \/ pc'[q] = "done" /\ reply'[q] # "none"
                           \/ pc[q] # "done" /\ pc'[q] # "done" /\ reply'[q] = reply[q]
    PROVE  AnsweredOnce'
BY DEF AnsweredOnce

LEMMA AnsweredReturn ==
    ASSUME TypeOK, AnsweredOnce, NEW S, NEW r, r # "none", Return(S, r)
    PROVE  AnsweredOnce'
BY AnsweredMoves DEF Return

LEMMA AnsweredGoto ==
    ASSUME TypeOK, AnsweredOnce, NEW q \in Jobs, NEW s, s # "done", pc[q] # "done",
           Goto(q, s), UNCHANGED reply
    PROVE  AnsweredOnce'
BY AnsweredMoves, CallTypes DEF Goto

LEMMA MessagesStay ==
    ASSUME MessagesAnswer,
           \A h \in Generations : \A i \in 1..Len(outbox'[h]) :
              \/ \E k \in 1..Len(outbox[h]) : outbox[h][k] = outbox'[h][i]
              \/ outbox'[h][i].answer # "none"
    PROVE  MessagesAnswer'
BY DEF MessagesAnswer

LEMMA AnsweredSupervisor ==
    ASSUME TypeOK, CallInv, AnsweredOnce, MessagesAnswer, wire \subseteq Writes,
           NEW q \in Jobs, SupervisorStep(q) \/ Abandon(q) \/ ControlTimesOut(q) \/ DatabaseApplies(q)
    PROVE  AnsweredOnce' /\ MessagesAnswer' /\ wire' \subseteq Writes
<1> USE DEF supervisorVars, clientVars, memoryVars, jobVars, databaseVars
<1>1. UNCHANGED <<outbox, wire>>
  BY DEF SupervisorStep, Enter, Send, GiveUp, Recover, Launched, Retry, Restart, Relaunched,
         Abandon, ControlTimesOut, DatabaseApplies
<1>2. \A r \in {IpcError(q), "cancelled", "error", "dropped"} : r # "none"
  BY DEF IpcError
<1>3. ASSUME NEW r \in {IpcError(q), "cancelled", "error", "dropped"}, Return({q}, r)
      PROVE  AnsweredOnce'
  BY <1>2, <1>3, AnsweredReturn
<1>4. Enter(q) => AnsweredOnce'
  BY <1>3, AnsweredGoto DEF Enter
<1>5. Send(q) => AnsweredOnce'
  BY <1>3, AnsweredGoto DEF Send
<1>6. (GiveUp(q) \/ Retry(q)) => AnsweredOnce'
  BY <1>3, AnsweredGoto DEF GiveUp, Retry
<1>7. (Recover(q) \/ Launched(q)) => AnsweredOnce'
  BY AnsweredGoto DEF Recover, Launched
<1>8. (Restart(q) \/ Relaunched(q) \/ Abandon(q)) => AnsweredOnce'
  BY <1>3, AnsweredGoto DEF Restart, Relaunched, Abandon
<1>9. ControlTimesOut(q) => AnsweredOnce'
  BY AnsweredGoto DEF ControlTimesOut, InCall
<1>10. DatabaseApplies(q) => AnsweredOnce'
  BY DEF DatabaseApplies, AnsweredOnce
<1>11. MessagesAnswer'
  BY <1>1 DEF MessagesAnswer
<1> QED
  BY <1>1, <1>4, <1>5, <1>6, <1>7, <1>8, <1>9, <1>10, <1>11 DEF SupervisorStep, Writes, IsWrite

LEMMA AnsweredReader ==
    ASSUME TypeOK, CallInv, AnsweredOnce, MessagesAnswer, wire \subseteq Writes,
           NEW g \in Generations, RouteReply(g) \/ ReaderEnds(g) \/ StreamFails(g)
    PROVE  AnsweredOnce' /\ MessagesAnswer' /\ wire' \subseteq Writes
<1> USE DEF supervisorVars, clientVars, memoryVars, jobVars, databaseVars
<1>1. UNCHANGED wire
  BY DEF RouteReply, ReaderEnds, StreamFails
<1>2. outbox \in [Generations -> Seq([job : Jobs, answer : Replies])]
  BY DEF TypeOK
<1>3. CASE RouteReply(g)
  <2> DEFINE Message == [job : Jobs, answer : Replies]
  <2>1. outbox[g] \in Seq(Message) /\ outbox[g] # <<>> /\ outbox' = [outbox EXCEPT ![g] = Tail(outbox[g])]
    BY <1>2, <1>3 DEF RouteReply
  <2>2. /\ \A i \in 1..Len(Tail(outbox[g])) : i + 1 \in 1..Len(outbox[g])
                                              /\ Tail(outbox[g])[i] = outbox[g][i + 1]
        /\ Head(outbox[g]) = outbox[g][1] /\ 1 \in 1..Len(outbox[g])
    <3> HIDE DEF Message
    <3> QED
      BY <2>1, HeadTail
  <2>3. Head(outbox[g]).answer # "none"
    BY <2>2 DEF MessagesAnswer
  <2>4. AnsweredOnce'
    BY <1>3, <2>3, AnsweredReturn DEF RouteReply
  <2>5. \A h \in Generations : \A i \in 1..Len(outbox'[h]) :
            \E k \in 1..Len(outbox[h]) : outbox[h][k] = outbox'[h][i]
    BY <1>2, <2>1, <2>2
  <2> QED
    BY <1>1, <2>4, <2>5, MessagesStay DEF Writes, IsWrite
<1>4. CASE ReaderEnds(g) \/ StreamFails(g)
  <2>1. FailPending(g) /\ UNCHANGED reply
    BY <1>4 DEF ReaderEnds, StreamFails
  <2>2. \A q \in pending[g] : pc[q] = "waiting"
    BY DEF CallInv, PendingWaits
  <2>3. AnsweredOnce'
    BY <2>1, <2>2, AnsweredMoves DEF FailPending
  <2>4. \A h \in Generations : outbox'[h] = outbox[h] \/ outbox'[h] = <<>>
    BY <1>2, <2>1 DEF FailPending
  <2> QED
    BY <1>1, <2>3, <2>4, MessagesStay DEF Writes, IsWrite
<1> QED
  BY <1>3, <1>4

LEMMA AnsweredWorker ==
    ASSUME TypeOK, AnsweredOnce, MessagesAnswer, wire \subseteq Writes,
           NEW g \in Generations, WorkerStep(g) \/ WorkerDies(g)
    PROVE  AnsweredOnce' /\ MessagesAnswer' /\ wire' \subseteq Writes
<1> USE DEF supervisorVars, clientVars, memoryVars, jobVars, databaseVars
<1>1. UNCHANGED <<pc, reply>>
  BY DEF WorkerStep, ReadEnvelope, StartTask, EndTask, EndControl, WorkerDies
<1>2. AnsweredOnce'
  BY <1>1 DEF AnsweredOnce
<1>3. ASSUME NEW q \in Jobs, NEW a \in Replies, a # "none", WriteReply(g, q, a)
      PROVE  MessagesAnswer'
  BY <1>3, ReplyWritten, MessagesStay
<1>4. UNCHANGED outbox => MessagesAnswer'
  BY DEF MessagesAnswer
<1>5. CASE ReadEnvelope(g)
  <2>1. inbox[g] # <<>> /\ inbox[g] \in Seq(Jobs) /\ UNCHANGED wire
    BY <1>5 DEF ReadEnvelope, TypeOK
  <2>2. PICK q \in Jobs : q = Head(inbox[g])
    BY <2>1, HeadTail
  <2>3. CASE ReadControl(g, q)
    BY <1>2, <1>4, <2>1, <2>3 DEF ReadControl, Writes, IsWrite
  <2>4. CASE ReadData(g, q)
    BY <1>2, <1>3, <1>4, <2>1, <2>4, ReplyFacts DEF ReadData, Replies, Writes, IsWrite
  <2>5. CASE ReadShutdown(g, q)
    BY <1>2, <1>3, <2>1, <2>5 DEF ReadShutdown, Replies, Writes, IsWrite
  <2> QED
    BY <1>5, <2>2, <2>3, <2>4, <2>5 DEF ReadEnvelope
<1>6. ASSUME NEW q \in Jobs, StartTask(g, q)
      PROVE  MessagesAnswer' /\ wire' \subseteq Writes
  BY <1>3, <1>4, <1>6 DEF StartTask, FinishTask, Replies, Writes, IsWrite
<1>7. ASSUME NEW q \in Jobs, EndTask(g, q)
      PROVE  MessagesAnswer' /\ wire' \subseteq Writes
  BY <1>3, <1>7, ReplyFacts DEF EndTask, FinishTask, Replies, Writes, IsWrite
<1>8. ASSUME NEW q \in Jobs, EndControl(g, q)
      PROVE  MessagesAnswer' /\ wire' \subseteq Writes
  BY <1>3, <1>8 DEF EndControl, Replies, Writes, IsWrite
<1>9. CASE WorkerDies(g)
  BY <1>2, <1>4, <1>9 DEF WorkerDies, Writes, IsWrite
<1> QED
  BY <1>2, <1>5, <1>6, <1>7, <1>8, <1>9 DEF WorkerStep

LEMMA WriteStep ==
    ASSUME WriteIdsAreOwn
    PROVE  TypeOK /\ CallInv /\ WriteInv /\ [Next]_vars => WriteInv'
<1> SUFFICES ASSUME TypeOK, CallInv, WriteInv, [Next]_vars
             PROVE  WriteInv'
  OBVIOUS
<1>0. AnsweredOnce /\ MessagesAnswer /\ wire \subseteq Writes
  BY DEF WriteInv
<1>1. CASE UNCHANGED vars
  BY <1>1 DEF vars, supervisorVars, clientVars, memoryVars, jobVars, databaseVars, WriteInv,
              AnsweredOnce, MessagesAnswer, Placed, RepliesTrue, TrueOf, Absent, Untouched, Listed,
              Writes, IsWrite
<1>2. ASSUME NEW j \in Jobs, SupervisorStep(j) \/ Abandon(j) \/ ControlTimesOut(j) \/ DatabaseApplies(j)
      PROVE  WriteInv'
  <2>1. \A q \in Writes : Placed(q)' /\ RepliesTrue(q)'
    BY <1>0, <1>2, WriteSupervisor, WriteCallers DEF WriteInv
  <2>2. AnsweredOnce' /\ MessagesAnswer' /\ wire' \subseteq Writes
    BY <1>0, <1>2, AnsweredSupervisor
  <2> QED
    BY <2>1, <2>2 DEF WriteInv, Writes, IsWrite
<1>3. ASSUME NEW g \in Generations, RouteReply(g) \/ ReaderEnds(g) \/ StreamFails(g)
      PROVE  WriteInv'
  <2>1. \A q \in Writes : Placed(q)' /\ RepliesTrue(q)'
    BY <1>3, WriteReader DEF WriteInv
  <2>2. AnsweredOnce' /\ MessagesAnswer' /\ wire' \subseteq Writes
    BY <1>0, <1>3, AnsweredReader
  <2> QED
    BY <2>1, <2>2 DEF WriteInv, Writes, IsWrite
<1>4. ASSUME NEW g \in Generations, WorkerStep(g) \/ WorkerDies(g)
      PROVE  WriteInv'
  <2>1. \A q \in Writes : Placed(q)' /\ RepliesTrue(q)'
    <3> SUFFICES ASSUME NEW q \in Writes
                 PROVE  Placed(q)' /\ RepliesTrue(q)'
      OBVIOUS
    <3>1. Placed(q) /\ RepliesTrue(q)
      BY DEF WriteInv
    <3>2. CASE WorkerDies(g)
      BY <3>1, <3>2, EndsStays
         DEF WorkerDies, supervisorVars, clientVars, memoryVars, jobVars, databaseVars
    <3> QED
      BY <1>4, <3>1, <3>2, WriteEnvelope, WriteTask DEF WorkerStep
  <2>2. AnsweredOnce' /\ MessagesAnswer' /\ wire' \subseteq Writes
    BY <1>0, <1>4, AnsweredWorker
  <2> QED
    BY <2>1, <2>2 DEF WriteInv, Writes, IsWrite
<1> QED
  BY <1>1, <1>2, <1>3, <1>4 DEF Next, ReaderStep

LEMMA WriteInvariant == WriteIdsAreOwn => (Spec => []WriteInv)
<1> SUFFICES ASSUME WriteIdsAreOwn
             PROVE  Spec => []WriteInv
  OBVIOUS
<1>1. Init => WriteInv
  BY DEF Init, WriteInv, AnsweredOnce, MessagesAnswer, Placed, RepliesTrue, TrueOf, Definite, Absent,
         Untouched, Listed, Writes
<1> QED
  BY <1>1, WriteStep, TypeCorrect, CallInvariant, PTL DEF Spec

\* A step answers at most one write; the databases do nothing meanwhile.
LEMMA ReplyStep ==
    ASSUME TypeOK, WriteIdsAreOwn, [Next]_vars
    PROVE  \/ \A w \in Writes : reply'[w] = reply[w]
           \/ /\ UNCHANGED applied
              /\ \E q \in Writes : /\ \A w \in Writes \ {q} : reply'[w] = reply[w]
                                   /\ pc'[q] = "done"
<1> USE DEF supervisorVars, clientVars, memoryVars, jobVars, databaseVars
<1>1. ASSUME NEW q \in Jobs, NEW r, Return({q}, r), UNCHANGED applied
      PROVE  \/ \A w \in Writes : reply'[w] = reply[w]
             \/ /\ UNCHANGED applied
                /\ \E w \in Writes : /\ \A v \in Writes \ {w} : reply'[v] = reply[v]
                                     /\ pc'[w] = "done"
  <2>1. \A v \in Writes \ {q} : reply'[v] = reply[v]
    BY <1>1, WriteFacts DEF Return
  <2>2. pc'[q] = "done"
    BY <1>1 DEF Return
  <2> QED
    BY <1>1, <2>1, <2>2
<1>2. ASSUME NEW q \in Jobs, SupervisorStep(q) \/ Abandon(q) \/ ControlTimesOut(q) \/ DatabaseApplies(q)
      PROVE  UNCHANGED reply \/ (UNCHANGED applied /\ \E r : Return({q}, r))
  BY <1>2 DEF SupervisorStep, Enter, Send, GiveUp, Recover, Launched, Retry, Restart, Relaunched,
              Abandon, ControlTimesOut, DatabaseApplies
<1>3. ASSUME NEW g \in Generations, RouteReply(g)
      PROVE  \/ \A w \in Writes : reply'[w] = reply[w]
             \/ /\ UNCHANGED applied
                /\ \E w \in Writes : /\ \A v \in Writes \ {w} : reply'[v] = reply[v]
                                     /\ pc'[w] = "done"
  <2> DEFINE m == Head(outbox[g])
             receivers == {q \in pending[g] : Job[q].id = Job[m.job].id}
  <2>1. Return(receivers, m.answer) /\ UNCHANGED applied
    BY <1>3 DEF RouteReply
  <2>2. \A v, w \in Writes : v \in receivers /\ w \in receivers => v = w
    BY WriteFacts DEF WriteIdsAreOwn
  <2>3. \A v \in Writes : v \notin receivers => reply'[v] = reply[v]
    BY <2>1, WriteFacts DEF Return
  <2>4. \A v \in Writes : v \in receivers => pc'[v] = "done"
    BY <2>1, WriteFacts DEF Return
  <2> QED
    BY <2>1, <2>2, <2>3, <2>4
<1>4. ASSUME NEW g \in Generations, ReaderEnds(g) \/ StreamFails(g) \/ WorkerStep(g) \/ WorkerDies(g)
      PROVE  UNCHANGED reply
  BY <1>4 DEF ReaderEnds, StreamFails, WorkerStep, ReadEnvelope, StartTask, EndTask, EndControl, WorkerDies
<1>5. CASE UNCHANGED vars
  BY <1>5 DEF vars
<1> QED
  BY <1>1, <1>2, <1>3, <1>4, <1>5 DEF Next, ReaderStep

LEMMA DatabaseStep ==
    ASSUME TypeOK, [Next]_vars, applied' # applied
    PROVE  UNCHANGED reply /\ \E q \in wire \ applied : applied' = applied \cup {q}
<1> USE DEF supervisorVars, clientVars, memoryVars, jobVars, databaseVars
<1>1. \A q \in Jobs : ~SupervisorStep(q) /\ ~Abandon(q) /\ ~ControlTimesOut(q)
  BY DEF SupervisorStep, Enter, Send, GiveUp, Recover, Launched, Retry, Restart, Relaunched,
         Abandon, ControlTimesOut
<1>2. \A g \in Generations : ~ReaderStep(g) /\ ~StreamFails(g) /\ ~WorkerStep(g) /\ ~WorkerDies(g)
  BY DEF ReaderStep, RouteReply, ReaderEnds, StreamFails, WorkerStep, ReadEnvelope, StartTask, EndTask,
         EndControl, WorkerDies
<1>3. \E q \in Jobs : DatabaseApplies(q)
  BY <1>1, <1>2 DEF Next, vars
<1> QED
  BY <1>3 DEF DatabaseApplies

\* A job that has been answered is not answered again.
LEMMA DoneStays ==
    ASSUME TypeOK, CallInv, [Next]_vars, NEW q \in Jobs, pc[q] = "done"
    PROVE  reply'[q] = reply[q]
<1> USE DEF supervisorVars, clientVars, memoryVars, jobVars, databaseVars
<1>1. ASSUME NEW j \in Jobs, SupervisorStep(j) \/ Abandon(j) \/ ControlTimesOut(j) \/ DatabaseApplies(j)
      PROVE  UNCHANGED reply \/ (pc[j] # "done" /\ \E r : Return({j}, r))
  BY <1>1 DEF SupervisorStep, Enter, Send, GiveUp, Recover, Launched, Retry, Restart, Relaunched,
              Abandon, ControlTimesOut, DatabaseApplies, InCall
<1>2. ASSUME NEW g \in Generations, RouteReply(g)
      PROVE  reply'[q] = reply[q]
  <2>1. q \notin pending[g]
    BY NotPending
  <2> QED
    BY <1>2, <2>1 DEF RouteReply, Return
<1>3. ASSUME NEW g \in Generations, ReaderEnds(g) \/ StreamFails(g) \/ WorkerStep(g) \/ WorkerDies(g)
      PROVE  UNCHANGED reply
  BY <1>3 DEF ReaderEnds, StreamFails, WorkerStep, ReadEnvelope, StartTask, EndTask, EndControl, WorkerDies
<1>4. CASE UNCHANGED vars
  BY <1>4 DEF vars
<1> QED
  BY <1>1, <1>2, <1>3, <1>4 DEF Next, ReaderStep, Return

LEMMA RefinementStep ==
    ASSUME WriteIdsAreOwn
    PROVE  TypeOK /\ CallInv /\ WriteInv /\ WriteInv' /\ [Next]_vars =>
               [Promise!Next]_<<applied, [q \in Writes |-> AnswerFor(reply[q])]>>
<1> SUFFICES ASSUME TypeOK, CallInv, WriteInv, WriteInv', [Next]_vars
             PROVE  [Promise!Next]_<<applied, [q \in Writes |-> AnswerFor(reply[q])]>>
  OBVIOUS
<1> DEFINE answer == [q \in Writes |-> AnswerFor(reply[q])]
<1>0. Writes' = Writes /\ reply \in [Jobs -> Replies] /\ reply' \in [Jobs -> Replies]
      /\ \A q \in Writes : q \in Jobs
  BY TypeStep DEF Writes, IsWrite, TypeOK
<1>1. CASE applied' # applied
  <2>1. PICK q \in wire \ applied : applied' = applied \cup {q}
    BY <1>1, DatabaseStep
  <2>2. answer' = answer
    BY <1>1, DatabaseStep
  <2>3. q \in Writes /\ reply[q] # "ok" /\ ~Definite(reply[q])
    BY <2>1 DEF WriteInv, RepliesTrue, TrueOf, Untouched
  <2>4. AnswerFor(reply[q]) \in {"none", "unknown"}
    BY <1>0, <2>3 DEF AnswerFor, Definite, Replies
  <2>5. Promise!Apply(q)
    BY <2>1, <2>2, <2>3, <2>4 DEF Promise!Apply, SameJob
  <2> QED
    BY <2>3, <2>5 DEF Promise!Next
<1>2. CASE \A w \in Writes : reply'[w] = reply[w]
  <2>1. answer' = answer
    BY <1>2
  <2> QED
    BY <1>1, <2>1
<1>3. CASE UNCHANGED applied /\ \E w \in Writes : reply'[w] # reply[w]
  <2>1. PICK q \in Writes : (\A w \in Writes \ {q} : reply'[w] = reply[w]) /\ pc'[q] = "done"
    BY <1>3, ReplyStep
  <2>2. reply'[q] # reply[q]
    BY <1>3, <2>1
  <2>3. reply'[q] # "none" /\ TrueOf(q, reply[q])'
    BY <1>0, <2>1 DEF WriteInv, AnsweredOnce, RepliesTrue
  <2>4. reply[q] = "none"
    <3>1. CASE pc[q] # "done"
      BY <1>0, <3>1 DEF WriteInv, AnsweredOnce
    <3>2. CASE pc[q] = "done"
      BY <1>0, <2>2, <3>2, DoneStays
    <3> QED
      BY <3>1, <3>2
  <2>5. /\ AnswerFor(reply'[q]) \in Promise!Answers \ {"none"}
        /\ AnswerFor(reply'[q]) \in {"ok", "withheld"} => q \in applied
        /\ AnswerFor(reply'[q]) = "failed" => q \notin applied
    <3>1. reply'[q] \in Replies /\ reply'[q] # "none"
      BY <1>0, <2>3
    <3>2. (reply'[q] = "ok" => q \in applied) /\ (Definite(reply'[q]) => q \notin applied)
      BY <1>3, <2>3 DEF TrueOf, Untouched, Definite
    <3> QED
      BY <3>1, <3>2 DEF AnswerFor, Promise!Answers, Replies, Definite
  <2>6. answer[q] = "none" /\ answer' = [answer EXCEPT ![q] = AnswerFor(reply'[q])]
    BY <1>0, <2>1, <2>4 DEF AnswerFor
  <2>7. Promise!Answer(q, AnswerFor(reply'[q]))
    BY <1>3, <2>5, <2>6 DEF Promise!Answer
  <2> QED
    BY <2>5, <2>7 DEF Promise!Next
<1> QED
  BY <1>1, <1>2, <1>3

\* Where no other call carries the id of a write, the pack behind its workers implements
\* WriteOnce: a write that is answered with ok took effect, one that is refused or fails
\* never will, and a lost worker, a cancellation or a restart leaves an unknown outcome
\* at worst (ipc_error, normalize_cancelled_write).
THEOREM Refinement == WriteIdsAreOwn => (Spec => ImplementsWriteOnce)
<1> SUFFICES ASSUME WriteIdsAreOwn
             PROVE  Spec => ImplementsWriteOnce
  OBVIOUS
<1>1. Init => Promise!Init
  BY DEF Init, Promise!Init, AnswerFor, Writes
<1> QED
  BY <1>1, RefinementStep, TypeCorrect, CallInvariant, WriteInvariant, PTL
     DEF Spec, ImplementsWriteOnce, Promise!Spec

-----------------------------------------------------------------------------
(***************************************************************************)
(* Cancellation.  The supervisor's tombstone keeps a cancelled request     *)
(* from being chosen again, so only workers up to the one that is asked    *)
(* can meet it; and the worker that is asked is stopped from executing it  *)
(* before it answers.                                                      *)
(***************************************************************************)
IsCancel(k) == k \in Jobs /\ Job[k].kind = "cancel"

\* Worker g has job q, or is about to be sent it.
Reaches(q, g) == (pc[q] = "chosen" /\ Using(q) = g) \/ Listed(g, q) \/ q \in active[g]

\* Worker g does not begin to execute a request with id t, now or later.
Barrier(g, t) ==
    /\ \A q \in active[g] : Job[q].id = t /\ q \notin running[g] => q \in cancelled[g]
    /\ t \in workerTombstones[g] \/ \E q \in active[g] \cap cancelled[g] : Job[q].id = t

Stopped(g, t) == g <= generation /\ (process[g] = "dead" \/ Barrier(g, t))

WorkersKnown ==
    /\ \A g \in Generations : \A q \in active[g] : IsData(q)
    /\ \A g \in Generations : process[g] = "dead" => inbox[g] = <<>> /\ active[g] = {}
    /\ \A q \in Jobs : \A g \in Generations : Reaches(q, g) => g <= generation

\* The request with id t reaches no worker later than g.
NoneLater(t, g) ==
    /\ t \in tombstones
    /\ \A q \in Jobs : IsData(q) /\ Job[q].id = t =>
          \A h \in Generations : Reaches(q, h) => h <= g

\* A worker that has read the cancellation k has stopped the request.
WorkerStops(k) ==
    \A g \in Generations :
        /\ k \in running[g] => Stopped(g, Job[k].target)
        /\ \A i \in 1..Len(outbox[g]) : outbox[g][i].job = k => Stopped(g, Job[k].target)

CancelAsked(k) ==
    client[k] # NoClient =>
        /\ NoneLater(Job[k].target, client[k])
        /\ retry[k] # NoClient => client[k] <= retry[k]

CancelAnswered(k) ==
    reply[k] \in {"ok", "failed"} =>
        \E g \in Generations : Stopped(g, Job[k].target) /\ NoneLater(Job[k].target, g)

CancelInv ==
    /\ WorkersKnown
    /\ \A k \in Jobs : IsCancel(k) => WorkerStops(k) /\ CancelAsked(k) /\ CancelAnswered(k)

LEMMA MemoryTypes ==
    ASSUME TypeOK
    PROVE  /\ active \in [Generations -> SUBSET Jobs] /\ cancelled \in [Generations -> SUBSET Jobs]
           /\ running \in [Generations -> SUBSET Jobs] /\ workerTombstones \in [Generations -> SUBSET Ids]
           /\ inbox \in [Generations -> Seq(Jobs)] /\ process \in [Generations -> ProcessStates]
           /\ generation \in Nat
BY GenerationFacts DEF TypeOK

\* A worker that learns more about cancellations, or ends, stays stopped.
LEMMA StoppedGrows ==
    ASSUME NEW g \in Generations, NEW t, Stopped(g, t), active'[g] = active[g],
           running[g] \subseteq running'[g], cancelled[g] \subseteq cancelled'[g],
           workerTombstones[g] \subseteq workerTombstones'[g],
           generation \in Int, generation' \in Int, generation <= generation',
           g <= generation /\ process[g] = "dead" => process'[g] = "dead"
    PROVE  Stopped(g, t)'
<1>1. g <= generation'
  BY GenerationFacts DEF Stopped
<1>2. Barrier(g, t) => Barrier(g, t)'
  BY DEF Barrier
<1> QED
  BY <1>1, <1>2 DEF Stopped

LEMMA StoppedEnds ==
    ASSUME TypeOK, NEW g \in Generations, NEW t, Stopped(g, t), NEW h \in Generations, ProcessEnds(h),
           UNCHANGED generation
    PROVE  Stopped(g, t)'
<1>1. CASE g = h
  BY <1>1, MemoryTypes DEF ProcessEnds, Stopped
<1>2. CASE g # h
  <2>1. /\ active'[g] = active[g] /\ running'[g] = running[g] /\ cancelled'[g] = cancelled[g]
        /\ workerTombstones'[g] = workerTombstones[g] /\ process'[g] = process[g]
    BY <1>2, MemoryTypes DEF ProcessEnds
  <2>2. generation \in Int /\ generation' \in Int /\ generation <= generation'
    BY MemoryTypes
  <2> QED
    BY <2>1, <2>2, StoppedGrows
<1> QED
  BY <1>1, <1>2

LEMMA StoppedFinish ==
    ASSUME TypeOK, NEW g \in Generations, NEW t, Stopped(g, t), NEW h \in Generations, NEW p \in Jobs,
           NEW a, FinishTask(h, p, a), UNCHANGED <<generation, process>>
    PROVE  Stopped(g, t)'
<1>1. CASE g # h
  <2>1. /\ active'[g] = active[g] /\ running'[g] = running[g] /\ cancelled'[g] = cancelled[g]
        /\ workerTombstones'[g] = workerTombstones[g] /\ process'[g] = process[g]
    BY <1>1, MemoryTypes DEF FinishTask
  <2>2. generation \in Int /\ generation' \in Int /\ generation <= generation'
    BY MemoryTypes
  <2> QED
    BY <2>1, <2>2, StoppedGrows
<1>2. CASE g = h
  <2>1. /\ active'[g] = active[g] \ {p} /\ running'[g] = running[g] \ {p}
        /\ cancelled'[g] = cancelled[g] \ {p}
        /\ workerTombstones[g] \subseteq workerTombstones'[g]
        /\ p \in cancelled[g] => Job[p].id \in workerTombstones'[g]
    BY <1>2, MemoryTypes DEF FinishTask
  <2>2. Barrier(g, t) => Barrier(g, t)'
    BY <2>1 DEF Barrier
  <2> QED
    BY <2>2 DEF Stopped
<1> QED
  BY <1>1, <1>2

LEMMA StoppedTask ==
    ASSUME TypeOK, WorkersKnown, NEW g \in Generations, NEW t, Stopped(g, t), NEW h \in Generations,
           NEW p \in Jobs, StartTask(h, p) \/ EndTask(h, p) \/ EndControl(h, p)
    PROVE  Stopped(g, t)'
<1> USE DEF supervisorVars, clientVars, memoryVars, jobVars, databaseVars
<1>1. UNCHANGED <<generation, process>>
  BY DEF StartTask, EndTask, EndControl
<1>2. CASE \E a : FinishTask(h, p, a)
  BY <1>1, <1>2, StoppedFinish
<1>3. CASE running' = [running EXCEPT ![h] = @ \cup {p}] /\ UNCHANGED <<active, cancelled, workerTombstones>>
  BY <1>1, <1>3, MemoryTypes, StoppedGrows
<1>4. CASE EndControl(h, p)
  <2>1. /\ running' = [running EXCEPT ![h] = @ \ {p}] /\ UNCHANGED <<active, cancelled, workerTombstones>>
        /\ IsControl(p)
    BY <1>4 DEF EndControl
  <2>2. p \notin active[g]
    BY <2>1 DEF WorkersKnown, IsControl, IsData, ControlKinds, DataKinds
  <2>3. \A q \in active[g] : q \in running[g] => q \in running'[g]
    BY <2>1, <2>2, MemoryTypes
  <2>4. Barrier(g, t) => Barrier(g, t)'
    BY <2>1, <2>3 DEF Barrier
  <2> QED
    BY <1>1, <2>4 DEF Stopped
<1> QED
  BY <1>2, <1>3, <1>4 DEF StartTask, EndTask

LEMMA StoppedEnvelope ==
    ASSUME TypeOK, NEW g \in Generations, NEW t, Stopped(g, t), NEW h \in Generations, ReadEnvelope(h)
    PROVE  Stopped(g, t)'
<1> USE DEF supervisorVars, clientVars, memoryVars, jobVars, databaseVars
<1>1. UNCHANGED generation /\ process[h] = "live"
  BY DEF ReadEnvelope
<1>2. PICK p \in Jobs : ReadControl(h, p) \/ ReadData(h, p) \/ ReadShutdown(h, p)
  <2>1. inbox[h] # <<>> /\ inbox[h] \in Seq(Jobs)
    BY MemoryTypes DEF ReadEnvelope
  <2> QED
    BY <2>1, HeadTail DEF ReadEnvelope
<1>3. CASE ReadControl(h, p)
  <2>1. UNCHANGED <<active, process>> /\ running[g] \subseteq running'[g]
    BY <1>3, MemoryTypes DEF ReadControl
  <2>2. cancelled[g] \subseteq cancelled'[g] /\ workerTombstones[g] \subseteq workerTombstones'[g]
    <3>1. ASSUME NEW S, cancelled' = [cancelled EXCEPT ![h] = @ \cup S]
          PROVE  cancelled[g] \subseteq cancelled'[g]
      BY <3>1, MemoryTypes
    <3>2. CASE LifecycleCancel(h, Job[p].target)
      BY <3>1, <3>2, MemoryTypes DEF LifecycleCancel
    <3>3. CASE LifecycleCancelConnection(h, Job[p].conn)
      BY <3>1, <3>3, MemoryTypes DEF LifecycleCancelConnection
    <3> QED
      BY <1>3, <3>2, <3>3 DEF ReadControl
  <2>3. generation \in Int /\ generation' \in Int /\ generation <= generation'
    BY <1>1, MemoryTypes
  <2>4. active'[g] = active[g] /\ process'[g] = process[g]
    BY <2>1
  <2> QED
    BY <2>1, <2>2, <2>3, <2>4, StoppedGrows
<1>4. CASE ReadShutdown(h, p)
  BY <1>1, <1>4, StoppedEnds DEF ReadShutdown
<1>5. CASE ReadData(h, p)
  <2>1. UNCHANGED <<process, cancelled, workerTombstones, running>>
    BY <1>5 DEF ReadData
  <2>2. CASE active'[g] = active[g]
    BY <1>1, <2>1, <2>2, MemoryTypes, StoppedGrows
  <2>3. CASE active'[g] # active[g]
    <3>1. g = h /\ Refusal(g, p) = "none" /\ active'[g] = active[g] \cup {p}
      BY <1>5, <2>3, MemoryTypes DEF ReadData
    <3>2. Barrier(g, t)
      BY <1>1, <3>1 DEF Stopped
    <3>3. Job[p].id # t
      BY <3>1, <3>2 DEF Refusal, Barrier
    <3>4. Barrier(g, t)'
      BY <2>1, <3>1, <3>2, <3>3 DEF Barrier
    <3> QED
      BY <1>1, <3>4 DEF Stopped
  <2> QED
    BY <2>2, <2>3
<1> QED
  BY <1>2, <1>3, <1>4, <1>5

\* Once stopped, a worker remains stopped.
LEMMA StoppedStays ==
    ASSUME TypeOK, WorkersKnown, [Next]_vars, NEW g \in Generations, NEW t, Stopped(g, t)
    PROVE  Stopped(g, t)'
<1> USE DEF supervisorVars, clientVars, memoryVars, jobVars, databaseVars
<1>1. ASSUME UNCHANGED <<active, running, cancelled, workerTombstones, generation>>,
             process[g] = "dead" => process'[g] = "dead"
      PROVE  Stopped(g, t)'
  BY <1>1, MemoryTypes, StoppedGrows
<1>2. ASSUME NEW q \in Jobs, Enter(q) \/ Send(q) \/ GiveUp(q) \/ Recover(q) \/ Retry(q) \/ DatabaseApplies(q)
      PROVE  Stopped(g, t)'
  BY <1>1, <1>2 DEF Enter, Send, GiveUp, Recover, Retry, DatabaseApplies
<1>3. ASSUME NEW q \in Jobs, Launched(q) \/ Relaunched(q)
      PROVE  Stopped(g, t)'
  <2>1. /\ UNCHANGED <<active, running, cancelled, workerTombstones>>
        /\ StartGeneration \/ LaunchFails
    BY <1>3 DEF Launched, Relaunched
  <2>2. generation <= generation' /\ generation' \in Int
    BY <2>1, StartGenerationBreaks, GenerationFacts
  <2>3. g <= generation => process'[g] = process[g]
    BY <2>1, MemoryTypes, GenerationFacts DEF StartGeneration, LaunchFails
  <2> QED
    BY <2>1, <2>2, <2>3, MemoryTypes, StoppedGrows
<1>4. ASSUME NEW q \in Jobs, Restart(q)
      PROVE  Stopped(g, t)'
  BY <1>1, <1>4, StoppedEnds, CallTypes DEF Restart
<1>5. ASSUME NEW q \in Jobs, Abandon(q) \/ ControlTimesOut(q)
      PROVE  Stopped(g, t)'
  <2>1. process[g] = "dead" => process'[g] = "dead"
    BY <1>5, MemoryTypes DEF Abandon, ControlTimesOut, Interrupt
  <2> QED
    BY <1>1, <1>5, <2>1 DEF Abandon, ControlTimesOut
<1>6. ASSUME NEW h \in Generations, ReaderStep(h) \/ StreamFails(h)
      PROVE  Stopped(g, t)'
  BY <1>1, <1>6 DEF ReaderStep, RouteReply, ReaderEnds, StreamFails
<1>7. ASSUME NEW h \in Generations, WorkerStep(h)
      PROVE  Stopped(g, t)'
  BY <1>7, StoppedEnvelope, StoppedTask DEF WorkerStep
<1>8. ASSUME NEW h \in Generations, WorkerDies(h)
      PROVE  Stopped(g, t)'
  BY <1>8, StoppedEnds DEF WorkerDies
<1>9. CASE UNCHANGED vars
  BY <1>1, <1>9 DEF vars
<1> QED
  BY <1>2, <1>3, <1>4, <1>5, <1>6, <1>7, <1>8, <1>9 DEF Next, SupervisorStep

\* How a job comes to be at a worker: chosen, unless it is barred, then listed, then active.
LEMMA ChosenStep ==
    ASSUME TypeOK, CallInv, [Next]_vars, NEW q \in Jobs, pc'[q] = "chosen"
    PROVE  \/ pc[q] = "chosen" /\ Using(q)' = Using(q)
           \/ ~Barred(q) /\ Using(q)' <= generation
<1> USE DEF supervisorVars, clientVars, memoryVars, jobVars, databaseVars
<1>1. ASSUME pc'[q] = pc[q], client'[q] = client[q], retry'[q] = retry[q]
      PROVE  pc[q] = "chosen" /\ Using(q)' = Using(q)
  BY <1>1 DEF Using
<1>2. ASSUME NEW S, NEW r, Return(S, r)
      PROVE  pc[q] = "chosen" /\ Using(q)' = Using(q)
  <2>1. q \notin S
    BY <1>2 DEF Return
  <2> QED
    BY <1>1, <1>2, <2>1 DEF Return
<1>3. ASSUME NEW j \in Jobs, Enter(j)
      PROVE  \/ pc[q] = "chosen" /\ Using(q)' = Using(q)
             \/ ~Barred(q) /\ Using(q)' <= generation
  <2>1. CASE ~Barred(j) /\ Goto(j, "chosen") /\ client' = [client EXCEPT ![j] = generation] /\ UNCHANGED retry
    <3>1. CASE j = q
      <4>1. retry[q] = NoClient
        BY <1>3, <3>1 DEF Enter, CallInv, JobInv, ClientKnown
      <4>2. Using(q)' = generation /\ generation <= generation
        BY <2>1, <3>1, <4>1, CallTypes DEF Using
      <4> QED
        BY <2>1, <3>1, <4>2
    <3>2. CASE j # q
      BY <1>1, <2>1, <3>2, CallTypes DEF Goto
    <3> QED
      BY <3>1, <3>2
  <2> QED
    BY <1>2, <1>3, <2>1 DEF Enter
<1>4. ASSUME NEW j \in Jobs, Retry(j)
      PROVE  \/ pc[q] = "chosen" /\ Using(q)' = Using(q)
             \/ ~Barred(q) /\ Using(q)' <= generation
  <2>1. CASE ~Barred(j) /\ Goto(j, "chosen") /\ UNCHANGED <<client, retry>>
    <3>1. CASE j = q
      <4>1. client[q] <= generation /\ retry[q] <= generation
        BY DEF CallInv, JobInv, ClientKnown
      <4> QED
        BY <2>1, <3>1, <4>1 DEF Using
    <3>2. CASE j # q
      BY <1>1, <2>1, <3>2, CallTypes DEF Goto
    <3> QED
      BY <3>1, <3>2
  <2> QED
    BY <1>2, <1>4, <2>1 DEF Retry
<1>5. ASSUME NEW j \in Jobs, NEW s, s # "chosen", pc' = [pc EXCEPT ![j] = s],
             \A p \in Jobs \ {j} : client'[p] = client[p] /\ retry'[p] = retry[p]
      PROVE  pc[q] = "chosen" /\ Using(q)' = Using(q)
  <2>1. j # q
    BY <1>5, CallTypes
  <2> QED
    BY <1>1, <1>5, <2>1, CallTypes
<1>6. ASSUME NEW j \in Jobs, Send(j) \/ GiveUp(j) \/ Recover(j) \/ Launched(j) \/ Restart(j) \/ Relaunched(j)
                             \/ Abandon(j) \/ ControlTimesOut(j)
      PROVE  pc[q] = "chosen" /\ Using(q)' = Using(q)
  <2>1. \/ \E r : Return({j}, r)
        \/ /\ \E s \in Stations \ {"chosen"} : pc' = [pc EXCEPT ![j] = s]
           /\ UNCHANGED client
           /\ \E g \in Generations : retry' \in {retry, [retry EXCEPT ![j] = g]}
    <3>1. CASE Send(j) \/ GiveUp(j)
      BY <3>1, CallTypes DEF Send, GiveUp, Goto, Stations
    <3>2. CASE Recover(j)
      BY <3>2, CallTypes DEF Recover, Goto, Stations
    <3>3. CASE Launched(j)
      <4>1. StartGeneration => generation + 1 \in Generations
        BY CallTypes, GenerationFacts DEF StartGeneration
      <4> QED
        BY <3>3, <4>1, CallTypes DEF Launched, Goto, Stations
    <3>4. CASE Restart(j) \/ Relaunched(j) \/ Abandon(j) \/ ControlTimesOut(j)
      BY <3>4, CallTypes DEF Restart, Relaunched, Abandon, ControlTimesOut, Goto, Stations
    <3> QED
      BY <1>6, <3>1, <3>2, <3>3, <3>4
  <2>2. CASE \E r : Return({j}, r)
    BY <1>2, <2>2
  <2>3. CASE /\ \E s \in Stations \ {"chosen"} : pc' = [pc EXCEPT ![j] = s]
             /\ UNCHANGED client
             /\ \E g \in Generations : retry' \in {retry, [retry EXCEPT ![j] = g]}
    BY <1>5, <2>3, CallTypes
  <2> QED
    BY <2>1, <2>2, <2>3
<1>7. ASSUME NEW g \in Generations, ReaderEnds(g) \/ StreamFails(g)
      PROVE  pc[q] = "chosen" /\ Using(q)' = Using(q)
  BY <1>1, <1>7 DEF ReaderEnds, StreamFails, FailPending
<1>8. ASSUME NEW g \in Generations, WorkerStep(g) \/ WorkerDies(g)
      PROVE  pc[q] = "chosen" /\ Using(q)' = Using(q)
  BY <1>1, <1>8 DEF WorkerStep, ReadEnvelope, StartTask, EndTask, EndControl, WorkerDies
<1>9. ASSUME NEW g \in Generations, RouteReply(g)
      PROVE  pc[q] = "chosen" /\ Using(q)' = Using(q)
  BY <1>2, <1>9 DEF RouteReply
<1>10. CASE UNCHANGED vars
  BY <1>1, <1>10 DEF vars
<1>11. ASSUME NEW j \in Jobs, DatabaseApplies(j)
       PROVE  pc[q] = "chosen" /\ Using(q)' = Using(q)
  BY <1>1, <1>11 DEF DatabaseApplies
<1> QED
  BY <1>3, <1>4, <1>6, <1>7, <1>8, <1>9, <1>10, <1>11 DEF Next, SupervisorStep, ReaderStep

LEMMA ListedStep ==
    ASSUME TypeOK, CallInv, [Next]_vars, NEW q \in Jobs, NEW g \in Generations, Listed(g, q)'
    PROVE  Listed(g, q) \/ (pc[q] = "chosen" /\ Using(q) = g /\ process[g] # "dead")
<1> USE DEF supervisorVars, clientVars, memoryVars, jobVars, databaseVars
<1>0. inbox \in [Generations -> Seq(Jobs)] /\ inbox[g] \in Seq(Jobs)
  BY MemoryTypes
<1>1. CASE inbox'[g] = inbox[g]
  BY <1>1 DEF Listed
<1>2. CASE inbox'[g] = Tail(inbox[g]) /\ inbox[g] # <<>>
  BY <1>0, <1>2, TailListed DEF Listed
<1>3. CASE inbox'[g] = <<>>
  BY <1>3 DEF Listed
<1>4. ASSUME NEW j \in Jobs, Send(j)
      PROVE  Listed(g, q) \/ (pc[q] = "chosen" /\ Using(q) = g /\ process[g] # "dead")
  <2>1. CASE inbox'[g] # inbox[g]
    <3>1. g = Using(j) /\ inbox'[g] = Append(inbox[g], j) /\ pc[j] = "chosen" /\ process[g] # "dead"
      BY <1>0, <1>4, <2>1 DEF Send
    <3>2. ~Listed(g, q) => j = q
      BY <1>0, <3>1 DEF Listed
    <3> QED
      BY <3>1, <3>2
  <2> QED
    BY <1>1, <2>1
<1>5. ASSUME NEW h \in Generations, ProcessEnds(h)
      PROVE  inbox'[g] = inbox[g] \/ inbox'[g] = <<>>
  BY <1>0, <1>5 DEF ProcessEnds
<1>6. ASSUME NEW h \in Generations, ReadEnvelope(h)
      PROVE  \/ inbox'[g] = inbox[g] \/ inbox'[g] = <<>>
             \/ inbox'[g] = Tail(inbox[g]) /\ inbox[g] # <<>>
  <2>1. inbox[h] # <<>> /\ (ProcessEnds(h) \/ inbox' = [inbox EXCEPT ![h] = Tail(inbox[h])])
    BY <1>6 DEF ReadEnvelope, ReadControl, ReadData, ReadShutdown
  <2> QED
    BY <1>0, <1>5, <2>1
<1>7. ASSUME NEW j \in Jobs, Restart(j)
      PROVE  inbox'[g] = inbox[g] \/ inbox'[g] = <<>>
  BY <1>5, <1>7, CallTypes DEF Restart
<1>8. ASSUME NEW h \in Generations, WorkerDies(h)
      PROVE  inbox'[g] = inbox[g] \/ inbox'[g] = <<>>
  BY <1>5, <1>8 DEF WorkerDies
<1>9. ASSUME NEW j \in Jobs, Enter(j) \/ GiveUp(j) \/ Recover(j) \/ Launched(j) \/ Retry(j) \/ Relaunched(j)
                             \/ Abandon(j) \/ ControlTimesOut(j) \/ DatabaseApplies(j)
      PROVE  inbox' = inbox
  BY <1>9 DEF Enter, GiveUp, Recover, Launched, Retry, Relaunched, Abandon, ControlTimesOut, DatabaseApplies
<1>10. ASSUME NEW h \in Generations, ReaderStep(h) \/ StreamFails(h)
       PROVE  inbox' = inbox
  BY <1>10 DEF ReaderStep, RouteReply, ReaderEnds, StreamFails
<1>11. ASSUME NEW h \in Generations, NEW j \in Jobs, StartTask(h, j) \/ EndTask(h, j) \/ EndControl(h, j)
       PROVE  inbox' = inbox
  BY <1>11 DEF StartTask, EndTask, EndControl
<1>12. CASE UNCHANGED vars
  BY <1>1, <1>12 DEF vars
<1> QED
  BY <1>1, <1>2, <1>3, <1>4, <1>6, <1>7, <1>8, <1>9, <1>10, <1>11, <1>12 DEF Next, SupervisorStep, WorkerStep

LEMMA ActiveStep ==
    ASSUME TypeOK, [Next]_vars, NEW q \in Jobs, NEW g \in Generations, q \in active'[g]
    PROVE  q \in active[g] \/ (Listed(g, q) /\ IsData(q) /\ process[g] = "live")
<1> USE DEF supervisorVars, clientVars, memoryVars, jobVars, databaseVars
<1>0. active \in [Generations -> SUBSET Jobs]
  BY MemoryTypes
<1>1. ASSUME NEW h \in Generations, ProcessEnds(h)
      PROVE  q \in active[g]
  BY <1>0, <1>1 DEF ProcessEnds
<1>2. ASSUME NEW h \in Generations, ReadEnvelope(h)
      PROVE  q \in active[g] \/ (Listed(g, q) /\ IsData(q) /\ process[g] = "live")
  <2>1. inbox[h] # <<>> /\ inbox[h] \in Seq(Jobs) /\ process[h] = "live"
    BY <1>2, MemoryTypes DEF ReadEnvelope
  <2>2. PICK p \in Jobs : p = Head(inbox[h]) /\ p = inbox[h][1] /\ 1 \in 1..Len(inbox[h])
    BY <2>1, HeadTail
  <2>3. CASE ReadData(h, p) /\ q \notin active[g]
    <3>1. g = h /\ q = p /\ IsData(p)
      BY <1>0, <2>3 DEF ReadData
    <3> QED
      BY <2>1, <2>2, <3>1 DEF Listed
  <2> QED
    BY <1>1, <1>2, <2>2, <2>3 DEF ReadEnvelope, ReadControl, ReadShutdown
<1>3. ASSUME NEW h \in Generations, NEW j \in Jobs, StartTask(h, j) \/ EndTask(h, j) \/ EndControl(h, j)
      PROVE  q \in active[g]
  <2>1. active' = active \/ active' = [active EXCEPT ![h] = @ \ {j}]
    BY <1>3 DEF StartTask, EndTask, EndControl, FinishTask
  <2> QED
    BY <1>0, <2>1
<1>4. ASSUME NEW j \in Jobs, SupervisorStep(j) \/ Abandon(j) \/ ControlTimesOut(j) \/ DatabaseApplies(j)
      PROVE  UNCHANGED active \/ ProcessEnds(generation)
  BY <1>4 DEF SupervisorStep, Enter, Send, GiveUp, Recover, Launched, Retry, Restart, Relaunched,
              Abandon, ControlTimesOut, DatabaseApplies
<1>5. ASSUME NEW h \in Generations, ReaderStep(h) \/ StreamFails(h) \/ WorkerDies(h)
      PROVE  UNCHANGED active \/ ProcessEnds(h)
  BY <1>5 DEF ReaderStep, RouteReply, ReaderEnds, StreamFails, WorkerDies
<1>6. CASE UNCHANGED vars
  BY <1>6 DEF vars
<1> QED
  BY <1>1, <1>2, <1>3, <1>4, <1>5, <1>6, CallTypes DEF Next, WorkerStep

LEMMA ReachStep ==
    ASSUME TypeOK, CallInv, [Next]_vars, NEW q \in Jobs, NEW g \in Generations, Reaches(q, g)'
    PROVE  Reaches(q, g) \/ (~Barred(q) /\ g <= generation)
BY ChosenStep, ListedStep, ActiveStep DEF Reaches

LEMMA KnownStep ==
    ASSUME TypeOK, CallInv, WorkersKnown, [Next]_vars
    PROVE  WorkersKnown' /\ generation <= generation'
<1> USE DEF supervisorVars, clientVars, memoryVars, jobVars, databaseVars
<1>0. generation' \in Generations /\ generation' \in Nat /\ generation \in Nat
  BY TypeStep, CallTypes, GenerationFacts DEF TypeOK
<1>1. generation <= generation'
  <2>1. generation' = generation \/ StartGeneration
    <3>1. ASSUME NEW q \in Jobs, SupervisorStep(q) \/ Abandon(q) \/ ControlTimesOut(q) \/ DatabaseApplies(q)
          PROVE  generation' = generation \/ StartGeneration
      BY <3>1 DEF SupervisorStep, Enter, Send, GiveUp, Recover, Launched, Retry, Restart, Relaunched,
                  Abandon, ControlTimesOut, DatabaseApplies, LaunchFails
    <3>2. ASSUME NEW g \in Generations, ReaderStep(g) \/ StreamFails(g) \/ WorkerStep(g) \/ WorkerDies(g)
          PROVE  generation' = generation
      BY <3>2 DEF ReaderStep, RouteReply, ReaderEnds, StreamFails, WorkerStep, ReadEnvelope, StartTask,
                  EndTask, EndControl, WorkerDies
    <3>3. CASE UNCHANGED vars
      BY <3>3 DEF vars
    <3> QED
      BY <3>1, <3>2, <3>3 DEF Next
  <2> QED
    BY <1>0, <2>1 DEF StartGeneration
<1>2. ASSUME NEW g \in Generations, NEW q \in active'[g]
      PROVE  IsData(q)'
  <2>1. q \in Jobs
    BY TypeStep DEF TypeOK
  <2> QED
    BY <2>1, ActiveStep DEF WorkersKnown, IsData
<1>3. ASSUME NEW g \in Generations, process'[g] = "dead"
      PROVE  inbox'[g] = <<>> /\ active'[g] = {}
  <2>1. CASE process[g] = "dead"
    <3>1. inbox[g] = <<>> /\ active[g] = {} /\ inbox'[g] \in Seq(Jobs) /\ active'[g] \subseteq Jobs
      BY <2>1, TypeStep DEF WorkersKnown, TypeOK
    <3>2. active'[g] = {}
      BY <2>1, <3>1, ActiveStep
    <3>3. \A q \in Jobs : ~Listed(g, q)
      BY <3>1 DEF Listed
    <3>4. \A q \in Jobs : ~Listed(g, q)'
      BY <2>1, <3>3, ListedStep
    <3>5. inbox'[g] = <<>>
      <4>1. CASE inbox'[g] # <<>>
        <5>1. inbox'[g][1] \in Jobs /\ 1 \in 1..Len(inbox'[g])
          BY <3>1, <4>1, HeadTail
        <5> QED
          BY <3>4, <5>1 DEF Listed
      <4> QED
        BY <4>1
    <3> QED
      BY <3>2, <3>5
  <2>2. CASE process[g] # "dead"
    <3>1. \E h \in Generations : ProcessEnds(h)
      <4>1. ASSUME NEW q \in Jobs, Launched(q) \/ Relaunched(q)
            PROVE  FALSE
        BY <1>3, <2>2, <4>1, MemoryTypes, GenerationFacts DEF Launched, Relaunched, StartGeneration, LaunchFails
      <4>2. ASSUME NEW q \in Jobs, Abandon(q) \/ ControlTimesOut(q)
            PROVE  FALSE
        BY <1>3, <2>2, <4>2, MemoryTypes DEF Abandon, ControlTimesOut, Interrupt
      <4>3. ASSUME NEW q \in Jobs, Enter(q) \/ Send(q) \/ GiveUp(q) \/ Recover(q) \/ Retry(q) \/ DatabaseApplies(q)
            PROVE  FALSE
        BY <1>3, <2>2, <4>3 DEF Enter, Send, GiveUp, Recover, Retry, DatabaseApplies
      <4>4. ASSUME NEW q \in Jobs, Restart(q)
            PROVE  \E h \in Generations : ProcessEnds(h)
        BY <1>3, <2>2, <4>4, CallTypes DEF Restart
      <4>5. ASSUME NEW h \in Generations, ReaderStep(h) \/ StreamFails(h)
            PROVE  FALSE
        BY <1>3, <2>2, <4>5 DEF ReaderStep, RouteReply, ReaderEnds, StreamFails
      <4>6. ASSUME NEW h \in Generations, NEW q \in Jobs, StartTask(h, q) \/ EndTask(h, q) \/ EndControl(h, q)
            PROVE  FALSE
        BY <1>3, <2>2, <4>6 DEF StartTask, EndTask, EndControl
      <4>7. ASSUME NEW h \in Generations, ReadEnvelope(h) \/ WorkerDies(h)
            PROVE  \E d \in Generations : ProcessEnds(d)
        BY <1>3, <2>2, <4>7 DEF ReadEnvelope, ReadControl, ReadData, ReadShutdown, WorkerDies
      <4>8. CASE UNCHANGED vars
        BY <1>3, <2>2, <4>8 DEF vars
      <4> QED
        BY <4>1, <4>2, <4>3, <4>4, <4>5, <4>6, <4>7, <4>8 DEF Next, SupervisorStep, WorkerStep
    <3>2. PICK h \in Generations : ProcessEnds(h)
      BY <3>1
    <3>3. h = g
      BY <1>3, <2>2, <3>2, MemoryTypes DEF ProcessEnds
    <3> QED
      BY <3>2, <3>3, MemoryTypes DEF ProcessEnds
  <2> QED
    BY <2>1, <2>2
<1>4. ASSUME NEW q \in Jobs, NEW g \in Generations, Reaches(q, g)'
      PROVE  g <= generation'
  <2>1. g <= generation
    BY <1>4, ReachStep DEF WorkersKnown
  <2> QED
    BY <1>0, <1>1, <2>1, GenerationFacts
<1> QED
  BY <1>1, <1>2, <1>3, <1>4 DEF WorkersKnown

LEMMA TombstonesStay ==
    ASSUME [Next]_vars
    PROVE  tombstones \subseteq tombstones'
<1> USE DEF supervisorVars, clientVars, memoryVars, jobVars, databaseVars
<1>1. ASSUME NEW q \in Jobs, SupervisorStep(q) \/ Abandon(q) \/ ControlTimesOut(q) \/ DatabaseApplies(q)
      PROVE  tombstones \subseteq tombstones'
  BY <1>1 DEF SupervisorStep, Enter, RecordCancellation, Send, GiveUp, Recover, Launched, Retry, Restart,
              Relaunched, Abandon, ControlTimesOut, DatabaseApplies
<1>2. ASSUME NEW g \in Generations, ReaderStep(g) \/ StreamFails(g) \/ WorkerStep(g) \/ WorkerDies(g)
      PROVE  tombstones \subseteq tombstones'
  BY <1>2 DEF ReaderStep, RouteReply, ReaderEnds, StreamFails, WorkerStep, ReadEnvelope, StartTask,
              EndTask, EndControl, WorkerDies
<1> QED
  BY <1>1, <1>2 DEF Next, vars

\* A tombstone keeps a request from every later worker.
LEMMA NoneLaterStays ==
    ASSUME TypeOK, CallInv, [Next]_vars, NEW t, NEW g, NoneLater(t, g)
    PROVE  NoneLater(t, g)'
<1>1. t \in tombstones'
  BY TombstonesStay DEF NoneLater
<1>2. ASSUME NEW q \in Jobs, IsData(q), Job[q].id = t, NEW h \in Generations, Reaches(q, h)'
      PROVE  h <= g
  <2>1. Barred(q)
    BY <1>2 DEF Barred, NoneLater
  <2>2. Reaches(q, h)
    BY <1>2, <2>1, ReachStep
  <2> QED
    BY <1>2, <2>2 DEF NoneLater
<1> QED
  BY <1>1, <1>2 DEF NoneLater, IsData

LEMMA CancelFacts ==
    ASSUME NEW k, IsCancel(k)
    PROVE  /\ k \in Jobs /\ IsControl(k) /\ ~IsData(k) /\ ~IsWrite(k) /\ SafeToRetry(k)
           /\ Job[k].kind # "shutdown" /\ Job[k].kind # "invalidate"
           /\ \A j \in Jobs : Job[j].id = Job[k].id => j = k
BY WorkerIpcAssumption
   DEF IsCancel, IsControl, IsData, IsWrite, SafeToRetry, DataKinds, ControlKinds

\* A cancellation begins to run when a worker reads it, which stops the request there.
LEMMA CancelRuns ==
    ASSUME TypeOK, CallInv, WorkersKnown, [Next]_vars, NEW k, IsCancel(k),
           NEW g \in Generations, k \in running'[g], k \notin running[g]
    PROVE  Stopped(g, Job[k].target)'
<1> USE DEF supervisorVars, clientVars, memoryVars, jobVars, databaseVars
<1>0. /\ running \in [Generations -> SUBSET Jobs] /\ k \in Jobs /\ ~IsData(k)
      /\ cancelled \in [Generations -> SUBSET Jobs] /\ workerTombstones \in [Generations -> SUBSET Ids]
  BY MemoryTypes, CancelFacts
<1>1. \A h \in Generations : ~ProcessEnds(h)
  BY <1>0 DEF ProcessEnds
<1>2. \A h \in Generations, q \in Jobs : ~StartTask(h, q) /\ ~EndTask(h, q) /\ ~EndControl(h, q)
  <2> SUFFICES ASSUME NEW h \in Generations, NEW q \in Jobs, StartTask(h, q) \/ EndTask(h, q) \/ EndControl(h, q)
               PROVE  FALSE
    OBVIOUS
  <2>1. CASE running' = [running EXCEPT ![h] = @ \ {q}]
    BY <1>0, <2>1
  <2>2. CASE running' = [running EXCEPT ![h] = @ \cup {q}] /\ q \in active[h]
    BY <1>0, <2>2 DEF WorkersKnown
  <2> QED
    BY <2>1, <2>2 DEF StartTask, EndTask, EndControl, FinishTask
<1>3. \A q \in Jobs : ~SupervisorStep(q) /\ ~Abandon(q) /\ ~ControlTimesOut(q) /\ ~DatabaseApplies(q)
  BY <1>1, CallTypes DEF SupervisorStep, Enter, Send, GiveUp, Recover, Launched, Retry, Restart, Relaunched,
                         Abandon, ControlTimesOut, DatabaseApplies
<1>4. \A h \in Generations : ~ReaderStep(h) /\ ~StreamFails(h) /\ ~WorkerDies(h)
  BY <1>1 DEF ReaderStep, RouteReply, ReaderEnds, StreamFails, WorkerDies
<1>5. PICK h \in Generations : ReadEnvelope(h)
  BY <1>2, <1>3, <1>4 DEF Next, WorkerStep, vars
<1>6. inbox[h] # <<>> /\ inbox[h] \in Seq(Jobs) /\ UNCHANGED generation
  BY <1>5, MemoryTypes DEF ReadEnvelope
<1>7. PICK p \in Jobs : p = Head(inbox[h]) /\ p = inbox[h][1] /\ 1 \in 1..Len(inbox[h])
  BY <1>6, HeadTail
<1>8. ReadControl(h, p)
  BY <1>1, <1>5, <1>7 DEF ReadEnvelope, ReadData, ReadShutdown
<1>9. p = k /\ h = g
  BY <1>0, <1>8 DEF ReadControl
<1>10. LifecycleCancel(g, Job[k].target) /\ UNCHANGED active
  BY <1>8, <1>9, CancelFacts DEF ReadControl
<1>11. g <= generation
  BY <1>7, <1>9 DEF WorkersKnown, Reaches, Listed
<1>12. Barrier(g, Job[k].target)'
  <2> DEFINE t == Job[k].target
             found == {q \in active[g] : Job[q].id = t}
  <2>1. cancelled'[g] = cancelled[g] \cup found /\ active'[g] = active[g]
    BY <1>0, <1>10 DEF LifecycleCancel
  <2>2. found = {} => t \in workerTombstones'[g]
    BY <1>0, <1>10 DEF LifecycleCancel
  <2> QED
    BY <2>1, <2>2 DEF Barrier
<1> QED
  BY <1>6, <1>11, <1>12 DEF Stopped

\* A worker answers a cancellation that runs there.
LEMMA CancelMessages ==
    ASSUME TypeOK, WorkersKnown, [Next]_vars, NEW k, IsCancel(k),
           NEW g \in Generations, NEW i \in 1..Len(outbox'[g]), outbox'[g][i].job = k
    PROVE  k \in running[g] \/ \E m \in 1..Len(outbox[g]) : outbox[g][m].job = k
<1> USE DEF supervisorVars, clientVars, memoryVars, jobVars, databaseVars
<1>0. outbox \in [Generations -> Seq([job : Jobs, answer : Replies])] /\ k \in Jobs /\ ~IsData(k)
      /\ Job[k].kind # "shutdown"
  BY CancelFacts DEF TypeOK
<1>1. ASSUME outbox'[g] = outbox[g]
      PROVE  \E m \in 1..Len(outbox[g]) : outbox[g][m].job = k
  BY <1>1
<1>2. ASSUME NEW h \in Generations, NEW q \in Jobs, NEW a \in Replies, WriteReply(h, q, a),
             q # k \/ k \in running[h]
      PROVE  k \in running[g] \/ \E m \in 1..Len(outbox[g]) : outbox[g][m].job = k
  <2>1. CASE g = h
    BY <1>2, <2>1, ReplyWritten
  <2>2. CASE g # h
    BY <1>0, <1>1, <1>2, <2>2 DEF WriteReply
  <2> QED
    BY <2>1, <2>2
<1>3. ASSUME NEW h \in Generations, RouteReply(h)
      PROVE  \E m \in 1..Len(outbox[g]) : outbox[g][m].job = k
  <2> DEFINE Message == [job : Jobs, answer : Replies]
  <2>1. outbox[h] \in Seq(Message) /\ outbox[h] # <<>> /\ outbox' = [outbox EXCEPT ![h] = Tail(outbox[h])]
    BY <1>0, <1>3 DEF RouteReply
  <2>2. \A m \in 1..Len(Tail(outbox[h])) : m + 1 \in 1..Len(outbox[h])
                                           /\ Tail(outbox[h])[m] = outbox[h][m + 1]
    <3> HIDE DEF Message
    <3> QED
      BY <2>1, HeadTail
  <2> QED
    BY <1>0, <2>1, <2>2
<1>4. ASSUME NEW h \in Generations, ReaderEnds(h) \/ StreamFails(h)
      PROVE  \E m \in 1..Len(outbox[g]) : outbox[g][m].job = k
  <2>1. outbox'[g] = outbox[g] \/ outbox'[g] = <<>>
    BY <1>0, <1>4 DEF ReaderEnds, StreamFails, FailPending
  <2> QED
    BY <1>1, <2>1
<1>5. ASSUME NEW h \in Generations, ReadEnvelope(h)
      PROVE  k \in running[g] \/ \E m \in 1..Len(outbox[g]) : outbox[g][m].job = k
  <2>1. inbox[h] # <<>> /\ inbox[h] \in Seq(Jobs)
    BY <1>5, MemoryTypes DEF ReadEnvelope
  <2>2. PICK q \in Jobs : q = Head(inbox[h])
    BY <2>1, HeadTail
  <2>3. CASE ReadData(h, q)
    BY <1>0, <1>1, <1>2, <2>3, ReplyFacts DEF ReadData, Replies
  <2>4. CASE ReadShutdown(h, q)
    BY <1>0, <1>2, <2>4 DEF ReadShutdown, Replies
  <2>5. CASE ReadControl(h, q)
    BY <1>1, <2>5 DEF ReadControl
  <2> QED
    BY <1>5, <2>2, <2>3, <2>4, <2>5 DEF ReadEnvelope
<1>6. ASSUME NEW h \in Generations, NEW q \in Jobs, StartTask(h, q) \/ EndTask(h, q)
      PROVE  k \in running[g] \/ \E m \in 1..Len(outbox[g]) : outbox[g][m].job = k
  <2>1. q # k
    BY <1>0, <1>6 DEF StartTask, EndTask, WorkersKnown
  <2>2. UNCHANGED outbox \/ \E a \in Replies : WriteReply(h, q, a)
    BY <1>6, ReplyFacts DEF StartTask, EndTask, FinishTask, Replies
  <2> QED
    BY <1>1, <1>2, <2>1, <2>2
<1>7. ASSUME NEW h \in Generations, NEW q \in Jobs, EndControl(h, q)
      PROVE  k \in running[g] \/ \E m \in 1..Len(outbox[g]) : outbox[g][m].job = k
  BY <1>2, <1>7 DEF EndControl, Replies
<1>8. ASSUME NEW q \in Jobs, SupervisorStep(q) \/ Abandon(q) \/ ControlTimesOut(q) \/ DatabaseApplies(q)
      PROVE  UNCHANGED outbox
  BY <1>8 DEF SupervisorStep, Enter, Send, GiveUp, Recover, Launched, Retry, Restart, Relaunched,
              Abandon, ControlTimesOut, DatabaseApplies
<1>9. ASSUME NEW h \in Generations, WorkerDies(h)
      PROVE  UNCHANGED outbox
  BY <1>9 DEF WorkerDies
<1>10. CASE UNCHANGED vars
  BY <1>1, <1>10 DEF vars
<1> QED
  BY <1>1, <1>3, <1>4, <1>5, <1>6, <1>7, <1>8, <1>9, <1>10 DEF Next, ReaderStep, WorkerStep

\* A cancellation learns its client under the lock, together with the tombstone.
LEMMA CancelAsks ==
    ASSUME TypeOK, CallInv, WorkersKnown, [Next]_vars, NEW k, IsCancel(k), CancelAsked(k),
           client'[k] # NoClient
    PROVE  \/ /\ client'[k] = client[k]
              /\ retry'[k] # NoClient => retry'[k] = retry[k] \/ generation <= retry'[k]
           \/ client'[k] = generation /\ Job[k].target \in tombstones' /\ retry'[k] = NoClient
<1> USE DEF supervisorVars, clientVars, memoryVars, jobVars, databaseVars
<1>0. k \in Jobs
  BY CancelFacts
<1>1. ASSUME NEW S, NEW r, Return(S, r)
      PROVE  client'[k] = client[k] /\ retry'[k] = retry[k]
  BY <1>0, <1>1 DEF Return
<1>2. ASSUME NEW q \in Jobs, Enter(q)
      PROVE  \/ client'[k] = client[k] /\ retry'[k] = retry[k]
             \/ client'[k] = generation /\ Job[k].target \in tombstones' /\ retry'[k] = NoClient
  <2>1. CASE q = k
    <3>1. retry[k] = NoClient
      BY <1>0, <1>2, <2>1 DEF Enter, CallInv, JobInv, ClientKnown
    <3>2. Job[k].kind = "cancel"
      BY DEF IsCancel
    <3>3. CASE stopping
      BY <1>1, <1>2, <2>1, <3>2, <3>3 DEF Enter
    <3>4. CASE ~stopping
      <4>1. Job[k].target \in tombstones' /\ ~Barred(k)
        BY <1>2, <2>1, <3>2, <3>4, CancelFacts DEF Enter, RecordCancellation, Barred
      <4>2. client'[k] = generation /\ retry' = retry
        BY <1>0, <1>2, <2>1, <3>4, <4>1, CallTypes DEF Enter
      <4> QED
        BY <3>1, <4>1, <4>2
    <3> QED
      BY <3>3, <3>4
  <2>2. CASE q # k
    BY <1>0, <1>1, <1>2, <2>2, CallTypes DEF Enter
  <2> QED
    BY <2>1, <2>2
<1>3. ASSUME NEW q \in Jobs, Recover(q) \/ Launched(q)
      PROVE  client'[k] = client[k] /\ (retry'[k] = retry[k] \/ generation <= retry'[k])
  BY <1>0, <1>3, CallTypes DEF Recover, Launched, StartGeneration, LaunchFails
<1>4. ASSUME NEW q \in Jobs, Send(q) \/ GiveUp(q) \/ Retry(q) \/ Restart(q) \/ Relaunched(q) \/ Abandon(q)
                             \/ ControlTimesOut(q) \/ DatabaseApplies(q)
      PROVE  client'[k] = client[k] /\ retry'[k] = retry[k]
  BY <1>1, <1>4 DEF Send, GiveUp, Retry, Restart, Relaunched, Abandon, ControlTimesOut, DatabaseApplies
<1>5. ASSUME NEW g \in Generations, ReaderStep(g) \/ StreamFails(g) \/ WorkerStep(g) \/ WorkerDies(g)
      PROVE  client'[k] = client[k] /\ retry'[k] = retry[k]
  BY <1>1, <1>5 DEF ReaderStep, RouteReply, ReaderEnds, StreamFails, WorkerStep, ReadEnvelope, StartTask,
                    EndTask, EndControl, WorkerDies
<1> QED
  BY <1>2, <1>3, <1>4, <1>5 DEF Next, SupervisorStep, vars

LEMMA CancelStep == TypeOK /\ CallInv /\ CancelInv /\ [Next]_vars => CancelInv'
<1> SUFFICES ASSUME TypeOK, CallInv, CancelInv, [Next]_vars
             PROVE  CancelInv'
  OBVIOUS
<1> USE DEF supervisorVars, clientVars, memoryVars, jobVars, databaseVars
<1>1. WorkersKnown /\ WorkersKnown' /\ generation <= generation'
  BY KnownStep DEF CancelInv
<1> SUFFICES ASSUME NEW k \in Jobs, IsCancel(k)
             PROVE  WorkerStops(k)' /\ CancelAsked(k)' /\ CancelAnswered(k)'
  BY <1>1 DEF CancelInv, IsCancel
<1> DEFINE t == Job[k].target
<1>2. WorkerStops(k) /\ CancelAsked(k) /\ CancelAnswered(k)
  BY DEF CancelInv
<1>3. WorkerStops(k)'
  <2>1. ASSUME NEW g \in Generations, k \in running'[g]
        PROVE  Stopped(g, t)'
    <3>1. CASE k \in running[g]
      BY <1>1, <1>2, <3>1, StoppedStays DEF WorkerStops
    <3> QED
      BY <1>1, <2>1, <3>1, CancelRuns
  <2>2. ASSUME NEW g \in Generations, NEW i \in 1..Len(outbox'[g]), outbox'[g][i].job = k
        PROVE  Stopped(g, t)'
    <3>1. Stopped(g, t)
      BY <1>1, <1>2, <2>2, CancelMessages DEF WorkerStops
    <3> QED
      BY <1>1, <3>1, StoppedStays
  <2> QED
    BY <2>1, <2>2 DEF WorkerStops
<1>4. CancelAsked(k)'
  <2> SUFFICES ASSUME client'[k] # NoClient
               PROVE  /\ NoneLater(t, client[k])'
                      /\ retry'[k] # NoClient => client'[k] <= retry'[k]
    BY DEF CancelAsked
  <2>1. CASE /\ client'[k] = client[k]
             /\ retry'[k] # NoClient => retry'[k] = retry[k] \/ generation <= retry'[k]
    <3>1. NoneLater(t, client[k]) /\ (retry[k] # NoClient => client[k] <= retry[k])
      BY <1>2, <2>1 DEF CancelAsked
    <3>2. PICK c : c = client[k]
      OBVIOUS
    <3>3. NoneLater(t, c)'
      BY <3>1, <3>2, NoneLaterStays
    <3>4. NoneLater(t, client[k])'
      BY <2>1, <3>2, <3>3 DEF NoneLater
    <3>5. client[k] <= generation
      BY DEF CallInv, JobInv, ClientKnown
    <3>6. client[k] \in Int /\ generation \in Int /\ retry'[k] \in Int
      <4>1. TypeOK'
        BY TypeStep
      <4>2. retry'[k] \in Generations \cup {NoClient}
        BY <4>1 DEF TypeOK
      <4> QED
        BY <4>2, CallTypes, GenerationFacts DEF NoClient
    <3> QED
      BY <2>1, <3>1, <3>4, <3>5, <3>6
  <2>2. CASE client'[k] = generation /\ t \in tombstones' /\ retry'[k] = NoClient
    <3>1. ASSUME NEW q \in Jobs, NEW g \in Generations, Reaches(q, g)'
          PROVE  g <= generation
      BY <1>1, <3>1, ReachStep DEF WorkersKnown
    <3> QED
      BY <2>2, <3>1 DEF NoneLater
  <2> QED
    BY <1>1, <1>2, <2>1, <2>2, CancelAsks
<1>5. CancelAnswered(k)'
  <2> SUFFICES ASSUME reply'[k] \in {"ok", "failed"}
               PROVE  \E g \in Generations : Stopped(g, t)' /\ NoneLater(t, g)'
    BY DEF CancelAnswered
  <2>0. ASSUME NEW g \in Generations, Stopped(g, t), NoneLater(t, g)
        PROVE  \E h \in Generations : Stopped(h, t)' /\ NoneLater(t, h)'
    BY <1>1, <2>0, StoppedStays, NoneLaterStays
  <2>1. CASE reply'[k] = reply[k]
    BY <1>2, <2>0, <2>1 DEF CancelAnswered
  <2>2. CASE \E g \in Generations : RouteReply(g) /\ reply'[k] # reply[k]
    <3>1. PICK g \in Generations : RouteReply(g) /\ reply'[k] # reply[k]
      BY <2>2
    <3>2. Head(outbox[g]) = outbox[g][1] /\ 1 \in 1..Len(outbox[g])
      <4> DEFINE Message == [job : Jobs, answer : Replies]
      <4>1. outbox[g] \in Seq(Message) /\ outbox[g] # <<>>
        BY <3>1 DEF RouteReply, TypeOK
      <4> HIDE DEF Message
      <4> QED
        BY <4>1, HeadTail
    <3>3. outbox[g][1].job \in Jobs
      BY <3>2, MessageType
    <3>4. k \in pending[g] /\ Job[k].id = Job[outbox[g][1].job].id
      BY <3>1, <3>2 DEF RouteReply, Return
    <3>5. outbox[g][1].job = k
      BY <3>3, <3>4, CancelFacts
    <3>6. Stopped(g, t)
      BY <1>2, <3>2, <3>5 DEF WorkerStops
    <3>7. Using(k) = g /\ client[k] \in Generations /\ pc[k] = "waiting"
      BY <3>4 DEF CallInv, PendingWaits, JobInv, ClientKnown, InCall
    <3>8. client[k] # NoClient /\ client[k] <= g /\ client[k] \in Int /\ g \in Int
      BY <1>2, <3>7, GenerationFacts DEF CancelAsked, Using
    <3>9. NoneLater(t, g)
      BY <1>2, <3>8, GenerationFacts DEF CancelAsked, NoneLater
    <3> QED
      BY <2>0, <3>6, <3>9
  <2>3. ASSUME NEW q \in Jobs, NEW r, r \notin {"ok", "failed"}, Return({q}, r)
        PROVE  reply'[k] = reply[k]
    BY <2>3 DEF Return
  <2>4. ASSUME NEW q \in Jobs, SupervisorStep(q) \/ Abandon(q) \/ ControlTimesOut(q) \/ DatabaseApplies(q)
        PROVE  reply'[k] = reply[k]
    <3>1. UNCHANGED reply \/ \E r \in {IpcError(q), "cancelled", "error", "dropped"} : Return({q}, r)
      BY <2>4 DEF SupervisorStep, Enter, Send, GiveUp, Recover, Launched, Retry, Restart, Relaunched,
                  Abandon, ControlTimesOut, DatabaseApplies
    <3> QED
      BY <2>3, <3>1, ReplyFacts
  <2>5. ASSUME NEW g \in Generations, ReaderEnds(g) \/ StreamFails(g) \/ WorkerStep(g) \/ WorkerDies(g)
        PROVE  reply' = reply
    BY <2>5 DEF ReaderEnds, StreamFails, WorkerStep, ReadEnvelope, StartTask, EndTask, EndControl, WorkerDies
  <2>6. CASE UNCHANGED vars
    BY <2>1, <2>6 DEF vars
  <2> QED
    BY <2>1, <2>2, <2>4, <2>5, <2>6 DEF Next, ReaderStep
<1> QED
  BY <1>3, <1>4, <1>5

LEMMA CancelInvariant == Spec => []CancelInv
<1>1. Init => CancelInv
  BY GenerationFacts
     DEF Init, CancelInv, WorkersKnown, Reaches, Listed, WorkerStops, CancelAsked, CancelAnswered
<1> QED
  BY <1>1, CancelStep, TypeCorrect, CallInvariant, PTL DEF Spec

\* Once a worker has answered the cancellation of a request, neither it nor a later worker
\* begins to execute the request, whether it was about to be sent, in the worker's input,
\* waiting for its task or to be repeated on a new worker (CancellationTombstones,
\* RequestLifecycle::begin and ::cancel).
THEOREM CancelStops == Spec => CancelStopsTheRequest
<1>1. TypeOK /\ CancelInv /\ [Next]_vars =>
        [\A k, q \in Jobs :
           /\ Job[k].kind = "cancel" /\ reply[k] \in {"ok", "failed"}
           /\ IsData(q) /\ Job[q].id = Job[k].target
           => \A g \in generation..MaxGeneration : q \notin running'[g] \ running[g]]_vars
  <2> SUFFICES ASSUME TypeOK, CancelInv, [Next]_vars,
                      NEW k \in Jobs, NEW q \in Jobs,
                      Job[k].kind = "cancel", reply[k] \in {"ok", "failed"},
                      IsData(q), Job[q].id = Job[k].target,
                      NEW g \in generation..MaxGeneration, q \in running'[g], q \notin running[g]
               PROVE  FALSE
    OBVIOUS
  <2> USE DEF supervisorVars, clientVars, memoryVars, jobVars, databaseVars
  <2>0. g \in Generations /\ generation \in Nat /\ running \in [Generations -> SUBSET Jobs]
    BY MemoryTypes, WorkerIpcAssumption DEF Generations
  <2>1. PICK h \in Generations : Stopped(h, Job[k].target) /\ NoneLater(Job[k].target, h)
    BY DEF CancelInv, CancelAnswered, IsCancel
  <2>2. q \in active[g] => g = h /\ (q \in running[g] \/ q \in cancelled[g])
    <3>1. q \in active[g] => g <= h
      BY <2>0, <2>1 DEF NoneLater, Reaches
    <3>2. q \in active[g] => g = h
      BY <2>0, <2>1, <3>1, GenerationFacts DEF Stopped
    <3>3. process[h] = "dead" => active[h] = {}
      BY DEF CancelInv, WorkersKnown
    <3>4. Barrier(h, Job[k].target) /\ q \in active[h] => q \in running[h] \/ q \in cancelled[h]
      BY DEF Barrier
    <3> QED
      BY <2>1, <3>2, <3>3, <3>4 DEF Stopped
  <2>3. \A d \in Generations : ~ProcessEnds(d)
    BY <2>0 DEF ProcessEnds
  <2>4. \A d \in Generations, p \in Jobs : ~StartTask(d, p) /\ ~EndTask(d, p) /\ ~EndControl(d, p)
    <3> SUFFICES ASSUME NEW d \in Generations, NEW p \in Jobs, StartTask(d, p) \/ EndTask(d, p) \/ EndControl(d, p)
                 PROVE  FALSE
      OBVIOUS
    <3>1. CASE running' = [running EXCEPT ![d] = @ \ {p}]
      BY <2>0, <3>1
    <3>2. CASE running' = [running EXCEPT ![d] = @ \cup {p}] /\ p \in active[d] /\ p \notin cancelled[d]
      BY <2>0, <2>2, <3>2
    <3> QED
      BY <3>1, <3>2 DEF StartTask, EndTask, EndControl, FinishTask
  <2>5. \A p \in Jobs : ~SupervisorStep(p) /\ ~Abandon(p) /\ ~ControlTimesOut(p) /\ ~DatabaseApplies(p)
    BY <2>3, CallTypes DEF SupervisorStep, Enter, Send, GiveUp, Recover, Launched, Retry, Restart, Relaunched,
                           Abandon, ControlTimesOut, DatabaseApplies
  <2>6. \A d \in Generations : ~ReaderStep(d) /\ ~StreamFails(d) /\ ~WorkerDies(d)
    BY <2>3 DEF ReaderStep, RouteReply, ReaderEnds, StreamFails, WorkerDies
  <2>7. ASSUME NEW d \in Generations, ReadEnvelope(d)
        PROVE  FALSE
    <3>1. PICK p : ReadControl(d, p) \/ ReadData(d, p) \/ ReadShutdown(d, p)
      BY <2>7 DEF ReadEnvelope
    <3>2. ReadControl(d, p)
      BY <2>3, <3>1 DEF ReadData, ReadShutdown
    <3>3. p = q
      BY <2>0, <3>2 DEF ReadControl
    <3> QED
      BY <3>2, <3>3 DEF ReadControl, IsControl, IsData, ControlKinds, DataKinds
  <2> QED
    BY <2>4, <2>5, <2>6, <2>7 DEF Next, WorkerStep, vars
<1> QED
  BY <1>1, TypeCorrect, CancelInvariant, PTL DEF Spec, CancelStopsTheRequest
=============================================================================
