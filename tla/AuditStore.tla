----------------------------- MODULE AuditStore -----------------------------
(***************************************************************************)
(* The tables of audit.sqlite that survive a crash and that every MCP      *)
(* process of one data directory shares (connector-store/src/audit.rs):    *)
(*   idem     idempotency_records, keyed by connection and key             *)
(*   nonces   authorization_grant_nonces, one row per consumed grant       *)
(*   audited  the requests that have a row in audit_events                 *)
(* Every operation is one SQLite transaction, hence one atomic step.  A    *)
(* store operation may fail without effect (disk full, busy timeout); the  *)
(* caller decides what that means.  `faults' counts the failures so far.   *)
(***************************************************************************)
EXTENDS Integers

CONSTANTS
    Connections,    \* stored connections
    Keys,           \* idempotency keys
    Ops,            \* canonical operation hashes
    NoOp,           \* the hash of a row that does not exist
    MaxFaults       \* bound: store operations that fail

ASSUME StoreAssumption == NoOp \notin Ops /\ MaxFaults \in Nat

VARIABLES idem, nonces, audited, faults

storeVars == <<idem, nonces, audited, faults>>

Slots == Connections \X Keys

IdempotencyState == {"absent", "in_flight", "succeeded", "unknown"}

Absent == [state |-> "absent", op |-> NoOp]

StoreInit ==
    /\ idem = [s \in Slots |-> Absent]
    /\ nonces = {}
    /\ audited = {}
    /\ faults = 0

\* A store operation fails and changes nothing.
StoreFails ==
    /\ faults < MaxFaults
    /\ faults' = faults + 1

StoreWorks == UNCHANGED faults

(***************************************************************************)
(* consume_grant_nonce: drop expired rows, then insert the grant's row     *)
(* unless the grant has expired or is already there.                       *)
(***************************************************************************)
LiveNonces(now) == {row \in nonces : row.expires > now}

\* Mutant: expiry is not looked at again when the nonce is consumed.
GrantNonceConsumptionNoExpiry(grant, expires, now) ==
    IF \E row \in LiveNonces(now) : row.grant = grant THEN "Replayed"
    ELSE "Consumed"

GrantNonceConsumption(grant, expires, now) ==
    IF expires <= now THEN "Expired"
    ELSE IF \E row \in LiveNonces(now) : row.grant = grant THEN "Replayed"
    ELSE "Consumed"

ConsumeGrantNonce(grant, expires, now) ==
    nonces' = LiveNonces(now) \cup
              (IF GrantNonceConsumption(grant, expires, now) = "Consumed"
               THEN {[grant |-> grant, expires |-> expires]}
               ELSE {})

(***************************************************************************)
(* reserve_idempotency: insert an in-flight row if there is none; else     *)
(* report the state of the row, or a conflict if it is for another write.  *)
(***************************************************************************)
\* Mutant: a row whose outcome is unknown is taken over by the next attempt.
IdempotencyReservationRetriesUnknown(slot, op) ==
    IF idem[slot].state \in {"absent", "unknown"} THEN "Reserved"
    ELSE IF idem[slot].op = op THEN idem[slot].state
    ELSE "KeyConflict"

IdempotencyReservation(slot, op) ==
    IF idem[slot].state = "absent" THEN "Reserved"
    ELSE IF idem[slot].op = op THEN idem[slot].state
    ELSE "KeyConflict"

ReserveIdempotencyRow(slot, op) ==
    idem' = IF IdempotencyReservation(slot, op) = "Reserved"
            THEN [idem EXCEPT ![slot] = [state |-> "in_flight", op |-> op]]
            ELSE idem

(***************************************************************************)
(* update_idempotency_state and release_idempotency: only the in-flight    *)
(* row of the same operation changes.                                      *)
(***************************************************************************)
InFlightRow(slot, op) == idem[slot] = [state |-> "in_flight", op |-> op]

UpdateIdempotencyState(slot, op, state) ==
    idem' = IF InFlightRow(slot, op)
            THEN [idem EXCEPT ![slot].state = state]
            ELSE idem

\* Mutant: the row of a failed write is marked instead of deleted.
ReleaseIdempotencyMarks(slot, op) ==
    idem' = IF InFlightRow(slot, op)
            THEN [idem EXCEPT ![slot].state = "failed"]
            ELSE idem

ReleaseIdempotency(slot, op) ==
    idem' = IF InFlightRow(slot, op)
            THEN [idem EXCEPT ![slot] = Absent]
            ELSE idem

(***************************************************************************)
(* append: the audit event of a request.  A failure is logged and ignored. *)
(***************************************************************************)
RecordAudit(request) ==
    \/ audited' = audited \cup {request} /\ StoreWorks
    \/ UNCHANGED audited /\ StoreFails
=============================================================================
