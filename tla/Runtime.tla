------------------------------ MODULE Runtime -------------------------------
(***************************************************************************)
(* The life of a tool call in connector-runtime/src/runtime.rs, for        *)
(* several MCP processes ("instances") that share profiles.sqlite,         *)
(* audit.sqlite and the databases behind the connectors.                   *)
(*                                                                         *)
(* A call runs on a thread pool: between two steps of one call any other   *)
(* call, a cancellation, the change monitor of main.rs, the trusted        *)
(* control plane or a crash may step.  A step below is a stretch of code   *)
(* between two points where others can observe it: a mutex, a store        *)
(* transaction, an await.                                                  *)
(***************************************************************************)
EXTENDS AuditStore, FiniteSets

CONSTANTS
    Instances,        \* MCP processes, each with one client session
    RequestIds,       \* request ids chosen by the clients
    Grants, Claims,   \* authorization grants the desktop may issue
    Calls, Request,   \* the tool calls the clients may make; a retry is another call
    NoKey, NoGrant, NoCall,
    GlobalLimit,      \* RequestConcurrencyLimits.global
    ConnectionLimit,  \* RequestConcurrencyLimits.per_connection
    GrantLifetime,    \* the lifetime the desktop asks for
    MaxTime, MaxRevision, MaxCrashes  \* bounds of the model

Kinds == {"metadata", "read", "write"}

\* AuthorizationClaims: a grant is for one session, connection and arguments.
ClaimsType == [inst : Instances, conn : Connections, op : Ops, key : Keys \cup {NoKey}]

\* A tool call: the session it comes from, the id it chose, what it asks for.
RequestType == [inst : Instances, id : RequestIds, conn : Connections, kind : Kinds,
                op : Ops, key : Keys \cup {NoKey}, grant : Grants \cup {NoGrant}]

ASSUME RuntimeAssumption ==
    /\ Claims \in [Grants -> ClaimsType]
    /\ Request \in [Calls -> RequestType]
    /\ \A c \in Calls : Request[c].kind # "write" =>
          Request[c].key = NoKey /\ Request[c].grant = NoGrant
    /\ NoKey \notin Keys /\ NoGrant \notin Grants /\ NoCall \notin Calls
    /\ GlobalLimit \in Nat \ {0} /\ ConnectionLimit \in Nat \ {0}
    /\ GrantLifetime \in Nat \ {0}
    /\ MaxTime \in Nat /\ MaxRevision \in Nat /\ MaxCrashes \in Nat

Inst(c)  == Request[c].inst
Id(c)    == Request[c].id
Conn(c)  == Request[c].conn
Op(c)    == Request[c].op
Key(c)   == Request[c].key
Grant(c) == Request[c].grant

VARIABLES
    \* profiles.sqlite and the trusted control plane
    profile, revision, issued, grantVersion, grantExpires, now,
    \* one MCP process: Runtime and monitor_connection_changes
    up, requests, globalHolders, connHolders,
    seen, monTarget, monTodo, monVictims, crashes,
    \* one call
    pc, ctl, snap, snapRev, callVictims, outcome, reply,
    \* the databases; `spent' and `dispatched' are histories
    wire, applied, spent, dispatched

profileVars  == <<profile, revision, issued, grantVersion, grantExpires>>
processVars  == <<up, seen, monTarget, crashes>>
monitorVars  == <<monTodo, monVictims>>
mapVars      == <<requests, globalHolders, connHolders>>
guardVars    == <<mapVars, ctl>>
callVars     == <<snap, snapRev, callVictims, outcome>>
databaseVars == <<wire, applied, dispatched>>

vars == <<profileVars, now, processVars, monitorVars, guardVars, callVars,
          pc, reply, databaseVars, spent, storeVars>>

Profiles == [exists : BOOLEAN, enabled : BOOLEAN, version : Nat]

NoProfile == [exists |-> FALSE, enabled |-> FALSE, version |-> 0]

\* Stations of a call, in order.  "lost": its process is gone.
Stations == {"idle", "inserted", "admitted", "reserved", "invalidating", "loaded",
             "authorized", "active", "granted", "ready", "running", "settled",
             "concluding", "done", "lost"}

RequestState == {"Pending", "Active", "CancelRequested"}

\* ConnectorRun and the connector's answer, as the idempotency row needs it.
Outcomes == {"none", "ok", "unknown", "failed", "timeout", "cancelled"}

Replies == {"none", "ok", "result_too_large", "unknown_outcome", "cancelled",
            "timeout", "connector_error", "invalid_request", "rate_limited",
            "not_found", "permission_denied", "conflict", "internal"}

IsWrite(c) == Request[c].kind = "write"

Slot(c) == <<Conn(c), Key(c)>>

Ended(c) == pc[c] \in {"done", "lost"}

-----------------------------------------------------------------------------
(***************************************************************************)
(* Initially every connection is stored, enabled, at policy version 1.     *)
(***************************************************************************)
Init ==
    /\ StoreInit
    /\ profile = [n \in Connections |-> [exists |-> TRUE, enabled |-> TRUE, version |-> 1]]
    /\ revision = [n \in Connections |-> 1]
    /\ issued = {}
    /\ grantVersion = [g \in Grants |-> 0]
    /\ grantExpires = [g \in Grants |-> 0]
    /\ now = 0
    /\ up = [i \in Instances |-> TRUE]
    /\ requests = [i \in Instances |-> [r \in RequestIds |-> NoCall]]
    /\ globalHolders = {}
    /\ connHolders = {}
    /\ seen = [i \in Instances |-> revision]
    /\ monTarget = seen
    /\ monTodo = [i \in Instances |-> {}]
    /\ monVictims = [i \in Instances |-> {}]
    /\ crashes = 0
    /\ pc = [c \in Calls |-> "idle"]
    /\ ctl = [c \in Calls |-> "Pending"]
    /\ snap = [c \in Calls |-> NoProfile]
    /\ snapRev = [c \in Calls |-> 0]
    /\ callVictims = [c \in Calls |-> {}]
    /\ outcome = [c \in Calls |-> "none"]
    /\ reply = [c \in Calls |-> "none"]
    /\ wire = {}
    /\ applied = {}
    /\ spent = {}
    /\ dispatched = {}

-----------------------------------------------------------------------------
(***************************************************************************)
(* Building blocks                                                         *)
(***************************************************************************)
Goto(c, station) == pc' = [pc EXCEPT ![c] = station]

\* release_request, and the first half of RequestGuard's drop.
ReleaseRequest(c) == requests' = [requests EXCEPT ![Inst(c)][Id(c)] = NoCall]

\* The call returns `r': its guard is dropped, which removes the map entry, drops
\* the control and returns both permits.
Return(c, r) ==
    /\ Goto(c, "done")
    /\ reply' = [reply EXCEPT ![c] = r]
    /\ ReleaseRequest(c)
    /\ ctl' = [ctl EXCEPT ![c] = "Pending"]
    /\ globalHolders' = globalHolders \ {c}
    /\ connHolders' = connHolders \ {c}

\* The calls that invalidate_connection finds in the request map.
ActiveOn(i, n) ==
    {c \in Calls : Inst(c) = i /\ Conn(c) = n /\ requests[i][Id(c)] = c}

\* request_cancel: the state and the cancellation token change together.  (A call
\* that has settled does not look at them again; they are then left alone.)
RequestCancel(c) ==
    ctl' = IF pc[c] \in {"settled", "concluding", "done", "lost"}
           THEN ctl
           ELSE [ctl EXCEPT ![c] = "CancelRequested"]

IsCancelled(c) == ctl[c] = "CancelRequested"

GlobalInUse(i) == {c \in globalHolders : Inst(c) = i}

ConnectionInUse(i, n) == {c \in connHolders : Inst(c) = i /\ Conn(c) = n}

-----------------------------------------------------------------------------
(***************************************************************************)
(* reserve_request: enter the request map, then take the two permits.      *)
(***************************************************************************)
\* Mutant: a second call with the id of a call that runs takes its place in the map.
InsertRequestReplaces(c) ==
    /\ pc[c] = "idle" /\ up[Inst(c)]
    /\ requests' = [requests EXCEPT ![Inst(c)][Id(c)] = c]
    /\ Goto(c, "inserted")
    /\ UNCHANGED <<profileVars, now, processVars, monitorVars, ctl, globalHolders, connHolders,
                   reply, callVars, databaseVars, spent, storeVars>>

\* The id must not be in the map; otherwise the call is refused at once.
InsertRequest(c) ==
    /\ pc[c] = "idle" /\ up[Inst(c)]
    /\ \/ /\ requests[Inst(c)][Id(c)] = NoCall
          /\ requests' = [requests EXCEPT ![Inst(c)][Id(c)] = c]
          /\ Goto(c, "inserted")
          /\ UNCHANGED reply
       \/ /\ requests[Inst(c)][Id(c)] # NoCall
          /\ Goto(c, "done")
          /\ reply' = [reply EXCEPT ![c] = "invalid_request"]
          /\ UNCHANGED requests
    /\ UNCHANGED <<profileVars, now, processVars, monitorVars, ctl, globalHolders, connHolders,
                   callVars, databaseVars, spent, storeVars>>

AcquireGlobal(c) ==
    /\ pc[c] = "inserted"
    /\ \/ /\ Cardinality(GlobalInUse(Inst(c))) < GlobalLimit
          /\ globalHolders' = globalHolders \cup {c}
          /\ Goto(c, "admitted")
          /\ UNCHANGED <<requests, ctl, connHolders, reply>>
       \/ /\ Cardinality(GlobalInUse(Inst(c))) >= GlobalLimit
          /\ Return(c, "rate_limited")
    /\ UNCHANGED <<profileVars, now, processVars, monitorVars,
                   callVars, databaseVars, spent, storeVars>>

\* Mutant: a call refused by the connection's limit keeps its global permit.
AcquireConnectionKeepsGlobal(c) ==
    /\ pc[c] = "admitted"
    /\ \/ /\ Cardinality(ConnectionInUse(Inst(c), Conn(c))) < ConnectionLimit
          /\ connHolders' = connHolders \cup {c}
          /\ Goto(c, "reserved")
          /\ UNCHANGED <<requests, globalHolders, reply>>
       \/ /\ Cardinality(ConnectionInUse(Inst(c), Conn(c))) >= ConnectionLimit
          /\ Goto(c, "done")
          /\ reply' = [reply EXCEPT ![c] = "rate_limited"]
          /\ ReleaseRequest(c)
          /\ UNCHANGED <<globalHolders, connHolders>>
    /\ UNCHANGED <<profileVars, now, processVars, monitorVars, ctl,
                   callVars, databaseVars, spent, storeVars>>

\* The connection's semaphore is created on demand and shared through a weak
\* pointer, so its free permits are the limit minus the permits outstanding.
AcquireConnection(c) ==
    /\ pc[c] = "admitted"
    /\ \/ /\ Cardinality(ConnectionInUse(Inst(c), Conn(c))) < ConnectionLimit
          /\ connHolders' = connHolders \cup {c}
          /\ Goto(c, "reserved")
          /\ UNCHANGED <<requests, ctl, globalHolders, reply>>
       \/ /\ Cardinality(ConnectionInUse(Inst(c), Conn(c))) >= ConnectionLimit
          /\ Return(c, "rate_limited")
    /\ UNCHANGED <<profileVars, now, processVars, monitorVars,
                   callVars, databaseVars, spent, storeVars>>

-----------------------------------------------------------------------------
(***************************************************************************)
(* load_profile: read the stored profile.  If the connection is disabled   *)
(* or gone, invalidate it first: this cancels every call on it, the        *)
(* loading call included.                                                  *)
(***************************************************************************)
LoadProfile(c) ==
    /\ pc[c] = "reserved"
    /\ \/ /\ snap' = [snap EXCEPT ![c] = profile[Conn(c)]]
          /\ snapRev' = [snapRev EXCEPT ![c] = revision[Conn(c)]]
          /\ IF profile[Conn(c)].exists /\ profile[Conn(c)].enabled
             THEN Goto(c, "loaded") /\ UNCHANGED callVictims
             ELSE /\ Goto(c, "invalidating")
                  /\ callVictims' = [callVictims EXCEPT ![c] = ActiveOn(Inst(c), Conn(c))]
          /\ UNCHANGED <<guardVars, reply, faults>>
       \/ /\ StoreFails
          /\ Return(c, "internal")
          /\ UNCHANGED <<snap, snapRev, callVictims>>
    /\ UNCHANGED <<profileVars, now, processVars, monitorVars, outcome,
                   databaseVars, spent, idem, nonces, audited>>

CancelVictim(c) ==
    /\ pc[c] = "invalidating"
    /\ \E d \in callVictims[c] :
          /\ RequestCancel(d)
          /\ callVictims' = [callVictims EXCEPT ![c] = @ \ {d}]
    /\ UNCHANGED <<profileVars, now, processVars, monitorVars, mapVars, snap, snapRev,
                   outcome, pc, reply, databaseVars, spent, storeVars>>

FinishInvalidation(c) ==
    /\ pc[c] = "invalidating"
    /\ callVictims[c] = {}
    /\ IF snap[c].exists
       THEN Goto(c, "loaded") /\ UNCHANGED <<guardVars, reply>>
       ELSE Return(c, "not_found")
    /\ UNCHANGED <<profileVars, now, processVars, monitorVars, callVars,
                   databaseVars, spent, storeVars>>

-----------------------------------------------------------------------------
(***************************************************************************)
(* The policy decision, on the profile the call has loaded.                *)
(***************************************************************************)
\* GrantVerifier::verify.
GrantVerifies(c) ==
    LET g == Grant(c) IN
    /\ g \in issued
    /\ grantExpires[g] > now
    /\ grantExpires[g] <= now + GrantLifetime
    /\ Claims[g] = [inst |-> Inst(c), conn |-> Conn(c), op |-> Op(c), key |-> Key(c)]
    /\ grantVersion[g] = snap[c].version

\* registry.resolve, which may find no connector for the product and is then not
\* audited; tool route, policy, grant and masked cursor, whose refusals are.  The
\* rules of the policy itself may refuse any call.
Authorize(c) ==
    /\ pc[c] = "loaded"
    /\ \/ /\ snap[c].enabled
          /\ IsWrite(c) => Grant(c) # NoGrant /\ GrantVerifies(c)
          /\ Goto(c, "authorized")
          /\ UNCHANGED <<guardVars, reply, audited, faults>>
       \/ Return(c, "permission_denied") /\ RecordAudit(c)
       \/ Return(c, "internal") /\ UNCHANGED <<audited, faults>>
    /\ UNCHANGED <<profileVars, now, processVars, monitorVars, callVars,
                   databaseVars, spent, idem, nonces>>

\* Mutant: a cancellation that came before the call was active is forgotten.
ActivateRequestAlways(c) ==
    /\ pc[c] = "authorized"
    /\ ctl' = [ctl EXCEPT ![c] = "Active"]
    /\ Goto(c, IF IsWrite(c) THEN "active" ELSE "ready")
    /\ UNCHANGED <<profileVars, now, processVars, monitorVars, mapVars, reply, callVars,
                   databaseVars, spent, storeVars>>

\* credentials.get, then activate_request.  Neither failure is audited.
ActivateRequest(c) ==
    /\ pc[c] = "authorized"
    /\ \/ /\ ctl[c] = "Pending"
          /\ ctl' = [ctl EXCEPT ![c] = "Active"]
          /\ Goto(c, IF IsWrite(c) THEN "active" ELSE "ready")
          /\ UNCHANGED <<mapVars, reply, faults>>
       \/ /\ IsCancelled(c)
          /\ Return(c, "cancelled")
          /\ UNCHANGED faults
       \/ /\ StoreFails
          /\ Return(c, "internal")
    /\ UNCHANGED <<profileVars, now, processVars, monitorVars, callVars, databaseVars, spent, idem, nonces, audited>>

\* The check of the token, then consume_grant_nonce.
ConsumeGrant(c) ==
    /\ pc[c] = "active"
    /\ \/ /\ IsCancelled(c)
          /\ Return(c, "cancelled") /\ RecordAudit(c)
          /\ UNCHANGED <<nonces, spent>>
       \/ /\ ~IsCancelled(c)
          /\ ConsumeGrantNonce(Grant(c), grantExpires[Grant(c)], now)
          /\ IF GrantNonceConsumption(Grant(c), grantExpires[Grant(c)], now) = "Consumed"
             THEN /\ Goto(c, IF Key(c) = NoKey THEN "ready" ELSE "granted")
                  /\ spent' = spent \cup {c}
                  /\ UNCHANGED <<guardVars, reply, audited, faults>>
             ELSE /\ Return(c, "permission_denied") /\ RecordAudit(c)
                  /\ UNCHANGED spent
       \/ /\ ~IsCancelled(c) /\ StoreFails
          /\ Return(c, "internal") /\ audited' \in {audited, audited \cup {c}}
          /\ UNCHANGED <<nonces, spent>>
    /\ UNCHANGED <<profileVars, now, processVars, monitorVars, callVars,
                   databaseVars, idem>>

\* reserve_idempotency and idempotency_reservation_error.  A store failure is
\* returned without an audit event.
ReserveIdempotency(c) ==
    /\ pc[c] = "granted"
    /\ \/ LET reservation == IdempotencyReservation(Slot(c), Op(c)) IN
          /\ ReserveIdempotencyRow(Slot(c), Op(c))
          /\ IF reservation = "Reserved"
             THEN Goto(c, "ready") /\ UNCHANGED <<guardVars, reply, audited, faults>>
             ELSE /\ Return(c, IF reservation \in {"in_flight", "unknown"}
                               THEN "unknown_outcome" ELSE "conflict")
                  /\ RecordAudit(c)
       \/ /\ StoreFails
          /\ Return(c, "internal")
          /\ UNCHANGED <<idem, audited>>
    /\ UNCHANGED <<profileVars, now, processVars, monitorVars, callVars,
                   databaseVars, spent, nonces>>

-----------------------------------------------------------------------------
(***************************************************************************)
(* run_connector_future                                                    *)
(***************************************************************************)
Settle(c, o) ==
    /\ outcome' = [outcome EXCEPT ![c] = o]
    /\ Goto(c, "settled")

\* The connector future is polled for the first time, unless the call has been
\* cancelled by now.
Dispatch(c) ==
    /\ pc[c] = "ready"
    /\ \/ /\ ~IsCancelled(c)
          /\ Goto(c, "running")
          /\ dispatched' = dispatched \cup {c}
          /\ wire' = IF IsWrite(c) THEN wire \cup {c} ELSE wire
          /\ UNCHANGED outcome
       \/ /\ IsCancelled(c)
          /\ Settle(c, "cancelled")
          /\ UNCHANGED <<dispatched, wire>>
    /\ UNCHANGED <<profileVars, now, processVars, monitorVars, guardVars, snap, snapRev,
                   callVictims, reply, applied, spent, storeVars>>

\* The select is biased to the token: the connector's answer counts only if the
\* call has not been cancelled.  A connector that reports a definite failure of
\* a write has not applied it and will not.
ConnectorCompletes(c) ==
    /\ pc[c] = "running" /\ ~IsCancelled(c)
    /\ \/ /\ IsWrite(c) => c \in applied
          /\ Settle(c, "ok")
          /\ wire' = wire \ {c}
       \/ /\ c \notin applied
          /\ Settle(c, "failed")
          /\ wire' = wire \ {c}
       \/ /\ IsWrite(c)
          /\ Settle(c, "unknown")
          /\ UNCHANGED wire
    /\ UNCHANGED <<profileVars, now, processVars, monitorVars, guardVars, snap, snapRev,
                   callVictims, reply, applied, dispatched, spent, storeVars>>

\* Mutant: a write that timed out is reported like a read.
ConnectorStopsNoUnknown(c) ==
    /\ pc[c] = "running"
    /\ \/ Settle(c, "timeout")
       \/ IsCancelled(c) /\ Settle(c, IF IsWrite(c) THEN "unknown" ELSE "cancelled")
    /\ UNCHANGED <<profileVars, now, processVars, monitorVars, guardVars, snap, snapRev,
                   callVictims, reply, databaseVars, spent, storeVars>>

\* Mutant: nothing limits the time the runtime waits for a connector.
ConnectorStopsNoTimeout(c) ==
    /\ pc[c] = "running"
    /\ IsCancelled(c) /\ Settle(c, IF IsWrite(c) THEN "unknown" ELSE "cancelled")
    /\ UNCHANGED <<profileVars, now, processVars, monitorVars, guardVars, snap, snapRev,
                   callVictims, reply, databaseVars, spent, storeVars>>

\* The timeout fires (the connector is then told to cancel, for at most a
\* second), or the token is seen: nobody waits for the database any longer.
ConnectorStops(c) ==
    /\ pc[c] = "running"
    /\ \/ Settle(c, IF IsWrite(c) THEN "unknown" ELSE "timeout")
       \/ IsCancelled(c) /\ Settle(c, IF IsWrite(c) THEN "unknown" ELSE "cancelled")
    /\ UNCHANGED <<profileVars, now, processVars, monitorVars, guardVars, snap, snapRev,
                   callVictims, reply, databaseVars, spent, storeVars>>

\* Mutant: a write of unknown outcome is recorded as a success.
FinishIdempotencyOptimistic(c) ==
    /\ pc[c] = "settled"
    /\ IF Key(c) = NoKey THEN UNCHANGED idem ELSE
       IF outcome[c] \in {"ok", "unknown"}
       THEN UpdateIdempotencyState(Slot(c), Op(c), "succeeded")
       ELSE ReleaseIdempotency(Slot(c), Op(c))
    /\ Goto(c, "concluding")
    /\ UNCHANGED <<profileVars, now, processVars, monitorVars, guardVars, callVars, reply,
                   databaseVars, spent, nonces, audited, faults>>

\* finish_idempotency: a store failure is logged and leaves the row in flight.
FinishIdempotency(c) ==
    /\ pc[c] = "settled"
    /\ \/ /\ IF Key(c) = NoKey THEN UNCHANGED idem ELSE
             CASE outcome[c] = "ok"      -> UpdateIdempotencyState(Slot(c), Op(c), "succeeded")
               [] outcome[c] = "unknown" -> UpdateIdempotencyState(Slot(c), Op(c), "unknown")
               [] OTHER                  -> ReleaseIdempotency(Slot(c), Op(c))
          /\ StoreWorks
       \/ Key(c) # NoKey /\ UNCHANGED idem /\ StoreFails
    /\ Goto(c, "concluding")
    /\ UNCHANGED <<profileVars, now, processVars, monitorVars, guardVars, callVars, reply,
                   databaseVars, spent, nonces, audited>>

\* Mutant: a write whose outcome is unknown is reported as timed out.
ReplyForTimeout(o) ==
    CASE o = "ok"        -> "ok"
      [] o = "failed"    -> "connector_error"
      [] o = "cancelled" -> "cancelled"
      [] OTHER           -> "timeout"

\* The category of the reply.
ReplyFor(o) ==
    CASE o = "ok"        -> "ok"
      [] o = "unknown"   -> "unknown_outcome"
      [] o = "failed"    -> "connector_error"
      [] o = "timeout"   -> "timeout"
      [] OTHER           -> "cancelled"

\* Mutant: a cancelled call returns without an audit event.
ConcludeQuietly(c) ==
    /\ pc[c] = "concluding"
    /\ Return(c, ReplyFor(outcome[c]))
    /\ IF outcome[c] = "cancelled" THEN UNCHANGED <<audited, faults>> ELSE RecordAudit(c)
    /\ UNCHANGED <<profileVars, now, processVars, monitorVars, callVars,
                   databaseVars, spent, idem, nonces>>

\* enforce_result_limits_and_masking may reject a successful result, and then
\* returns without an audit event; every other end is audited.
Conclude(c) ==
    /\ pc[c] = "concluding"
    /\ \/ Return(c, ReplyFor(outcome[c])) /\ RecordAudit(c)
       \/ /\ Request[c].kind # "metadata" /\ outcome[c] = "ok"
          /\ Return(c, "result_too_large")
          /\ UNCHANGED <<audited, faults>>
    /\ UNCHANGED <<profileVars, now, processVars, monitorVars, callVars,
                   databaseVars, spent, idem, nonces>>

-----------------------------------------------------------------------------
(***************************************************************************)
(* Runtime::cancel, from the session of the instance: it finds the call    *)
(* that holds the id now, whoever asked to cancel it.                      *)
(***************************************************************************)
Cancel(i, n, r) ==
    /\ up[i]
    /\ LET c == requests[i][r] IN
          /\ c # NoCall
          /\ Conn(c) = n
          /\ RequestCancel(c)
    /\ UNCHANGED <<profileVars, now, processVars, monitorVars, mapVars, callVars, pc, reply, databaseVars, spent, storeVars>>

(***************************************************************************)
(* monitor_connection_changes: compare the revisions, invalidate every     *)
(* connection that changed, and only then remember the new revisions.      *)
(***************************************************************************)
MonitorIdle(i) == monTarget[i] = seen[i]

\* Mutant: the new revisions are remembered before the invalidations are done.
MonitorPollRemembersFirst(i) ==
    /\ up[i] /\ MonitorIdle(i)
    /\ revision # seen[i]
    /\ monTarget' = [monTarget EXCEPT ![i] = revision]
    /\ seen' = [seen EXCEPT ![i] = revision]
    /\ monTodo' = [monTodo EXCEPT ![i] = {n \in Connections : revision[n] # seen[i][n]}]
    /\ UNCHANGED <<profileVars, now, up, crashes, monVictims, guardVars, callVars, pc,
                   reply, databaseVars, spent, storeVars>>

MonitorPoll(i) ==
    /\ up[i] /\ MonitorIdle(i)
    /\ revision # seen[i]
    /\ monTarget' = [monTarget EXCEPT ![i] = revision]
    /\ monTodo' = [monTodo EXCEPT ![i] = {n \in Connections : revision[n] # seen[i][n]}]
    /\ UNCHANGED <<profileVars, now, up, seen, crashes, monVictims, guardVars, callVars, pc,
                   reply, databaseVars, spent, storeVars>>

\* invalidate_connection, up to the snapshot of the request map.
MonitorInvalidate(i, n) ==
    /\ up[i] /\ n \in monTodo[i]
    /\ monTodo' = [monTodo EXCEPT ![i] = @ \ {n}]
    /\ monVictims' = [monVictims EXCEPT ![i] = @ \cup ActiveOn(i, n)]
    /\ UNCHANGED <<profileVars, now, processVars, guardVars, callVars, pc, reply,
                   databaseVars, spent, storeVars>>

MonitorCancel(i) ==
    /\ up[i]
    /\ \E d \in monVictims[i] :
          /\ RequestCancel(d)
          /\ monVictims' = [monVictims EXCEPT ![i] = @ \ {d}]
    /\ UNCHANGED <<profileVars, now, processVars, monTodo, mapVars, callVars, pc, reply, databaseVars, spent, storeVars>>

\* Mutant: the revisions acted on are not remembered.
MonitorDoneForgets(i) ==
    /\ up[i] /\ ~MonitorIdle(i)
    /\ monTodo[i] = {} /\ monVictims[i] = {}
    /\ monTarget' = [monTarget EXCEPT ![i] = seen[i]]
    /\ UNCHANGED <<profileVars, now, up, seen, crashes, monitorVars, guardVars, callVars,
                   pc, reply, databaseVars, spent, storeVars>>

MonitorDone(i) ==
    /\ up[i] /\ ~MonitorIdle(i)
    /\ monTodo[i] = {} /\ monVictims[i] = {}
    /\ seen' = [seen EXCEPT ![i] = monTarget[i]]
    /\ UNCHANGED <<profileVars, now, up, monTarget, crashes, monitorVars, guardVars, callVars,
                   pc, reply, databaseVars, spent, storeVars>>

-----------------------------------------------------------------------------
(***************************************************************************)
(* The process of an instance ends: the client closes it, or it crashes.   *)
(* What it sent to a database may still take effect.  A new process starts *)
(* from the revisions it reads first.                                      *)
(***************************************************************************)
Crash(i) ==
    /\ up[i] /\ crashes < MaxCrashes
    /\ crashes' = crashes + 1
    /\ up' = [up EXCEPT ![i] = FALSE]
    /\ requests' = [requests EXCEPT ![i] = [r \in RequestIds |-> NoCall]]
    /\ globalHolders' = {c \in globalHolders : Inst(c) # i}
    /\ connHolders' = {c \in connHolders : Inst(c) # i}
    /\ monTodo' = [monTodo EXCEPT ![i] = {}]
    /\ monVictims' = [monVictims EXCEPT ![i] = {}]
    /\ monTarget' = [monTarget EXCEPT ![i] = seen[i]]
    /\ pc' = [c \in Calls |-> IF Inst(c) = i /\ pc[c] \notin {"idle", "done"}
                              THEN "lost" ELSE pc[c]]
    /\ ctl' = [c \in Calls |-> IF Inst(c) = i THEN "Pending" ELSE ctl[c]]
    /\ UNCHANGED <<profileVars, now, seen, callVars, reply, databaseVars, spent, storeVars>>

Restart(i) ==
    /\ ~up[i]
    /\ up' = [up EXCEPT ![i] = TRUE]
    /\ seen' = [seen EXCEPT ![i] = revision]
    /\ monTarget' = [monTarget EXCEPT ![i] = revision]
    /\ UNCHANGED <<profileVars, now, crashes, monitorVars, guardVars, callVars, pc, reply,
                   databaseVars, spent, storeVars>>

-----------------------------------------------------------------------------
(***************************************************************************)
(* The control plane, as far as the runtime can see it: each change of a   *)
(* profile commits together with a new revision of the connection.         *)
(***************************************************************************)
BumpRevision(n) ==
    /\ revision[n] < MaxRevision
    /\ revision' = [revision EXCEPT ![n] = @ + 1]

\* upsert: a changed policy (enabled or not) has the next policy version; an
\* edit outside the policy keeps it.
UpsertProfile(n) ==
    /\ BumpRevision(n)
    /\ \E e \in BOOLEAN, v \in {profile[n].version, profile[n].version + 1} :
          /\ e # profile[n].enabled => v = profile[n].version + 1
          /\ profile' = [profile EXCEPT ![n] = [exists |-> TRUE, enabled |-> e, version |-> v]]
    /\ UNCHANGED <<issued, grantVersion, grantExpires, now, processVars, monitorVars, guardVars,
                   callVars, pc, reply, databaseVars, spent, storeVars>>

DeleteProfile(n) ==
    /\ profile[n].exists
    /\ BumpRevision(n)
    /\ profile' = [profile EXCEPT ![n].exists = FALSE, ![n].enabled = FALSE]
    /\ UNCHANGED <<issued, grantVersion, grantExpires, now, processVars, monitorVars, guardVars,
                   callVars, pc, reply, databaseVars, spent, storeVars>>

\* notify_changed: the credential was rotated.
NotifyChanged(n) ==
    /\ BumpRevision(n)
    /\ UNCHANGED <<profile, issued, grantVersion, grantExpires, now, processVars, monitorVars,
                   guardVars, callVars, pc, reply, databaseVars, spent, storeVars>>

\* ConfirmationService::issue: every grant has a fresh nonce, so is issued once.
IssueGrant(g) ==
    /\ g \notin issued
    /\ profile[Claims[g].conn].exists /\ profile[Claims[g].conn].enabled
    /\ issued' = issued \cup {g}
    /\ grantVersion' = [grantVersion EXCEPT ![g] = profile[Claims[g].conn].version]
    /\ grantExpires' = [grantExpires EXCEPT ![g] = now + GrantLifetime]
    /\ UNCHANGED <<profile, revision, now, processVars, monitorVars, guardVars, callVars, pc,
                   reply, databaseVars, spent, storeVars>>

\* Utc::now is assumed not to go back.
Tick ==
    /\ now < MaxTime
    /\ now' = now + 1
    /\ UNCHANGED <<profileVars, processVars, monitorVars, guardVars, callVars, pc, reply,
                   databaseVars, spent, storeVars>>

(***************************************************************************)
(* A database applies a write that is on its way.  Connectors send a write *)
(* once, so it takes effect at most once, but possibly long after the      *)
(* runtime stopped waiting for it.                                         *)
(***************************************************************************)
DatabaseApplies(c) ==
    /\ c \in wire \ applied
    /\ applied' = applied \cup {c}
    /\ UNCHANGED <<profileVars, now, processVars, monitorVars, guardVars, callVars, pc, reply,
                   wire, dispatched, spent, storeVars>>

-----------------------------------------------------------------------------
\* The steps of a call that the runtime takes by itself once the call has come in.
RuntimeStep(c) ==
    \/ AcquireGlobal(c) \/ AcquireConnection(c)
    \/ LoadProfile(c) \/ CancelVictim(c) \/ FinishInvalidation(c)
    \/ Authorize(c) \/ ActivateRequest(c) \/ ConsumeGrant(c) \/ ReserveIdempotency(c)
    \/ Dispatch(c) \/ ConnectorStops(c) \/ FinishIdempotency(c) \/ Conclude(c)

MonitorStep(i) ==
    \/ MonitorPoll(i) \/ MonitorCancel(i) \/ MonitorDone(i)
    \/ \E n \in Connections : MonitorInvalidate(i, n)

ControlStep ==
    \/ \E n \in Connections : UpsertProfile(n) \/ DeleteProfile(n) \/ NotifyChanged(n)
    \/ \E g \in Grants : IssueGrant(g)

Next ==
    \/ \E c \in Calls :
          \/ InsertRequest(c) \/ RuntimeStep(c)
          \/ ConnectorCompletes(c) \/ DatabaseApplies(c)
    \/ \E i \in Instances : MonitorStep(i) \/ Crash(i) \/ Restart(i)
    \/ \E i \in Instances, n \in Connections, r \in RequestIds : Cancel(i, n, r)
    \/ ControlStep
    \/ Tick

Spec == Init /\ [][Next]_vars

\* A thread that can run does run, every wait of a call has a deadline, and the
\* monitor polls for ever.  Nothing is assumed of clients, connectors, databases,
\* the control plane or crashes.
Fairness ==
    /\ \A c \in Calls : WF_vars(RuntimeStep(c))
    /\ \A i \in Instances : WF_vars(MonitorStep(i))

FairSpec == Spec /\ Fairness

-----------------------------------------------------------------------------
(***************************************************************************)
(* Properties                                                              *)
(***************************************************************************)
TypeOK ==
    /\ idem \in [Slots -> [state : IdempotencyState, op : Ops \cup {NoOp}]]
    /\ nonces \subseteq [grant : Grants, expires : Nat]
    /\ audited \subseteq Calls
    /\ faults \in Nat
    /\ profile \in [Connections -> Profiles]
    /\ revision \in [Connections -> Nat]
    /\ issued \subseteq Grants
    /\ grantVersion \in [Grants -> Nat]
    /\ grantExpires \in [Grants -> Nat]
    /\ now \in Nat
    /\ up \in [Instances -> BOOLEAN]
    /\ requests \in [Instances -> [RequestIds -> Calls \cup {NoCall}]]
    /\ globalHolders \subseteq Calls
    /\ connHolders \subseteq Calls
    /\ seen \in [Instances -> [Connections -> Nat]]
    /\ monTarget \in [Instances -> [Connections -> Nat]]
    /\ monTodo \in [Instances -> SUBSET Connections]
    /\ monVictims \in [Instances -> SUBSET Calls]
    /\ crashes \in Nat
    /\ pc \in [Calls -> Stations]
    /\ ctl \in [Calls -> RequestState]
    /\ snap \in [Calls -> Profiles]
    /\ snapRev \in [Calls -> Nat]
    /\ callVictims \in [Calls -> SUBSET Calls]
    /\ outcome \in [Calls -> Outcomes]
    /\ reply \in [Calls -> Replies]
    /\ wire \subseteq Calls
    /\ applied \subseteq Calls
    /\ spent \subseteq Calls
    /\ dispatched \subseteq Calls

SameKey(c, d) == Key(c) # NoKey /\ Slot(c) = Slot(d)

\* Of the writes with one idempotency key on one connection at most one takes
\* effect, over every process, retry, cancellation, timeout and crash
\* (reserve_idempotency before the connector is called, finish_idempotency after).
AtMostOnce ==
    \A c, d \in applied : SameKey(c, d) => c = d

\* The row of a key is deleted only when no write with that key took effect or
\* still can: release_idempotency never forgets a write that is on its way.
KeyIsRemembered ==
    \A c \in wire \cup applied : Key(c) # NoKey => idem[Slot(c)].state # "absent"

\* A row says "succeeded" only if a write with the key and the operation of the
\* row took effect: what idempotency_already_succeeded tells a retry is true.
SucceededIsTrue ==
    \A s \in Slots : idem[s].state = "succeeded" =>
        \E c \in applied : Slot(c) = s /\ Op(c) = idem[s].op

\* A grant lets one write through to a connector, even if two calls verified it
\* at the same time, or its row expired and was deleted in between
\* (consume_grant_nonce, shared by all processes).
GrantUsedOnce ==
    \A c, d \in dispatched : Grant(c) # NoGrant /\ Grant(c) = Grant(d) => c = d

\* What every caller of a write is told, and what the database does, is a
\* behaviour of WriteOnce.
AnswerFor(r) ==
    CASE r = "none"             -> "none"
      [] r = "ok"               -> "ok"
      [] r = "result_too_large" -> "withheld"
      [] r = "unknown_outcome"  -> "unknown"
      [] OTHER                  -> "failed"

Promise == INSTANCE WriteOnce WITH
    Writes <- {c \in Calls : IsWrite(c)},
    effect <- applied,
    answer <- [c \in {d \in Calls : IsWrite(d)} |-> AnswerFor(reply[c])]

ImplementsWriteOnce == Promise!Spec

\* Calls between the insertion in the request map and their end, by what they hold.
HoldsGlobal == Stations \ {"idle", "inserted", "done", "lost"}

HoldsConnection == HoldsGlobal \ {"admitted"}

\* No permit is lost or used twice: each semaphore is held by exactly the calls
\* that are past its acquisition and have not returned, whichever early return a
\* call takes, and never by more than its limit (reserve_request, RequestGuard).
PermitsFollowCalls ==
    /\ globalHolders = {c \in Calls : pc[c] \in HoldsGlobal}
    /\ connHolders = {c \in Calls : pc[c] \in HoldsConnection}
    /\ \A i \in Instances :
          /\ Cardinality(GlobalInUse(i)) <= GlobalLimit
          /\ \A n \in Connections : Cardinality(ConnectionInUse(i, n)) <= ConnectionLimit

\* The request map holds a call under its id from before its profile is loaded
\* until it ends, and nothing else: cancel and invalidate_connection reach every
\* call that may still be sent, and an id is free again when its call ended.
MapFollowsCalls ==
    \A i \in Instances, r \in RequestIds :
        LET live == {c \in Calls : Inst(c) = i /\ Id(c) = r /\ ~Ended(c) /\ pc[c] # "idle"}
        IN  IF requests[i][r] = NoCall THEN live = {} ELSE live = {requests[i][r]}

\* A call that was sent to a connector and has returned left an audit event,
\* whichever way it ended, unless the audit store failed or the result was too
\* large (record_audit on every path after run_connector_future).
SentIsAudited ==
    \A c \in dispatched :
        pc[c] = "done" /\ reply[c] # "result_too_large" /\ faults = 0 => c \in audited

\* Once the monitor has acted on a change of a connection, no call that loaded
\* the connection's profile before that change is sent to the database: the
\* request map is entered before the profile is read, so the invalidation cancels
\* every such call.
NoStaleDispatch ==
    [][\A c \in Calls : c \in dispatched' \ dispatched =>
            snapRev[c] >= seen[Inst(c)][Conn(c)]]_vars

\* A cancellation is never undone while the call lives, so a call that is cancelled
\* before it is sent is never sent (request_cancel racing activate_request).
CancelIsFinal ==
    [][\A c \in Calls : IsCancelled(c) =>
            (IsCancelled(c) \/ Ended(c))' /\ (c \in dispatched' => c \in dispatched)]_vars

\* Every call that enters the runtime returns, unless its process ends.
EveryCallReturns ==
    \A c \in Calls : pc[c] = "inserted" ~> Ended(c)

\* Every process that keeps running acts on every change of a connection.
EveryChangeIsSeen ==
    \A i \in Instances, n \in Connections, v \in 2..MaxRevision :
        revision[n] = v ~> seen[i][n] >= v \/ ~up[i]

\* docs/architecture.md: "the runtime never claims a write failed when the
\* server may have committed it".  An answer other than ok or unknown_outcome is
\* such a claim.
NeverClaimsCommittedWriteFailed ==
    \A c \in Calls :
        IsWrite(c) /\ reply[c] \notin {"none", "ok", "unknown_outcome"} =>
            c \notin wire \cup applied
=============================================================================
