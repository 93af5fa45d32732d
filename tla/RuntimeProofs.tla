--------------------------- MODULE RuntimeProofs ----------------------------
(***************************************************************************)
(* Theorems about Runtime, for every set of processes, connections, calls, *)
(* grants and keys and every value of the limits and bounds.               *)
(***************************************************************************)
EXTENDS Runtime, TLAPS

LEMMA RequestFacts ==
    ASSUME NEW c \in Calls
    PROVE  /\ Inst(c) \in Instances /\ Id(c) \in RequestIds /\ Conn(c) \in Connections
           /\ Op(c) \in Ops /\ Key(c) \in Keys \cup {NoKey}
           /\ Grant(c) \in Grants \cup {NoGrant}
           /\ Request[c].kind \in Kinds
           /\ ~IsWrite(c) => Key(c) = NoKey /\ Grant(c) = NoGrant
           /\ Key(c) # NoKey => Slot(c) \in Slots
BY RuntimeAssumption
   DEF RequestType, Inst, Id, Conn, Op, Key, Grant, IsWrite, Slot, Slots, Kinds

\* The types of what a call gives back when it ends.
LEMMA MapType ==
    ASSUME requests \in [Instances -> [RequestIds -> Calls \cup {NoCall}]],
           NEW i \in Instances, NEW r \in RequestIds, NEW x \in Calls \cup {NoCall}
    PROVE  [requests EXCEPT ![i][r] = x] \in [Instances -> [RequestIds -> Calls \cup {NoCall}]]
OBVIOUS

LEMMA ReturnType ==
    ASSUME TypeOK, NEW c \in Calls, NEW r \in Replies, Return(c, r)
    PROVE  /\ pc' \in [Calls -> Stations]
           /\ reply' \in [Calls -> Replies]
           /\ requests' \in [Instances -> [RequestIds -> Calls \cup {NoCall}]]
           /\ ctl' \in [Calls -> RequestState]
           /\ globalHolders' \subseteq Calls
           /\ connHolders' \subseteq Calls
<1>1. requests' \in [Instances -> [RequestIds -> Calls \cup {NoCall}]]
  BY MapType, RequestFacts DEF TypeOK, Return, ReleaseRequest
<1> QED
  BY <1>1 DEF TypeOK, Return, Goto, Stations, RequestState

LEMMA GotoType ==
    ASSUME TypeOK, NEW c \in Calls, NEW s \in Stations, Goto(c, s)
    PROVE  pc' \in [Calls -> Stations]
BY DEF TypeOK, Goto

(***************************************************************************)
(* Type correctness.  A row of a consumed grant has its type only because  *)
(* a write that gets as far as consume_grant_nonce names a grant.          *)
(***************************************************************************)
GrantNamed ==
    \A c \in Calls :
        \/ pc[c] = "active"
        \/ pc[c] = "authorized" /\ IsWrite(c)
        => Grant(c) \in Grants

\* Only a step of the call itself, or the end of its process, moves a call.
LEMMA OthersStay ==
    ASSUME TypeOK, NEW c \in Calls, NEW d \in Calls, d # c,
           InsertRequest(c) \/ RuntimeStep(c) \/ ConnectorCompletes(c)
    PROVE  pc'[d] = pc[d]
<1>1. pc' = pc \/ \E s \in Stations : Goto(c, s)
  <2> USE DEF Return, Settle, Stations
  <2>1. CASE InsertRequest(c)
    BY <2>1 DEF InsertRequest
  <2>2. CASE AcquireGlobal(c) \/ AcquireConnection(c)
    BY <2>2 DEF AcquireGlobal, AcquireConnection
  <2>3. CASE LoadProfile(c) \/ CancelVictim(c) \/ FinishInvalidation(c)
    BY <2>3 DEF LoadProfile, CancelVictim, FinishInvalidation
  <2>4. CASE Authorize(c) \/ ActivateRequest(c)
    BY <2>4 DEF Authorize, ActivateRequest
  <2>5. CASE ConsumeGrant(c) \/ ReserveIdempotency(c)
    BY <2>5 DEF ConsumeGrant, ReserveIdempotency
  <2>6. CASE Dispatch(c) \/ ConnectorStops(c) \/ ConnectorCompletes(c)
    BY <2>6 DEF Dispatch, ConnectorStops, ConnectorCompletes
  <2>7. CASE FinishIdempotency(c) \/ Conclude(c)
    BY <2>7 DEF FinishIdempotency, Conclude
  <2> QED
    BY <2>1, <2>2, <2>3, <2>4, <2>5, <2>6, <2>7 DEF RuntimeStep
<1> QED
  BY <1>1 DEF Goto, TypeOK

LEMMA OwnStep ==
    ASSUME TypeOK, [Next]_vars, NEW d \in Calls, pc'[d] # pc[d]
    PROVE  InsertRequest(d) \/ RuntimeStep(d) \/ ConnectorCompletes(d) \/ Crash(Inst(d))
<1> USE DEF vars
<1>1. ASSUME NEW c \in Calls, InsertRequest(c) \/ RuntimeStep(c) \/ ConnectorCompletes(c)
      PROVE  c = d
  BY <1>1, OthersStay
<1>2. ASSUME NEW c \in Calls PROVE ~DatabaseApplies(c)
  BY DEF DatabaseApplies
<1>3. ASSUME NEW i \in Instances PROVE ~MonitorStep(i) /\ ~Restart(i)
  BY DEF MonitorStep, MonitorPoll, MonitorInvalidate, MonitorCancel, MonitorDone, Restart
<1>4. ASSUME NEW i \in Instances, Crash(i) PROVE Inst(d) = i
  BY <1>4 DEF Crash, TypeOK
<1>5. ASSUME NEW i \in Instances, NEW n \in Connections, NEW r \in RequestIds
      PROVE  ~Cancel(i, n, r)
  BY DEF Cancel
<1>6. ~ControlStep /\ ~Tick
  BY DEF ControlStep, UpsertProfile, DeleteProfile, NotifyChanged, IssueGrant, Tick
<1>7. Next
  OBVIOUS
<1> QED
  BY <1>1, <1>2, <1>3, <1>4, <1>5, <1>6, <1>7 DEF Next

LEMMA GrantNamedStep == TypeOK /\ GrantNamed /\ [Next]_vars => GrantNamed'
<1> SUFFICES ASSUME TypeOK, GrantNamed, [Next]_vars,
                    NEW d \in Calls,
                    pc'[d] = "active" \/ (pc'[d] = "authorized" /\ IsWrite(d)),
                    pc'[d] # pc[d]
             PROVE  Grant(d) \in Grants
  BY DEF GrantNamed
<1>1. pc \in [Calls -> Stations]
  BY DEF TypeOK
<1>2. Authorize(d) \/ ActivateRequest(d)
  <2>1. ~InsertRequest(d) /\ ~AcquireGlobal(d) /\ ~AcquireConnection(d)
    BY <1>1 DEF InsertRequest, AcquireGlobal, AcquireConnection, Return, Goto
  <2>2. ~LoadProfile(d) /\ ~CancelVictim(d) /\ ~FinishInvalidation(d)
    BY <1>1 DEF LoadProfile, CancelVictim, FinishInvalidation, Return, Goto
  <2>3. ~ConsumeGrant(d) /\ ~ReserveIdempotency(d)
    BY <1>1 DEF ConsumeGrant, ReserveIdempotency, Return, Goto
  <2>4. ~Dispatch(d) /\ ~ConnectorStops(d) /\ ~ConnectorCompletes(d)
    BY <1>1 DEF Dispatch, ConnectorStops, ConnectorCompletes, Settle, Goto
  <2>5. ~FinishIdempotency(d) /\ ~Conclude(d) /\ ~Crash(Inst(d))
    BY <1>1 DEF FinishIdempotency, Conclude, Crash, Return, Goto
  <2> QED
    BY <2>1, <2>2, <2>3, <2>4, <2>5, OwnStep DEF RuntimeStep
<1>3. CASE Authorize(d)
  BY <1>1, <1>3, RequestFacts DEF Authorize, Return, Goto
<1>4. CASE ActivateRequest(d)
  BY <1>1, <1>4, RequestFacts DEF ActivateRequest, Return, Goto, GrantNamed
<1> QED
  BY <1>2, <1>3, <1>4

LEMMA TypeStep == TypeOK /\ GrantNamed /\ [Next]_vars => TypeOK'
<1> SUFFICES ASSUME TypeOK, GrantNamed, [Next]_vars PROVE TypeOK'
  OBVIOUS
<1> USE RequestFacts, ReturnType, GotoType
<1> USE DEF vars, profileVars, processVars, monitorVars, mapVars, guardVars, callVars,
            databaseVars, storeVars, StoreFails, StoreWorks, Stations, Replies, RequestState
<1>1. ASSUME NEW c \in Calls, InsertRequest(c) PROVE TypeOK'
  <2>1. requests' \in [Instances -> [RequestIds -> Calls \cup {NoCall}]]
    <3>1. requests \in [Instances -> [RequestIds -> Calls \cup {NoCall}]]
      BY DEF TypeOK
    <3>2. [requests EXCEPT ![Inst(c)][Id(c)] = c]
             \in [Instances -> [RequestIds -> Calls \cup {NoCall}]]
      BY ONLY <3>1, RequestFacts, MapType, c \in Calls
    <3> QED
      BY <1>1, <3>1, <3>2 DEF InsertRequest
  <2>2. pc' \in [Calls -> Stations]
    BY <1>1 DEF InsertRequest
  <2>3. reply' \in [Calls -> Replies]
    BY <1>1 DEF TypeOK, InsertRequest
  <2> QED
    BY <1>1, <2>1, <2>2, <2>3 DEF TypeOK, InsertRequest
<1>2. ASSUME NEW c \in Calls, AcquireGlobal(c) PROVE TypeOK'
  BY <1>2 DEF TypeOK, AcquireGlobal
<1>3. ASSUME NEW c \in Calls, AcquireConnection(c) PROVE TypeOK'
  BY <1>3 DEF TypeOK, AcquireConnection
<1>4. ASSUME NEW c \in Calls, LoadProfile(c) PROVE TypeOK'
  <2>1. callVictims' \in [Calls -> SUBSET Calls]
    <3>1. ActiveOn(Inst(c), Conn(c)) \in SUBSET Calls
      BY DEF ActiveOn
    <3>2. callVictims \in [Calls -> SUBSET Calls]
      BY DEF TypeOK
    <3> QED
      BY <1>4, <3>1, <3>2 DEF LoadProfile
  <2>2. snap' \in [Calls -> Profiles] /\ snapRev' \in [Calls -> Nat]
    <3>1. profile[Conn(c)] \in Profiles /\ revision[Conn(c)] \in Nat
      BY DEF TypeOK
    <3>2. snap \in [Calls -> Profiles] /\ snapRev \in [Calls -> Nat]
      BY DEF TypeOK
    <3> QED
      BY <1>4, <3>1, <3>2 DEF LoadProfile
  <2>3. pc' \in [Calls -> Stations]
    BY <1>4 DEF LoadProfile
  <2>4. CASE Return(c, "internal") /\ StoreFails
    BY <1>4, <2>1, <2>2, <2>4 DEF TypeOK, LoadProfile
  <2>5. CASE UNCHANGED <<guardVars, reply, faults>>
    BY <1>4, <2>1, <2>2, <2>3, <2>5 DEF TypeOK, LoadProfile
  <2> QED
    BY <1>4, <2>4, <2>5 DEF LoadProfile
<1>5. ASSUME NEW c \in Calls, CancelVictim(c) PROVE TypeOK'
  BY <1>5 DEF TypeOK, CancelVictim, RequestCancel
<1>6. ASSUME NEW c \in Calls, FinishInvalidation(c) PROVE TypeOK'
  BY <1>6 DEF TypeOK, FinishInvalidation
<1>7. ASSUME NEW c \in Calls, Authorize(c) PROVE TypeOK'
  BY <1>7 DEF TypeOK, Authorize, RecordAudit
<1>8. ASSUME NEW c \in Calls, ActivateRequest(c) PROVE TypeOK'
  <2>1. ctl' \in [Calls -> RequestState]
    BY <1>8 DEF TypeOK, ActivateRequest
  <2> QED
    BY <1>8, <2>1 DEF TypeOK, ActivateRequest
<1>9. ASSUME NEW c \in Calls, ConsumeGrant(c) PROVE TypeOK'
  <2>1. nonces' \subseteq [grant : Grants, expires : Nat]
    <3>1. /\ nonces \subseteq [grant : Grants, expires : Nat]
          /\ grantExpires \in [Grants -> Nat]
      BY DEF TypeOK
    <3>2. LiveNonces(now) \subseteq nonces
      BY DEF LiveNonces
    <3>3. Grant(c) \in Grants
      BY <1>9 DEF ConsumeGrant, GrantNamed
    <3> QED
      BY <1>9, <3>1, <3>2, <3>3 DEF ConsumeGrant, ConsumeGrantNonce
  <2>2. spent' \subseteq Calls /\ audited' \subseteq Calls /\ faults' \in Nat
    BY <1>9 DEF TypeOK, ConsumeGrant, RecordAudit
  <2> QED
    BY <1>9, <2>1, <2>2 DEF TypeOK, ConsumeGrant
<1>10. ASSUME NEW c \in Calls, ReserveIdempotency(c) PROVE TypeOK'
  <2>1. idem' \in [Slots -> [state : IdempotencyState, op : Ops \cup {NoOp}]]
    <3>1. idem \in [Slots -> [state : IdempotencyState, op : Ops \cup {NoOp}]]
      BY DEF TypeOK
    <3>2. [state |-> "in_flight", op |-> Op(c)] \in [state : IdempotencyState, op : Ops \cup {NoOp}]
      BY DEF IdempotencyState
    <3>3. [idem EXCEPT ![Slot(c)] = [state |-> "in_flight", op |-> Op(c)]]
             \in [Slots -> [state : IdempotencyState, op : Ops \cup {NoOp}]]
      BY ONLY <3>1, <3>2
    <3> QED
      BY <1>10, <3>1, <3>3 DEF ReserveIdempotency, ReserveIdempotencyRow
  <2>2. audited' \subseteq Calls /\ faults' \in Nat
    BY <1>10 DEF TypeOK, ReserveIdempotency, RecordAudit
  <2>3. CASE Goto(c, "ready") /\ UNCHANGED <<guardVars, reply>>
    BY <1>10, <2>1, <2>2, <2>3 DEF TypeOK, ReserveIdempotency
  <2>4. ASSUME NEW r \in Replies, Return(c, r) PROVE TypeOK'
    BY <1>10, <2>1, <2>2, <2>4 DEF TypeOK, ReserveIdempotency
  <2> QED
    BY <1>10, <2>3, <2>4 DEF ReserveIdempotency
<1>11. ASSUME NEW c \in Calls, Dispatch(c) PROVE TypeOK'
  BY <1>11 DEF TypeOK, Dispatch, Settle, Outcomes
<1>12. ASSUME NEW c \in Calls, ConnectorCompletes(c) PROVE TypeOK'
  BY <1>12 DEF TypeOK, ConnectorCompletes, Settle, Outcomes
<1>13. ASSUME NEW c \in Calls, ConnectorStops(c) PROVE TypeOK'
  BY <1>13 DEF TypeOK, ConnectorStops, Settle, Outcomes
<1>14. ASSUME NEW c \in Calls, FinishIdempotency(c) PROVE TypeOK'
  <2>1. idem' \in [Slots -> [state : IdempotencyState, op : Ops \cup {NoOp}]]
    <3>1. idem \in [Slots -> [state : IdempotencyState, op : Ops \cup {NoOp}]]
      BY DEF TypeOK
    <3> QED
      BY <1>14, <3>1 DEF FinishIdempotency, UpdateIdempotencyState, ReleaseIdempotency,
                         Absent, IdempotencyState
  <2> QED
    BY <1>14, <2>1 DEF TypeOK, FinishIdempotency
<1>15. ASSUME NEW c \in Calls, Conclude(c) PROVE TypeOK'
  <2>1. PICK r \in Replies : Return(c, r)
    BY <1>15 DEF Conclude, ReplyFor
  <2>2. audited' \subseteq Calls /\ faults' \in Nat
    BY <1>15 DEF TypeOK, Conclude, RecordAudit
  <2> QED
    BY <1>15, <2>1, <2>2 DEF TypeOK, Conclude
<1>16. ASSUME NEW c \in Calls, DatabaseApplies(c) PROVE TypeOK'
  BY <1>16 DEF TypeOK, DatabaseApplies
<1>17. ASSUME NEW i \in Instances, MonitorPoll(i) PROVE TypeOK'
  BY <1>17 DEF TypeOK, MonitorPoll
<1>18. ASSUME NEW i \in Instances, MonitorCancel(i) PROVE TypeOK'
  BY <1>18 DEF TypeOK, MonitorCancel, RequestCancel
<1>19. ASSUME NEW i \in Instances, MonitorDone(i) PROVE TypeOK'
  BY <1>19 DEF TypeOK, MonitorDone
<1>20. ASSUME NEW i \in Instances, NEW n \in Connections, MonitorInvalidate(i, n) PROVE TypeOK'
  BY <1>20 DEF TypeOK, MonitorInvalidate, ActiveOn
<1>21. ASSUME NEW i \in Instances, Crash(i) PROVE TypeOK'
  BY <1>21 DEF TypeOK, Crash
<1>22. ASSUME NEW i \in Instances, Restart(i) PROVE TypeOK'
  BY <1>22 DEF TypeOK, Restart
<1>23. ASSUME NEW i \in Instances, NEW n \in Connections, NEW r \in RequestIds, Cancel(i, n, r) PROVE TypeOK'
  BY <1>23 DEF TypeOK, Cancel, RequestCancel
<1>24. ASSUME NEW n \in Connections, UpsertProfile(n) PROVE TypeOK'
  BY <1>24 DEF TypeOK, UpsertProfile, BumpRevision, Profiles
<1>25. ASSUME NEW n \in Connections, DeleteProfile(n) PROVE TypeOK'
  <2>1. profile' \in [Connections -> Profiles]
    <3>1. profile \in [Connections -> Profiles]
      BY DEF TypeOK
    <3> QED
      BY <1>25, <3>1 DEF DeleteProfile, Profiles
  <2> QED
    BY <1>25, <2>1 DEF TypeOK, DeleteProfile, BumpRevision
<1>26. ASSUME NEW n \in Connections, NotifyChanged(n) PROVE TypeOK'
  BY <1>26 DEF TypeOK, NotifyChanged, BumpRevision
<1>27. ASSUME NEW g \in Grants, IssueGrant(g) PROVE TypeOK'
  <2>1. Claims[g].conn \in Connections
    BY RuntimeAssumption DEF ClaimsType
  <2>2. profile[Claims[g].conn].version \in Nat /\ now + GrantLifetime \in Nat
    BY <2>1, RuntimeAssumption DEF TypeOK, Profiles
  <2> QED
    BY <1>27, <2>2 DEF TypeOK, IssueGrant
<1>28. ASSUME Tick PROVE TypeOK'
  BY <1>28 DEF TypeOK, Tick
<1>29. CASE UNCHANGED vars
  BY <1>29 DEF TypeOK
<1> QED
  BY <1>1, <1>2, <1>3, <1>4, <1>5, <1>6, <1>7, <1>8, <1>9, <1>10, <1>11, <1>12, <1>13, <1>14, <1>15, <1>16, <1>17, <1>18, <1>19, <1>20, <1>21, <1>22, <1>23, <1>24, <1>25, <1>26, <1>27, <1>28, <1>29
     DEF Next, RuntimeStep, MonitorStep, ControlStep

\* Every variable keeps its type.
THEOREM TypeCorrect == Spec => []TypeOK
<1>1. Init => TypeOK
  BY RuntimeAssumption, StoreAssumption
     DEF Init, StoreInit, TypeOK, Absent, IdempotencyState, Profiles, NoProfile, Stations,
         RequestState, Outcomes, Replies
<1>2. Init => GrantNamed
  BY DEF Init, GrantNamed
<1> QED
  BY <1>1, <1>2, TypeStep, GrantNamedStep, PTL DEF Spec
=============================================================================
