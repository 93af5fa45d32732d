------------------------ MODULE RuntimeGuardProofs --------------------------
(***************************************************************************)
(* What can stop a call on its way to the connector (the request map,      *)
(* cancellation and the change monitor), what lets it through (its permits *)
(* and, for a write, its grant), and the trace that it leaves.             *)
(***************************************************************************)
EXTENDS RuntimeProofs, FiniteSetTheorems

Alive(c) == pc[c] \notin {"idle", "done", "lost"}

\* The request map and the calls that are under way agree; a process that is down
\* has none.
MapInv ==
    /\ \A c \in Calls : Alive(c) => requests[Inst(c)][Id(c)] = c /\ up[Inst(c)]
    /\ \A i \in Instances, r \in RequestIds : requests[i][r] # NoCall =>
          Alive(requests[i][r]) /\ Inst(requests[i][r]) = i /\ Id(requests[i][r]) = r

\* Only a call that is under way is cancelled.
CancelInv ==
    /\ \A c \in Calls : IsCancelled(c) => Alive(c)
    /\ \A i \in Instances : \A d \in monVictims[i] : pc[d] # "idle"
    /\ \A c \in Calls : \A d \in callVictims[c] : pc[d] # "idle"

\* A call that has read its profile and has not been sent.
Prepared == {"invalidating", "loaded", "authorized", "active", "granted", "ready"}

\* The monitor works towards monTarget; a call that read an older revision is
\* cancelled, is about to be, or its connection is still to be invalidated.
FreshInv ==
    /\ \A i \in Instances, n \in Connections :
          seen[i][n] <= monTarget[i][n] /\ monTarget[i][n] <= revision[n]
    /\ \A c \in Calls : pc[c] \in Prepared =>
          /\ snapRev[c] < seen[Inst(c)][Conn(c)] => IsCancelled(c)
          /\ snapRev[c] < monTarget[Inst(c)][Conn(c)] =>
                \/ IsCancelled(c)
                \/ c \in monVictims[Inst(c)]
                \/ Conn(c) \in monTodo[Inst(c)]

-----------------------------------------------------------------------------
(***************************************************************************)
(* The request map.                                                        *)
(***************************************************************************)
AliveStations == Stations \ {"idle", "done", "lost"}

\* A step of a call that has come in: it moves on, or it returns.
LEMMA CallStep ==
    ASSUME NEW c \in Calls, RuntimeStep(c) \/ ConnectorCompletes(c)
    PROVE  /\ Alive(c)
           /\ UNCHANGED <<up, seen, monTarget, revision>>
           /\ \/ /\ UNCHANGED requests
                 /\ pc' = pc \/ \E s \in AliveStations : Goto(c, s)
              \/ \E r \in Replies : Return(c, r)
<1> USE DEF Alive, AliveStations, Stations, Replies, guardVars, mapVars, processVars, profileVars
<1>1. CASE AcquireGlobal(c) \/ AcquireConnection(c)
  BY <1>1 DEF AcquireGlobal, AcquireConnection
<1>2. CASE LoadProfile(c) \/ CancelVictim(c) \/ FinishInvalidation(c)
  BY <1>2 DEF LoadProfile, CancelVictim, FinishInvalidation
<1>3. CASE Authorize(c) \/ ActivateRequest(c)
  BY <1>3 DEF Authorize, ActivateRequest
<1>4. CASE ConsumeGrant(c) \/ ReserveIdempotency(c)
  BY <1>4 DEF ConsumeGrant, ReserveIdempotency
<1>5. CASE Dispatch(c) \/ ConnectorStops(c) \/ ConnectorCompletes(c)
  BY <1>5 DEF Dispatch, ConnectorStops, ConnectorCompletes, Settle
<1>6. CASE FinishIdempotency(c)
  BY <1>6 DEF FinishIdempotency
<1>7. CASE Conclude(c)
  BY <1>7 DEF Conclude, ReplyFor
<1> QED
  BY <1>1, <1>2, <1>3, <1>4, <1>5, <1>6, <1>7 DEF RuntimeStep

LEMMA MapFrame ==
    ASSUME MapInv, UNCHANGED <<requests, up, pc>>
    PROVE  MapInv'
BY DEF MapInv, Alive

LEMMA MapReturn ==
    ASSUME TypeOK, MapInv, NEW c \in Calls, NEW r, Return(c, r), UNCHANGED up, Alive(c)
    PROVE  MapInv'
<1>1. /\ pc \in [Calls -> Stations] /\ pc' = [pc EXCEPT ![c] = "done"]
      /\ requests \in [Instances -> [RequestIds -> Calls \cup {NoCall}]]
      /\ requests' = [requests EXCEPT ![Inst(c)][Id(c)] = NoCall]
  BY DEF TypeOK, Return, Goto, ReleaseRequest
<1>2. Inst(c) \in Instances /\ Id(c) \in RequestIds /\ requests[Inst(c)][Id(c)] = c
  BY RequestFacts DEF MapInv
<1>3. \A i \in Instances, q \in RequestIds :
         requests'[i][q] = IF i = Inst(c) /\ q = Id(c) THEN NoCall ELSE requests[i][q]
  BY <1>1, <1>2
<1>4. \A d \in Calls : (Alive(d))' <=> Alive(d) /\ d # c
  BY <1>1 DEF Alive
<1>5. ASSUME NEW d \in Calls, (Alive(d))' PROVE requests'[Inst(d)][Id(d)] = d /\ up'[Inst(d)]
  <2>1. Alive(d) /\ d # c /\ requests[Inst(d)][Id(d)] = d
    BY <1>4, <1>5 DEF MapInv
  <2>2. Inst(d) \in Instances /\ Id(d) \in RequestIds
    BY RequestFacts
  <2> QED
    BY <1>2, <1>3, <2>1, <2>2 DEF MapInv
<1>6. ASSUME NEW i \in Instances, NEW q \in RequestIds, requests'[i][q] # NoCall
      PROVE  /\ requests'[i][q] = requests[i][q] /\ requests[i][q] \in Calls
             /\ requests[i][q] # c /\ Alive(requests[i][q])
             /\ Inst(requests[i][q]) = i /\ Id(requests[i][q]) = q
  <2>1. requests'[i][q] = requests[i][q] /\ requests[i][q] # NoCall
    BY <1>3, <1>6
  <2>2. requests[i][q] \in Calls
    BY <1>1, <2>1
  <2>3. Alive(requests[i][q]) /\ Inst(requests[i][q]) = i /\ Id(requests[i][q]) = q
    BY <2>1 DEF MapInv
  <2>4. requests[i][q] # c
    BY <1>3, <1>6, <2>3
  <2> QED
    BY <2>1, <2>2, <2>3, <2>4
<1> QED
  BY <1>4, <1>5, <1>6 DEF MapInv, Alive, Inst, Id

LEMMA MapStep == TypeOK /\ MapInv /\ [Next]_vars => MapInv'
<1> SUFFICES ASSUME TypeOK, MapInv, [Next]_vars PROVE MapInv'
  OBVIOUS
<1> USE DEF vars, mapVars, guardVars, processVars
<1>0. /\ pc \in [Calls -> Stations] /\ up \in [Instances -> BOOLEAN]
      /\ requests \in [Instances -> [RequestIds -> Calls \cup {NoCall}]]
  BY DEF TypeOK
<1>1. ASSUME NEW c \in Calls, InsertRequest(c) PROVE MapInv'
  <2>0. Inst(c) \in Instances /\ Id(c) \in RequestIds /\ up[Inst(c)] /\ up' = up /\ ~Alive(c)
    BY <1>1, RequestFacts DEF InsertRequest, Alive
  <2>1. CASE Goto(c, "done") /\ UNCHANGED requests
    <3>1. \A d \in Calls : (Alive(d))' <=> Alive(d)
      BY <1>0, <2>0, <2>1 DEF Goto, Alive
    <3> QED
      BY <1>0, <2>0, <2>1, <3>1 DEF MapInv, Alive, Inst, Id
  <2>2. CASE /\ requests[Inst(c)][Id(c)] = NoCall /\ Goto(c, "inserted")
             /\ requests' = [requests EXCEPT ![Inst(c)][Id(c)] = c]
    <3>1. \A i \in Instances, q \in RequestIds :
             requests'[i][q] = IF i = Inst(c) /\ q = Id(c) THEN c ELSE requests[i][q]
      BY <1>0, <2>0, <2>2
    <3>2. \A d \in Calls : (Alive(d))' <=> Alive(d) \/ d = c
      BY <1>0, <2>2 DEF Goto, Alive
    <3>3. ASSUME NEW d \in Calls, (Alive(d))' PROVE requests'[Inst(d)][Id(d)] = d /\ up'[Inst(d)]
      <4>1. CASE d = c
        BY <2>0, <3>1, <4>1
      <4>2. CASE d # c
        <5>1. requests[Inst(d)][Id(d)] = d /\ up[Inst(d)]
              /\ Inst(d) \in Instances /\ Id(d) \in RequestIds
          BY <3>2, <3>3, <4>2, RequestFacts DEF MapInv
        <5> QED
          BY <2>0, <2>2, <3>1, <5>1, RuntimeAssumption
      <4> QED
        BY <4>1, <4>2
    <3>4. ASSUME NEW i \in Instances, NEW q \in RequestIds, requests'[i][q] # NoCall
          PROVE  /\ requests'[i][q] \in Calls
                 /\ Alive(requests'[i][q]) \/ requests'[i][q] = c
                 /\ Inst(requests'[i][q]) = i /\ Id(requests'[i][q]) = q
      BY <1>0, <3>1, <3>4 DEF MapInv
    <3> QED
      BY <3>2, <3>3, <3>4 DEF MapInv, Alive, Inst, Id
  <2> QED
    BY <1>1, <2>1, <2>2 DEF InsertRequest
<1>2. ASSUME NEW c \in Calls, RuntimeStep(c) \/ ConnectorCompletes(c) PROVE MapInv'
  <2>1. Alive(c) /\ UNCHANGED up
    BY <1>2, CallStep
  <2>2. CASE \E r \in Replies : Return(c, r)
    BY <2>1, <2>2, MapReturn
  <2>3. CASE UNCHANGED requests /\ (pc' = pc \/ \E s \in AliveStations : Goto(c, s))
    <3>1. \A d \in Calls : (Alive(d))' <=> Alive(d)
      BY <1>0, <2>1, <2>3 DEF Goto, Alive, AliveStations
    <3> QED
      BY <1>0, <2>1, <2>3, <3>1 DEF MapInv, Alive, Inst, Id
  <2> QED
    BY <1>2, <2>2, <2>3, CallStep
<1>3. ASSUME NEW i \in Instances, Crash(i) PROVE MapInv'
  <2>1. /\ \A d \in Calls : (Alive(d))' <=> Alive(d) /\ Inst(d) # i
        /\ \A j \in Instances : j # i => up'[j] = up[j]
    BY <1>0, <1>3 DEF Crash, Alive
  <2>2. \A j \in Instances, q \in RequestIds :
           requests'[j][q] = IF j = i THEN NoCall ELSE requests[j][q]
    BY <1>0, <1>3 DEF Crash
  <2>3. ASSUME NEW d \in Calls, (Alive(d))' PROVE requests'[Inst(d)][Id(d)] = d /\ up'[Inst(d)]
    BY <2>1, <2>2, <2>3, RequestFacts DEF MapInv
  <2>4. ASSUME NEW j \in Instances, NEW q \in RequestIds, requests'[j][q] # NoCall
        PROVE  /\ requests'[j][q] \in Calls /\ Alive(requests'[j][q])
               /\ Inst(requests'[j][q]) = j /\ Id(requests'[j][q]) = q /\ j # i
    BY <1>0, <2>2, <2>4 DEF MapInv
  <2> QED
    BY <2>1, <2>3, <2>4 DEF MapInv, Alive, Inst, Id
<1>4. ASSUME NEW i \in Instances, Restart(i) PROVE MapInv'
  BY <1>0, <1>4, RequestFacts DEF Restart, MapInv, Alive
<1>5. ASSUME NEW c \in Calls, DatabaseApplies(c) PROVE MapInv'
  BY <1>5, MapFrame DEF DatabaseApplies
<1>6. ASSUME NEW i \in Instances, MonitorStep(i) PROVE MapInv'
  BY <1>6, MapFrame DEF MonitorStep, MonitorPoll, MonitorInvalidate, MonitorCancel, MonitorDone
<1>7. ASSUME NEW i \in Instances, NEW n \in Connections, NEW r \in RequestIds, Cancel(i, n, r)
      PROVE  MapInv'
  BY <1>7, MapFrame DEF Cancel
<1>8. CASE ControlStep \/ Tick
  BY <1>8, MapFrame
     DEF ControlStep, UpsertProfile, DeleteProfile, NotifyChanged, IssueGrant, Tick
<1>9. CASE UNCHANGED vars
  BY <1>9, MapFrame
<1> QED
  BY <1>1, <1>2, <1>3, <1>4, <1>5, <1>6, <1>7, <1>8, <1>9 DEF Next

LEMMA MapInvariant == Spec => []MapInv
<1>1. Init => MapInv
  BY DEF Init, MapInv, Alive
<1> QED
  BY <1>1, TypeCorrect, MapStep, PTL DEF Spec

\* The request map holds exactly the calls that are under way, each under its id.
THEOREM MapFollows == Spec => []MapFollowsCalls
<1>1. TypeOK /\ MapInv => MapFollowsCalls
  <2> SUFFICES ASSUME TypeOK, MapInv, NEW i \in Instances, NEW r \in RequestIds
               PROVE  LET live == {c \in Calls : Inst(c) = i /\ Id(c) = r /\ ~Ended(c) /\ pc[c] # "idle"}
                      IN  IF requests[i][r] = NoCall THEN live = {} ELSE live = {requests[i][r]}
    BY DEF MapFollowsCalls
  <2>1. requests[i][r] \in Calls \cup {NoCall}
    BY DEF TypeOK
  <2>2. \A c \in Calls : Alive(c) <=> ~Ended(c) /\ pc[c] # "idle"
    BY DEF Alive, Ended
  <2>3. \A c \in Calls : Inst(c) = i /\ Id(c) = r /\ Alive(c) => requests[i][r] = c
    BY DEF MapInv
  <2>4. requests[i][r] # NoCall => /\ Alive(requests[i][r])
                                   /\ Inst(requests[i][r]) = i /\ Id(requests[i][r]) = r
    BY DEF MapInv
  <2> QED
    BY <2>1, <2>2, <2>3, <2>4, RuntimeAssumption
<1> QED
  BY <1>1, TypeCorrect, MapInvariant, PTL

-----------------------------------------------------------------------------
(***************************************************************************)
(* Cancellation.                                                           *)
(***************************************************************************)
LEMMA CancelFrame ==
    ASSUME CancelInv, UNCHANGED <<pc, ctl, monVictims, callVictims>>
    PROVE  CancelInv'
BY DEF CancelInv, IsCancelled, Alive

\* A step of a call that cancels nobody and remembers no new victims.
LEMMA CancelCall ==
    ASSUME TypeOK, CancelInv, NEW c \in Calls, Alive(c),
           UNCHANGED <<monVictims, callVictims>>,
           \/ UNCHANGED ctl /\ (pc' = pc \/ \E s \in AliveStations : Goto(c, s))
           \/ \E r \in Replies : Return(c, r)
    PROVE  CancelInv'
<1>1. pc \in [Calls -> Stations] /\ ctl \in [Calls -> RequestState]
      /\ monVictims \in [Instances -> SUBSET Calls] /\ callVictims \in [Calls -> SUBSET Calls]
  BY DEF TypeOK
<1>2. \A d \in Calls : pc[d] # "idle" => pc'[d] # "idle"
  BY <1>1 DEF Return, Goto, AliveStations
<1>3. \A d \in Calls : (IsCancelled(d))' => (Alive(d))'
  BY <1>1 DEF CancelInv, IsCancelled, Alive, Return, Goto, AliveStations
<1> QED
  BY <1>1, <1>2, <1>3 DEF CancelInv

LEMMA VictimCancelled ==
    ASSUME TypeOK, CancelInv, NEW d \in Calls, pc[d] # "idle", RequestCancel(d), UNCHANGED pc
    PROVE  \A e \in Calls : (IsCancelled(e))' => (Alive(e))'
BY DEF TypeOK, CancelInv, RequestCancel, IsCancelled, Alive

LEMMA CancelStep == TypeOK /\ MapInv /\ CancelInv /\ [Next]_vars => CancelInv'
<1> SUFFICES ASSUME TypeOK, MapInv, CancelInv, [Next]_vars PROVE CancelInv'
  OBVIOUS
<1> USE DEF vars, monitorVars, callVars, guardVars, mapVars
<1>0. pc \in [Calls -> Stations] /\ ctl \in [Calls -> RequestState]
      /\ monVictims \in [Instances -> SUBSET Calls] /\ callVictims \in [Calls -> SUBSET Calls]
  BY DEF TypeOK
<1>1. ASSUME NEW c \in Calls, InsertRequest(c) PROVE CancelInv'
  <2>1. /\ ~IsCancelled(c) /\ UNCHANGED <<ctl, monVictims, callVictims>>
        /\ Goto(c, "done") \/ Goto(c, "inserted")
    BY <1>1 DEF InsertRequest, CancelInv, Alive
  <2>2. \A d \in Calls : pc[d] # "idle" => pc'[d] # "idle"
    BY <1>0, <2>1 DEF Goto
  <2>3. \A d \in Calls : (IsCancelled(d))' => (Alive(d))'
    BY <1>0, <2>1 DEF Goto, CancelInv, IsCancelled, Alive
  <2> QED
    BY <1>0, <2>1, <2>2, <2>3 DEF CancelInv
<1>2. ASSUME NEW c \in Calls, LoadProfile(c) PROVE CancelInv'
  <2>1. CASE UNCHANGED callVictims
    BY <1>2, <2>1, CancelCall DEF LoadProfile, AliveStations, Stations, Alive, Replies
  <2>2. CASE /\ Goto(c, "invalidating") /\ UNCHANGED <<ctl, monVictims>>
             /\ callVictims' = [callVictims EXCEPT ![c] = ActiveOn(Inst(c), Conn(c))]
    <3>1. \A d \in ActiveOn(Inst(c), Conn(c)) : pc[d] # "idle"
      BY RequestFacts, RuntimeAssumption DEF ActiveOn, MapInv, Alive
    <3>2. \A d \in Calls : pc[d] # "idle" => pc'[d] # "idle"
      BY <1>0, <2>2 DEF Goto
    <3>3. \A d \in Calls : (IsCancelled(d))' => (Alive(d))'
      BY <1>0, <2>2 DEF Goto, CancelInv, IsCancelled, Alive
    <3>4. ActiveOn(Inst(c), Conn(c)) \subseteq Calls
      BY DEF ActiveOn
    <3> QED
      BY <1>0, <2>2, <3>1, <3>2, <3>3, <3>4 DEF CancelInv
  <2> QED
    BY <1>2, <2>1, <2>2 DEF LoadProfile
<1>3. ASSUME NEW c \in Calls, CancelVictim(c) PROVE CancelInv'
  <2>1. PICK d \in callVictims[c] : /\ RequestCancel(d) /\ UNCHANGED <<pc, monVictims>>
                                    /\ callVictims' = [callVictims EXCEPT ![c] = @ \ {d}]
    BY <1>3 DEF CancelVictim
  <2>2. d \in Calls /\ pc[d] # "idle"
    BY <1>0, <2>1 DEF CancelInv
  <2>3. \A e \in Calls : (IsCancelled(e))' => (Alive(e))'
    BY <2>1, <2>2, VictimCancelled
  <2> QED
    BY <1>0, <2>1, <2>3 DEF CancelInv
<1>4. ASSUME NEW c \in Calls, ActivateRequest(c) PROVE CancelInv'
  <2>1. CASE \E r \in Replies : Return(c, r)
    BY <1>4, <2>1, CancelCall DEF ActivateRequest, Alive
  <2>2. CASE /\ ctl[c] = "Pending" /\ ctl' = [ctl EXCEPT ![c] = "Active"]
             /\ \E s \in AliveStations : Goto(c, s)
    BY <1>0, <1>4, <2>2
       DEF ActivateRequest, CancelInv, IsCancelled, Alive, Goto, AliveStations
  <2> QED
    BY <1>4, <2>1, <2>2 DEF ActivateRequest, AliveStations, Stations, Replies
<1>5. ASSUME NEW c \in Calls, RuntimeStep(c) \/ ConnectorCompletes(c) PROVE CancelInv'
  <2>1. CASE LoadProfile(c) \/ CancelVictim(c) \/ ActivateRequest(c)
    BY <2>1, <1>2, <1>3, <1>4
  <2>2. CASE ~(LoadProfile(c) \/ CancelVictim(c) \/ ActivateRequest(c))
    <3>1. /\ UNCHANGED <<monVictims, callVictims>>
          /\ UNCHANGED ctl \/ \E r \in Replies : Return(c, r)
      BY <1>5, <2>2
         DEF RuntimeStep, AcquireGlobal, AcquireConnection, FinishInvalidation, Authorize,
             ConsumeGrant, ReserveIdempotency, Dispatch, ConnectorStops, FinishIdempotency,
             Conclude, ConnectorCompletes, Replies, ReplyFor
    <3> QED
      BY <1>5, <3>1, CallStep, CancelCall
  <2> QED
    BY <2>1, <2>2
<1>6. ASSUME NEW i \in Instances, MonitorCancel(i) PROVE CancelInv'
  <2>1. PICK d \in monVictims[i] : /\ RequestCancel(d) /\ UNCHANGED <<pc, callVictims>>
                                   /\ monVictims' = [monVictims EXCEPT ![i] = @ \ {d}]
    BY <1>6 DEF MonitorCancel
  <2>2. d \in Calls /\ pc[d] # "idle"
    BY <1>0, <2>1 DEF CancelInv
  <2>3. \A e \in Calls : (IsCancelled(e))' => (Alive(e))'
    BY <2>1, <2>2, VictimCancelled
  <2> QED
    BY <1>0, <2>1, <2>3 DEF CancelInv
<1>7. ASSUME NEW i \in Instances, NEW n \in Connections, MonitorInvalidate(i, n) PROVE CancelInv'
  <2>1. \A d \in ActiveOn(i, n) : d \in Calls /\ pc[d] # "idle"
    BY RequestFacts, RuntimeAssumption DEF ActiveOn, MapInv, Alive
  <2> QED
    BY <1>0, <1>7, <2>1 DEF MonitorInvalidate, CancelInv, IsCancelled, Alive
<1>8. ASSUME NEW i \in Instances, MonitorPoll(i) \/ MonitorDone(i) \/ Restart(i) PROVE CancelInv'
  BY <1>8, CancelFrame DEF MonitorPoll, MonitorDone, Restart
<1>9. ASSUME NEW i \in Instances, NEW n \in Connections, NEW r \in RequestIds, Cancel(i, n, r)
      PROVE  CancelInv'
  <2>1. PICK c \in Calls : pc[c] # "idle" /\ RequestCancel(c)
    BY <1>9 DEF Cancel, MapInv, Alive, TypeOK
  <2> QED
    BY <1>9, <2>1, VictimCancelled DEF Cancel, CancelInv
<1>10. ASSUME NEW i \in Instances, Crash(i) PROVE CancelInv'
  <2>1. /\ \A d \in Calls : (IsCancelled(d))' => IsCancelled(d) /\ Inst(d) # i
        /\ \A d \in Calls : Inst(d) # i => pc'[d] = pc[d]
        /\ \A d \in Calls : pc[d] # "idle" => pc'[d] # "idle"
    BY <1>10 DEF Crash, IsCancelled
  <2> QED
    BY <1>0, <1>10, <2>1 DEF Crash, CancelInv, Alive
<1>11. ASSUME NEW c \in Calls, DatabaseApplies(c) PROVE CancelInv'
  BY <1>11, CancelFrame DEF DatabaseApplies
<1>12. CASE ControlStep \/ Tick
  BY <1>12, CancelFrame
     DEF ControlStep, UpsertProfile, DeleteProfile, NotifyChanged, IssueGrant, Tick
<1>13. CASE UNCHANGED vars
  BY <1>13, CancelFrame
<1> QED
  BY <1>1, <1>5, <1>6, <1>7, <1>8, <1>9, <1>10, <1>11, <1>12, <1>13 DEF Next, MonitorStep

LEMMA CancelInvariant == Spec => []CancelInv
<1>1. Init => CancelInv
  BY DEF Init, CancelInv, IsCancelled
<1> QED
  BY <1>1, TypeCorrect, MapInvariant, CancelStep, PTL DEF Spec

\* Who may change the cancellation of a call, and how.
LEMMA StaysCancelled ==
    ASSUME TypeOK, CancelInv, [Next]_vars, NEW c \in Calls, IsCancelled(c)
    PROVE  (IsCancelled(c) \/ Ended(c))' /\ (c \in dispatched' => c \in dispatched)
<1> USE DEF vars, guardVars, databaseVars
<1> DEFINE Goal == (IsCancelled(c) \/ Ended(c))' /\ (c \in dispatched' => c \in dispatched)
<1>0. pc \in [Calls -> Stations] /\ ctl \in [Calls -> RequestState]
  BY DEF TypeOK
<1>1. ASSUME NEW d, RequestCancel(d), UNCHANGED dispatched PROVE Goal
  BY <1>0, <1>1 DEF RequestCancel, IsCancelled
<1>2. ASSUME NEW d \in Calls, NEW r, Return(d, r), UNCHANGED dispatched PROVE Goal
  BY <1>0, <1>2 DEF Return, Goto, IsCancelled, Ended
<1>3. ASSUME UNCHANGED <<ctl, dispatched>> PROVE Goal
  BY <1>3 DEF IsCancelled
<1>4. ASSUME NEW d \in Calls, InsertRequest(d) PROVE Goal
  BY <1>3, <1>4 DEF InsertRequest
<1>5. ASSUME NEW d \in Calls, AcquireGlobal(d) \/ AcquireConnection(d) PROVE Goal
  BY <1>2, <1>3, <1>5 DEF AcquireGlobal, AcquireConnection
<1>6. ASSUME NEW d \in Calls, LoadProfile(d) \/ FinishInvalidation(d) PROVE Goal
  BY <1>2, <1>3, <1>6 DEF LoadProfile, FinishInvalidation
<1>7. ASSUME NEW d \in Calls, CancelVictim(d) PROVE Goal
  BY <1>1, <1>7 DEF CancelVictim
<1>8. ASSUME NEW d \in Calls, Authorize(d) PROVE Goal
  BY <1>2, <1>3, <1>8 DEF Authorize
<1>9. ASSUME NEW d \in Calls, ActivateRequest(d) PROVE Goal
  <2>1. CASE \E r : Return(d, r)
    BY <1>2, <1>9, <2>1 DEF ActivateRequest
  <2>2. CASE ctl[d] = "Pending" /\ ctl' = [ctl EXCEPT ![d] = "Active"]
    BY <1>0, <1>9, <2>2 DEF ActivateRequest, IsCancelled
  <2> QED
    BY <1>9, <2>1, <2>2 DEF ActivateRequest
<1>10. ASSUME NEW d \in Calls, ConsumeGrant(d) \/ ReserveIdempotency(d) PROVE Goal
  BY <1>2, <1>3, <1>10 DEF ConsumeGrant, ReserveIdempotency
<1>11. ASSUME NEW d \in Calls, Dispatch(d) PROVE Goal
  BY <1>11 DEF Dispatch, IsCancelled
<1>12. ASSUME NEW d \in Calls, ConnectorStops(d) \/ FinishIdempotency(d) \/ ConnectorCompletes(d)
                               \/ DatabaseApplies(d)
       PROVE  Goal
  BY <1>3, <1>12 DEF ConnectorStops, FinishIdempotency, ConnectorCompletes, DatabaseApplies
<1>13. ASSUME NEW d \in Calls, Conclude(d) PROVE Goal
  BY <1>2, <1>13 DEF Conclude
<1>14. ASSUME NEW i \in Instances, Crash(i) PROVE Goal
  <2>1. pc[c] \notin {"idle", "done"}
    BY DEF CancelInv, Alive
  <2> QED
    BY <1>14, <2>1 DEF Crash, IsCancelled, Ended
<1>15. ASSUME NEW i \in Instances, MonitorStep(i) \/ Restart(i) PROVE Goal
  BY <1>1, <1>3, <1>15
     DEF MonitorStep, MonitorPoll, MonitorInvalidate, MonitorCancel, MonitorDone, Restart
<1>16. ASSUME NEW i \in Instances, NEW n \in Connections, NEW r \in RequestIds, Cancel(i, n, r)
       PROVE  Goal
  BY <1>1, <1>16 DEF Cancel
<1>17. CASE ControlStep \/ Tick
  BY <1>3, <1>17 DEF ControlStep, UpsertProfile, DeleteProfile, NotifyChanged, IssueGrant, Tick
<1>18. CASE UNCHANGED vars
  BY <1>3, <1>18
<1> QED
  BY <1>4, <1>5, <1>6, <1>7, <1>8, <1>9, <1>10, <1>11, <1>12, <1>13, <1>14, <1>15, <1>16,
     <1>17, <1>18 DEF Next, RuntimeStep

\* A cancelled call stays cancelled until it ends, and is not sent any more.
THEOREM CancelFinal == Spec => CancelIsFinal
<1>1. TypeOK /\ CancelInv /\ [Next]_vars =>
         [\A c \in Calls : IsCancelled(c) =>
            (IsCancelled(c) \/ Ended(c))' /\ (c \in dispatched' => c \in dispatched)]_vars
  BY StaysCancelled
<1> QED
  BY <1>1, TypeCorrect, CancelInvariant, PTL DEF Spec, CancelIsFinal

-----------------------------------------------------------------------------
(***************************************************************************)
(* The change monitor.                                                     *)
(***************************************************************************)
LEMMA FreshFrame ==
    ASSUME FreshInv, UNCHANGED <<pc, ctl, snapRev, revision, seen, monTarget, monTodo, monVictims>>
    PROVE  FreshInv'
BY DEF FreshInv, IsCancelled

\* Each half of FreshInv'.
Ordered ==
    \A i \in Instances, n \in Connections :
        seen[i][n] <= monTarget[i][n] /\ monTarget[i][n] <= revision[n]

Guarded(c) ==
    /\ snapRev[c] < seen[Inst(c)][Conn(c)] => IsCancelled(c)
    /\ snapRev[c] < monTarget[Inst(c)][Conn(c)] =>
          \/ IsCancelled(c)
          \/ c \in monVictims[Inst(c)]
          \/ Conn(c) \in monTodo[Inst(c)]

LEMMA FreshParts == FreshInv <=> Ordered /\ \A c \in Calls : pc[c] \in Prepared => Guarded(c)
BY DEF FreshInv, Ordered, Guarded

LEMMA FreshPartsNext ==
    FreshInv' <=> Ordered' /\ \A c \in Calls : pc'[c] \in Prepared => (Guarded(c))'
BY DEF FreshInv, Ordered, Guarded

\* A call moves on, or changes its own cancellation, and loads nothing.
LEMMA FreshCall ==
    ASSUME TypeOK, FreshInv,
           UNCHANGED <<snapRev, revision, seen, monTarget, monTodo, monVictims>>,
           \A c \in Calls : pc'[c] \in Prepared =>
               pc[c] \in Prepared /\ (IsCancelled(c) => (IsCancelled(c))')
    PROVE  FreshInv'
<1>1. Ordered'
  BY FreshParts DEF Ordered
<1>2. \A c \in Calls : pc'[c] \in Prepared => (Guarded(c))'
  BY FreshParts DEF Guarded
<1> QED
  BY <1>1, <1>2, FreshPartsNext

LEMMA FreshStep == TypeOK /\ MapInv /\ CancelInv /\ FreshInv /\ [Next]_vars => FreshInv'
<1> SUFFICES ASSUME TypeOK, MapInv, CancelInv, FreshInv, [Next]_vars PROVE FreshInv'
  OBVIOUS
<1> USE DEF vars, monitorVars, callVars, guardVars, mapVars, processVars, profileVars
<1>0. /\ pc \in [Calls -> Stations] /\ ctl \in [Calls -> RequestState]
      /\ snapRev \in [Calls -> Nat] /\ revision \in [Connections -> Nat]
      /\ seen \in [Instances -> [Connections -> Nat]]
      /\ monTarget \in [Instances -> [Connections -> Nat]]
      /\ monTodo \in [Instances -> SUBSET Connections]
      /\ monVictims \in [Instances -> SUBSET Calls]
  BY DEF TypeOK
<1>a. Ordered /\ \A c \in Calls : pc[c] \in Prepared => Guarded(c)
  BY FreshParts
<1>b. \A c \in Calls : IsCancelled(c) => (IsCancelled(c) \/ Ended(c))'
  BY StaysCancelled
<1>c. \A c \in Calls : pc'[c] \in Prepared => ~(Ended(c))'
  BY DEF Ended, Prepared
<1>1. ASSUME NEW c \in Calls, LoadProfile(c) PROVE FreshInv'
  <2>0. UNCHANGED <<revision, seen, monTarget, monTodo, monVictims>>
    BY <1>1 DEF LoadProfile
  <2>1. \A d \in Calls : d # c => pc'[d] = pc[d] /\ snapRev'[d] = snapRev[d]
    BY <1>0, <1>1 DEF LoadProfile, Return, Goto
  <2>2. pc'[c] \in Prepared => snapRev'[c] = revision[Conn(c)]
    BY <1>0, <1>1 DEF LoadProfile, Return, Goto, Prepared
  <2>3. Ordered'
    BY <1>a, <2>0 DEF Ordered
  <2>4. ASSUME NEW d \in Calls, pc'[d] \in Prepared PROVE (Guarded(d))'
    <3>1. CASE d = c
      <4>1. /\ seen[Inst(c)][Conn(c)] <= revision[Conn(c)]
            /\ monTarget[Inst(c)][Conn(c)] <= revision[Conn(c)]
        <5>1. /\ Inst(c) \in Instances /\ Conn(c) \in Connections
              /\ seen[Inst(c)][Conn(c)] \in Nat /\ monTarget[Inst(c)][Conn(c)] \in Nat
              /\ revision[Conn(c)] \in Nat
          BY <1>0, RequestFacts
        <5> QED
          BY <1>a, <5>1 DEF Ordered
      <4> QED
        BY <1>0, <2>0, <2>2, <2>4, <3>1, <4>1, RequestFacts DEF Guarded
    <3>2. CASE d # c
      BY <1>a, <1>b, <1>c, <2>0, <2>1, <2>4, <3>2 DEF Guarded
    <3> QED
      BY <3>1, <3>2
  <2> QED
    BY <2>3, <2>4, FreshPartsNext
<1>2. ASSUME NEW c \in Calls, InsertRequest(c) \/ RuntimeStep(c) \/ ConnectorCompletes(c),
             ~LoadProfile(c)
      PROVE  FreshInv'
  <2>1. UNCHANGED <<snapRev, revision, seen, monTarget, monTodo, monVictims>>
    BY <1>2
       DEF RuntimeStep, InsertRequest, AcquireGlobal, AcquireConnection, CancelVictim,
           FinishInvalidation, Authorize, ActivateRequest, ConsumeGrant, ReserveIdempotency,
           Dispatch, ConnectorStops, FinishIdempotency, Conclude, ConnectorCompletes
  <2>2. \A d \in Calls : d # c => pc'[d] = pc[d]
    BY <1>2, OthersStay
  <2>3. pc'[c] \in Prepared => pc[c] \in Prepared
    <3> USE DEF Prepared, Return, Settle, Goto
    <3>1. CASE InsertRequest(c) \/ AcquireGlobal(c) \/ AcquireConnection(c)
      BY <1>0, <3>1 DEF InsertRequest, AcquireGlobal, AcquireConnection
    <3>2. CASE CancelVictim(c) \/ FinishInvalidation(c) \/ Authorize(c) \/ ActivateRequest(c)
      BY <1>0, <3>2 DEF CancelVictim, FinishInvalidation, Authorize, ActivateRequest
    <3>3. CASE ConsumeGrant(c) \/ ReserveIdempotency(c) \/ Dispatch(c)
      BY <1>0, <3>3 DEF ConsumeGrant, ReserveIdempotency, Dispatch
    <3>4. CASE ConnectorStops(c) \/ FinishIdempotency(c) \/ Conclude(c) \/ ConnectorCompletes(c)
      BY <1>0, <3>4 DEF ConnectorStops, FinishIdempotency, Conclude, ConnectorCompletes
    <3> QED
      BY <1>2, <3>1, <3>2, <3>3, <3>4 DEF RuntimeStep
  <2> QED
    BY <1>b, <1>c, <2>1, <2>2, <2>3, FreshCall
<1>3. ASSUME NEW i \in Instances, MonitorPoll(i) PROVE FreshInv'
  <2>1. /\ UNCHANGED <<pc, ctl, snapRev, revision, seen, monVictims>>
        /\ monTarget[i] = seen[i]
        /\ monTarget'[i] = revision
        /\ monTodo'[i] = {n \in Connections : revision[n] # seen[i][n]}
        /\ \A j \in Instances : j # i => monTarget'[j] = monTarget[j] /\ monTodo'[j] = monTodo[j]
    BY <1>0, <1>3 DEF MonitorPoll, MonitorIdle
  <2>2. Ordered'
    <3> SUFFICES ASSUME NEW j \in Instances, NEW n \in Connections
                 PROVE  seen[j][n] <= monTarget'[j][n] /\ monTarget'[j][n] <= revision[n]
      BY <2>1 DEF Ordered
    <3>1. seen[j][n] \in Nat /\ monTarget[j][n] \in Nat /\ revision[n] \in Nat
      BY <1>0
    <3>2. seen[j][n] <= monTarget[j][n] /\ monTarget[j][n] <= revision[n]
      BY <1>a DEF Ordered
    <3> QED
      BY <2>1, <3>1, <3>2
  <2>3. ASSUME NEW c \in Calls, pc'[c] \in Prepared PROVE (Guarded(c))'
    <3>1. Guarded(c) /\ Inst(c) \in Instances /\ Conn(c) \in Connections
      BY <1>a, <2>1, <2>3, RequestFacts
    <3>2. CASE Inst(c) = i
      BY <2>1, <3>1, <3>2 DEF Guarded, IsCancelled
    <3>3. CASE Inst(c) # i
      BY <2>1, <3>1, <3>3 DEF Guarded, IsCancelled
    <3> QED
      BY <3>2, <3>3
  <2> QED
    BY <2>2, <2>3, FreshPartsNext
<1>4. ASSUME NEW i \in Instances, NEW n \in Connections, MonitorInvalidate(i, n) PROVE FreshInv'
  <2>1. /\ UNCHANGED <<pc, ctl, snapRev, revision, seen, monTarget, requests>>
        /\ monTodo' = [monTodo EXCEPT ![i] = @ \ {n}]
        /\ monVictims' = [monVictims EXCEPT ![i] = @ \cup ActiveOn(i, n)]
    BY <1>4 DEF MonitorInvalidate
  <2>2. Ordered'
    BY <1>a, <2>1 DEF Ordered
  <2>3. ASSUME NEW c \in Calls, pc'[c] \in Prepared PROVE (Guarded(c))'
    <3>1. Guarded(c) /\ Inst(c) \in Instances /\ Conn(c) \in Connections
      BY <1>a, <2>1, <2>3, RequestFacts
    <3>2. Inst(c) = i /\ Conn(c) = n => c \in ActiveOn(i, n)
      BY <2>1, <2>3 DEF MapInv, Alive, ActiveOn, Prepared
    <3>3. /\ c \in monVictims[Inst(c)] => c \in monVictims'[Inst(c)]
          /\ Conn(c) \in monTodo[Inst(c)] =>
                Conn(c) \in monTodo'[Inst(c)] \/ c \in monVictims'[Inst(c)]
      BY <1>0, <2>1, <3>1, <3>2
    <3> QED
      BY <2>1, <3>1, <3>3 DEF Guarded, IsCancelled
  <2> QED
    BY <2>2, <2>3, FreshPartsNext
<1>5. ASSUME NEW i \in Instances, MonitorCancel(i) PROVE FreshInv'
  <2>1. PICK d \in monVictims[i] : /\ RequestCancel(d)
                                   /\ monVictims' = [monVictims EXCEPT ![i] = @ \ {d}]
    BY <1>5 DEF MonitorCancel
  <2>2. UNCHANGED <<pc, snapRev, revision, seen, monTarget, monTodo>>
    BY <1>5 DEF MonitorCancel
  <2>3. Ordered'
    BY <1>a, <2>2 DEF Ordered
  <2>4. ASSUME NEW c \in Calls, pc'[c] \in Prepared PROVE (Guarded(c))'
    <3>1. Guarded(c) /\ Inst(c) \in Instances
      BY <1>a, <2>2, <2>4, RequestFacts
    <3>2. IsCancelled(c) \/ c = d => (IsCancelled(c))'
      BY <1>0, <2>1, <2>2, <2>4 DEF RequestCancel, IsCancelled, Prepared
    <3>3. c # d /\ c \in monVictims[Inst(c)] => c \in monVictims'[Inst(c)]
      BY <1>0, <2>1, <3>1
    <3> QED
      BY <2>2, <3>1, <3>2, <3>3 DEF Guarded
  <2> QED
    BY <2>3, <2>4, FreshPartsNext
<1>6. ASSUME NEW i \in Instances, MonitorDone(i) PROVE FreshInv'
  <2>1. /\ UNCHANGED <<pc, ctl, snapRev, revision, monTarget, monTodo, monVictims>>
        /\ seen' = [seen EXCEPT ![i] = monTarget[i]]
        /\ monTodo[i] = {} /\ monVictims[i] = {}
    BY <1>6 DEF MonitorDone
  <2>2. Ordered'
    <3> SUFFICES ASSUME NEW j \in Instances, NEW n \in Connections
                 PROVE  seen'[j][n] <= monTarget[j][n] /\ monTarget[j][n] <= revision[n]
      BY <2>1 DEF Ordered
    <3>1. seen[j][n] <= monTarget[j][n] /\ monTarget[j][n] <= revision[n]
      BY <1>a DEF Ordered
    <3> QED
      BY <1>0, <2>1, <3>1
  <2>3. ASSUME NEW c \in Calls, pc'[c] \in Prepared PROVE (Guarded(c))'
    <3>1. Guarded(c) /\ Inst(c) \in Instances
      BY <1>a, <2>1, <2>3, RequestFacts
    <3>2. seen'[Inst(c)] = IF Inst(c) = i THEN monTarget[i] ELSE seen[Inst(c)]
      BY <1>0, <2>1, <3>1
    <3> QED
      BY <2>1, <3>1, <3>2 DEF Guarded, IsCancelled
  <2> QED
    BY <2>2, <2>3, FreshPartsNext
<1>7. ASSUME NEW i \in Instances, Crash(i) \/ Restart(i) PROVE FreshInv'
  <2>1. /\ UNCHANGED <<snapRev, revision>>
        /\ \A j \in Instances : j # i =>
              /\ seen'[j] = seen[j] /\ monTarget'[j] = monTarget[j]
              /\ monTodo'[j] = monTodo[j] /\ monVictims'[j] = monVictims[j]
        /\ seen'[i] = monTarget'[i] /\ seen'[i] \in {seen[i], revision}
    BY <1>0, <1>7 DEF Crash, Restart
  <2>2. Ordered'
    <3> SUFFICES ASSUME NEW j \in Instances, NEW n \in Connections
                 PROVE  seen'[j][n] <= monTarget'[j][n] /\ monTarget'[j][n] <= revision[n]
      BY <2>1 DEF Ordered
    <3>1. seen[j][n] \in Nat /\ monTarget[j][n] \in Nat /\ revision[n] \in Nat
      BY <1>0
    <3>2. seen[j][n] <= monTarget[j][n] /\ monTarget[j][n] <= revision[n]
      BY <1>a DEF Ordered
    <3> QED
      BY <2>1, <3>1, <3>2
  <2>3. ASSUME NEW c \in Calls, pc'[c] \in Prepared PROVE (Guarded(c))'
    <3>1. Inst(c) \in Instances /\ Inst(c) # i /\ pc[c] \in Prepared /\ ctl'[c] = ctl[c]
      <4>1. Inst(c) \in Instances
        BY RequestFacts
      <4>2. CASE Crash(i)
        BY <2>3, <4>1, <4>2 DEF Crash, Prepared
      <4>3. CASE Restart(i)
        BY <2>3, <4>1, <4>3 DEF Restart, MapInv, Alive, Prepared
      <4> QED
        BY <1>7, <4>2, <4>3
    <3> QED
      BY <1>a, <2>1, <3>1 DEF Guarded, IsCancelled
  <2> QED
    BY <2>2, <2>3, FreshPartsNext
<1>8. ASSUME NEW i \in Instances, NEW n \in Connections, NEW r \in RequestIds, Cancel(i, n, r)
      PROVE  FreshInv'
  BY <1>8, <1>b, <1>c, FreshCall DEF Cancel
<1>9. ASSUME NEW n \in Connections, BumpRevision(n),
             UNCHANGED <<pc, ctl, snapRev, seen, monTarget, monTodo, monVictims>>
      PROVE  FreshInv'
  <2>1. Ordered'
    <3> SUFFICES ASSUME NEW j \in Instances, NEW m \in Connections
                 PROVE  seen[j][m] <= monTarget[j][m] /\ monTarget[j][m] <= revision'[m]
      BY <1>9 DEF Ordered
    <3>1. monTarget[j][m] \in Nat /\ revision[m] \in Nat
      BY <1>0
    <3>2. seen[j][m] <= monTarget[j][m] /\ monTarget[j][m] <= revision[m]
      BY <1>a DEF Ordered
    <3>3. revision'[m] = revision[m] \/ revision'[m] = revision[m] + 1
      BY <1>0, <1>9 DEF BumpRevision
    <3> QED
      BY <3>1, <3>2, <3>3
  <2>2. \A c \in Calls : pc'[c] \in Prepared => (Guarded(c))'
    BY <1>a, <1>9 DEF Guarded, IsCancelled
  <2> QED
    BY <2>1, <2>2, FreshPartsNext
<1>10. CASE ControlStep \/ Tick
  BY <1>9, <1>10, FreshFrame
     DEF ControlStep, UpsertProfile, DeleteProfile, NotifyChanged, IssueGrant, Tick
<1>11. ASSUME NEW c \in Calls, DatabaseApplies(c) PROVE FreshInv'
  BY <1>11, FreshFrame DEF DatabaseApplies
<1>12. CASE UNCHANGED vars
  BY <1>12, FreshFrame
<1> QED
  BY <1>1, <1>2, <1>3, <1>4, <1>5, <1>6, <1>7, <1>8, <1>10, <1>11, <1>12
     DEF Next, MonitorStep

LEMMA FreshInvariant == Spec => []FreshInv
<1>1. Init => FreshInv
  BY DEF Init, FreshInv, Prepared
<1> QED
  BY <1>1, TypeCorrect, MapInvariant, CancelInvariant, FreshStep, PTL DEF Spec

\* A call is sent by Dispatch alone.
LEMMA DispatchedStep ==
    ASSUME [Next]_vars, NEW c \in dispatched' \ dispatched
    PROVE  pc[c] = "ready" /\ ~IsCancelled(c) /\ Dispatch(c)
<1> USE DEF vars, databaseVars
<1>1. ASSUME NEW d \in Calls, InsertRequest(d) PROVE FALSE
  BY <1>1 DEF InsertRequest
<1>2. ASSUME NEW d \in Calls, RuntimeStep(d), ~Dispatch(d) PROVE FALSE
  BY <1>2
     DEF RuntimeStep, AcquireGlobal, AcquireConnection, LoadProfile, CancelVictim,
         FinishInvalidation, Authorize, ActivateRequest, ConsumeGrant, ReserveIdempotency,
         ConnectorStops, FinishIdempotency, Conclude
<1>3. ASSUME NEW d \in Calls, ConnectorCompletes(d) \/ DatabaseApplies(d) PROVE FALSE
  BY <1>3 DEF ConnectorCompletes, DatabaseApplies
<1>4. ASSUME NEW i \in Instances, MonitorStep(i) \/ Crash(i) \/ Restart(i) PROVE FALSE
  BY <1>4 DEF MonitorStep, MonitorPoll, MonitorInvalidate, MonitorCancel, MonitorDone, Crash, Restart
<1>5. ASSUME NEW i \in Instances, NEW n \in Connections, NEW r \in RequestIds, Cancel(i, n, r)
      PROVE  FALSE
  BY <1>5 DEF Cancel
<1>6. ~ControlStep /\ ~Tick
  BY DEF ControlStep, UpsertProfile, DeleteProfile, NotifyChanged, IssueGrant, Tick
<1>7. Next
  OBVIOUS
<1>8. PICK d \in Calls : Dispatch(d)
  BY <1>1, <1>2, <1>3, <1>4, <1>5, <1>6, <1>7 DEF Next
<1>9. d = c
  BY <1>8 DEF Dispatch
<1> QED
  BY <1>8, <1>9 DEF Dispatch

\* A call is never sent on the strength of a profile older than a change that
\* the monitor of its process has acted on.
THEOREM StaleNeverSent == Spec => NoStaleDispatch
<1>1. TypeOK /\ FreshInv /\ [Next]_vars =>
         [\A c \in Calls : c \in dispatched' \ dispatched =>
             snapRev[c] >= seen[Inst(c)][Conn(c)]]_vars
  <2> SUFFICES ASSUME TypeOK, FreshInv, [Next]_vars, NEW c \in Calls,
                      c \in dispatched' \ dispatched
               PROVE  snapRev[c] >= seen[Inst(c)][Conn(c)]
    OBVIOUS
  <2>1. pc[c] = "ready" /\ ~IsCancelled(c)
    BY DispatchedStep
  <2>2. snapRev[c] \in Nat /\ seen[Inst(c)][Conn(c)] \in Nat
    BY RequestFacts DEF TypeOK
  <2> QED
    BY <2>1, <2>2 DEF FreshInv, Prepared
<1> QED
  BY <1>1, TypeCorrect, FreshInvariant, PTL DEF Spec, NoStaleDispatch

-----------------------------------------------------------------------------

(***************************************************************************)
(* Grants.  A grant that was spent stays in the table of nonces until it   *)
(* has expired, and an expired grant is refused: so it is spent once.      *)
(***************************************************************************)
\* A write that was let through holds an issued grant.
GrantHeld ==
    \A c \in Calls :
        /\ IsWrite(c) /\ pc[c] \in {"authorized", "active"} => Grant(c) \in issued
        /\ pc[c] \in {"active", "granted"} => IsWrite(c)
        /\ IsWrite(c) /\ (pc[c] \in {"granted", "ready"} \/ c \in dispatched) => c \in spent

Recorded(c) ==
    /\ Grant(c) \in issued
    /\ \/ [grant |-> Grant(c), expires |-> grantExpires[Grant(c)]] \in nonces
       \/ grantExpires[Grant(c)] <= now

GrantInv ==
    /\ GrantHeld
    /\ \A c \in spent : Recorded(c)
    /\ \A c, d \in spent : Grant(c) = Grant(d) => c = d

LEMMA GrantFrame ==
    ASSUME GrantInv, UNCHANGED <<pc, issued, grantExpires, nonces, now, spent, dispatched>>
    PROVE  GrantInv'
BY DEF GrantInv, GrantHeld, Recorded

\* A call moves without changing any table; it enters no station that needs a grant.
LEMMA GrantCall ==
    ASSUME GrantInv, UNCHANGED <<issued, grantExpires, nonces, now, spent, dispatched>>,
           \A c \in Calls : pc'[c] = pc[c] \/ pc'[c] \notin {"authorized", "active", "granted", "ready"}
    PROVE  GrantInv'
<1>1. GrantHeld'
  BY DEF GrantInv, GrantHeld
<1>2. \A c \in spent' : (Recorded(c))'
  BY DEF GrantInv, Recorded
<1> QED
  BY <1>1, <1>2 DEF GrantInv

LEMMA GrantStep == TypeOK /\ GrantNamed /\ GrantInv /\ [Next]_vars => GrantInv'
<1> SUFFICES ASSUME TypeOK, GrantNamed, GrantInv, [Next]_vars PROVE GrantInv'
  OBVIOUS
<1> USE DEF vars, profileVars, storeVars, databaseVars
<1>0. /\ pc \in [Calls -> Stations] /\ spent \subseteq Calls /\ dispatched \subseteq Calls
      /\ issued \subseteq Grants /\ grantExpires \in [Grants -> Nat] /\ now \in Nat
      /\ nonces \subseteq [grant : Grants, expires : Nat]
  BY DEF TypeOK
<1>1. ASSUME NEW c \in Calls, InsertRequest(c) \/ AcquireGlobal(c) \/ AcquireConnection(c)
      PROVE  GrantInv'
  BY <1>0, <1>1, GrantCall DEF InsertRequest, AcquireGlobal, AcquireConnection, Return, Goto
<1>2. ASSUME NEW c \in Calls, LoadProfile(c) \/ CancelVictim(c) \/ FinishInvalidation(c)
      PROVE  GrantInv'
  BY <1>0, <1>2, GrantCall DEF LoadProfile, CancelVictim, FinishInvalidation, Return, Goto
<1>3. ASSUME NEW c \in Calls, Authorize(c) PROVE GrantInv'
  <2>0. UNCHANGED <<issued, grantExpires, nonces, now, spent, dispatched>>
    BY <1>3 DEF Authorize
  <2>1. CASE Goto(c, "authorized") /\ (IsWrite(c) => Grant(c) \in issued)
    <3>1. GrantHeld'
      BY <1>0, <2>0, <2>1 DEF GrantInv, GrantHeld, Goto
    <3>2. \A d \in spent' : (Recorded(d))'
      BY <2>0 DEF GrantInv, Recorded
    <3> QED
      BY <2>0, <3>1, <3>2 DEF GrantInv
  <2>2. CASE Goto(c, "done")
    BY <1>0, <2>0, <2>2, GrantCall DEF Goto
  <2> QED
    BY <1>3, <2>1, <2>2 DEF Authorize, GrantVerifies, Return
<1>4. ASSUME NEW c \in Calls, ActivateRequest(c) PROVE GrantInv'
  <2>0. UNCHANGED <<issued, grantExpires, nonces, now, spent, dispatched>> /\ pc[c] = "authorized"
    BY <1>4 DEF ActivateRequest
  <2>1. CASE Goto(c, IF IsWrite(c) THEN "active" ELSE "ready")
    <3>1. GrantHeld'
      BY <1>0, <2>0, <2>1 DEF GrantInv, GrantHeld, Goto
    <3>2. \A d \in spent' : (Recorded(d))'
      BY <2>0 DEF GrantInv, Recorded
    <3> QED
      BY <2>0, <3>1, <3>2 DEF GrantInv
  <2>2. CASE Goto(c, "done")
    BY <1>0, <2>0, <2>2, GrantCall DEF Goto
  <2> QED
    BY <1>4, <2>1, <2>2 DEF ActivateRequest, Return
<1>5. ASSUME NEW c \in Calls, ConsumeGrant(c) PROVE GrantInv'
  <2>0. /\ UNCHANGED <<issued, grantExpires, now, dispatched>>
        /\ pc[c] = "active" /\ IsWrite(c) /\ Grant(c) \in issued /\ Grant(c) \in Grants
    BY <1>5 DEF ConsumeGrant, GrantInv, GrantHeld, GrantNamed
  <2>1. CASE Goto(c, "done") /\ UNCHANGED <<nonces, spent>>
    BY <1>0, <2>0, <2>1, GrantCall DEF Goto
  <2>2. CASE ConsumeGrantNonce(Grant(c), grantExpires[Grant(c)], now)
    <3>1. LiveNonces(now) \subseteq nonces'
      BY <2>2 DEF ConsumeGrantNonce
    <3>2. ASSUME NEW d \in spent PROVE (Recorded(d))'
      <4>1. Recorded(d) /\ Grant(d) \in Grants /\ grantExpires[Grant(d)] \in Nat
        BY <1>0 DEF GrantInv, Recorded
      <4>2. CASE grantExpires[Grant(d)] <= now
        BY <2>0, <4>1, <4>2 DEF Recorded
      <4>3. CASE /\ grantExpires[Grant(d)] > now
                 /\ [grant |-> Grant(d), expires |-> grantExpires[Grant(d)]] \in nonces
        <5>1. [grant |-> Grant(d), expires |-> grantExpires[Grant(d)]] \in LiveNonces(now)
          BY <4>3 DEF LiveNonces
        <5> QED
          BY <2>0, <3>1, <4>1, <5>1 DEF Recorded
      <4> QED
        BY <1>0, <4>1, <4>2, <4>3 DEF Recorded
    <3>3. CASE GrantNonceConsumption(Grant(c), grantExpires[Grant(c)], now) # "Consumed"
      <4>1. Goto(c, "done") /\ UNCHANGED spent
        BY <1>5, <2>2, <3>3 DEF ConsumeGrant, Return
      <4>2. GrantHeld'
        BY <1>0, <2>0, <4>1 DEF GrantInv, GrantHeld, Goto
      <4> QED
        BY <3>2, <4>1, <4>2 DEF GrantInv
    <3>4. CASE GrantNonceConsumption(Grant(c), grantExpires[Grant(c)], now) = "Consumed"
      <4>1. /\ grantExpires[Grant(c)] > now
            /\ ~\E row \in LiveNonces(now) : row.grant = Grant(c)
        BY <1>0, <2>0, <3>4 DEF GrantNonceConsumption
      <4>2. \A d \in spent : Grant(d) # Grant(c)
        <5> SUFFICES ASSUME NEW d \in spent, Grant(d) = Grant(c) PROVE FALSE
          OBVIOUS
        <5>1. [grant |-> Grant(d), expires |-> grantExpires[Grant(d)]] \in nonces
          BY <1>0, <2>0, <4>1 DEF GrantInv, Recorded
        <5>2. [grant |-> Grant(d), expires |-> grantExpires[Grant(d)]] \in LiveNonces(now)
          BY <4>1, <5>1 DEF LiveNonces
        <5> QED
          BY <4>1, <5>2
      <4>3. CASE spent' = spent \cup {c} /\ Goto(c, IF Key(c) = NoKey THEN "ready" ELSE "granted")
        <5>1. GrantHeld'
          BY <1>0, <2>0, <4>3 DEF GrantInv, GrantHeld, Goto
        <5>2. (Recorded(c))'
          BY <2>0, <2>2, <3>4 DEF Recorded, ConsumeGrantNonce
        <5>3. \A d, e \in spent' : Grant(d) = Grant(e) => d = e
          BY <4>2, <4>3 DEF GrantInv
        <5> QED
          BY <3>2, <4>3, <5>1, <5>2, <5>3 DEF GrantInv
      <4>4. CASE spent' = spent /\ Goto(c, "done")
        <5>1. GrantHeld'
          BY <1>0, <2>0, <4>4 DEF GrantInv, GrantHeld, Goto
        <5> QED
          BY <3>2, <4>4, <5>1 DEF GrantInv
      <4> QED
        BY <1>5, <3>4, <4>3, <4>4 DEF ConsumeGrant, Return
    <3> QED
      BY <3>3, <3>4
  <2> QED
    BY <1>5, <2>1, <2>2 DEF ConsumeGrant, Return
<1>6. ASSUME NEW c \in Calls, ReserveIdempotency(c) PROVE GrantInv'
  <2>0. UNCHANGED <<issued, grantExpires, nonces, now, spent, dispatched>> /\ pc[c] = "granted"
    BY <1>6 DEF ReserveIdempotency
  <2>1. Goto(c, "ready") \/ Goto(c, "done")
    BY <1>6 DEF ReserveIdempotency, Return
  <2>2. GrantHeld'
    BY <1>0, <2>0, <2>1 DEF GrantInv, GrantHeld, Goto
  <2>3. \A d \in spent' : (Recorded(d))'
    BY <2>0 DEF GrantInv, Recorded
  <2> QED
    BY <2>0, <2>2, <2>3 DEF GrantInv
<1>7. ASSUME NEW c \in Calls, Dispatch(c) PROVE GrantInv'
  <2>0. /\ UNCHANGED <<issued, grantExpires, nonces, now, spent>> /\ pc[c] = "ready"
        /\ dispatched' \subseteq dispatched \cup {c}
    BY <1>7 DEF Dispatch
  <2>1. Goto(c, "running") \/ Goto(c, "settled")
    BY <1>7 DEF Dispatch, Settle
  <2>2. GrantHeld'
    BY <1>0, <2>0, <2>1 DEF GrantInv, GrantHeld, Goto
  <2>3. \A d \in spent' : (Recorded(d))'
    BY <2>0 DEF GrantInv, Recorded
  <2> QED
    BY <2>0, <2>2, <2>3 DEF GrantInv
<1>8. ASSUME NEW c \in Calls, ConnectorStops(c) \/ FinishIdempotency(c) \/ Conclude(c)
                              \/ ConnectorCompletes(c) \/ DatabaseApplies(c)
      PROVE  GrantInv'
  <2>1. UNCHANGED <<issued, grantExpires, nonces, now, spent, dispatched>>
    BY <1>8 DEF ConnectorStops, FinishIdempotency, Conclude, ConnectorCompletes, DatabaseApplies
  <2>2. pc' = pc \/ Goto(c, "settled") \/ Goto(c, "concluding") \/ Goto(c, "done")
    BY <1>8 DEF ConnectorStops, FinishIdempotency, Conclude, ConnectorCompletes, DatabaseApplies,
                Settle, Return
  <2>3. \A d \in Calls : pc'[d] = pc[d] \/ pc'[d] \in {"settled", "concluding", "done"}
    BY <1>0, <2>2 DEF Goto
  <2> QED
    BY <2>1, <2>3, GrantCall
<1>9. ASSUME NEW i \in Instances, Crash(i) PROVE GrantInv'
  BY <1>9, GrantCall DEF Crash
<1>10. ASSUME NEW i \in Instances, MonitorStep(i) \/ Restart(i) PROVE GrantInv'
  BY <1>10, GrantFrame
     DEF MonitorStep, MonitorPoll, MonitorInvalidate, MonitorCancel, MonitorDone, Restart
<1>11. ASSUME NEW i \in Instances, NEW n \in Connections, NEW r \in RequestIds, Cancel(i, n, r)
       PROVE  GrantInv'
  BY <1>11, GrantFrame DEF Cancel
<1>12. ASSUME NEW g \in Grants, IssueGrant(g) PROVE GrantInv'
  <2>1. /\ UNCHANGED <<pc, nonces, now, spent, dispatched>>
        /\ g \notin issued /\ issued' = issued \cup {g}
        /\ \A h \in Grants : h # g => grantExpires'[h] = grantExpires[h]
    BY <1>0, <1>12 DEF IssueGrant
  <2>2. GrantHeld'
    BY <2>1 DEF GrantInv, GrantHeld
  <2>3. \A d \in spent' : (Recorded(d))'
    BY <1>0, <2>1 DEF GrantInv, Recorded
  <2> QED
    BY <2>1, <2>2, <2>3 DEF GrantInv
<1>13. ASSUME NEW n \in Connections, UpsertProfile(n) \/ DeleteProfile(n) \/ NotifyChanged(n)
       PROVE  GrantInv'
  BY <1>13, GrantFrame DEF UpsertProfile, DeleteProfile, NotifyChanged
<1>14. CASE Tick
  <2>1. UNCHANGED <<pc, issued, grantExpires, nonces, spent, dispatched>> /\ now' = now + 1
    BY <1>14 DEF Tick
  <2>2. \A d \in spent' : (Recorded(d))'
    BY <1>0, <2>1 DEF GrantInv, Recorded
  <2> QED
    BY <2>1, <2>2 DEF GrantInv, GrantHeld
<1>15. CASE UNCHANGED vars
  BY <1>15, GrantFrame
<1> QED
  BY <1>1, <1>2, <1>3, <1>4, <1>5, <1>6, <1>7, <1>8, <1>9, <1>10, <1>11, <1>12, <1>13, <1>14,
     <1>15 DEF Next, RuntimeStep, ControlStep

\* A grant lets one write through to a connector, in whichever processes and
\* however often it is presented.
THEOREM GrantOnce == Spec => []GrantUsedOnce
<1>1. Init => GrantNamed /\ GrantInv
  BY DEF Init, GrantNamed, GrantInv, GrantHeld
<1>2. TypeOK /\ GrantInv => GrantUsedOnce
  <2> SUFFICES ASSUME TypeOK, GrantInv, NEW c \in dispatched, NEW d \in dispatched,
                      Grant(c) # NoGrant, Grant(c) = Grant(d)
               PROVE  c = d
    BY DEF GrantUsedOnce
  <2>1. c \in Calls /\ d \in Calls
    BY DEF TypeOK
  <2>2. IsWrite(c) /\ IsWrite(d)
    BY <2>1, RequestFacts
  <2> QED
    BY <2>1, <2>2 DEF GrantInv, GrantHeld
<1> QED
  BY <1>1, <1>2, TypeCorrect, GrantNamedStep, GrantStep, PTL DEF Spec

-----------------------------------------------------------------------------
(***************************************************************************)
(* Permits.  Only finitely many calls hold one, so that the permits in use *)
(* can be counted.                                                         *)
(***************************************************************************)
Held ==
    /\ globalHolders = {c \in Calls : pc[c] \in HoldsGlobal}
    /\ connHolders = {c \in Calls : pc[c] \in HoldsConnection}

Limited ==
    /\ IsFiniteSet(globalHolders) /\ IsFiniteSet(connHolders)
    /\ \A i \in Instances :
          /\ Cardinality(GlobalInUse(i)) <= GlobalLimit
          /\ \A n \in Connections : Cardinality(ConnectionInUse(i, n)) <= ConnectionLimit

LEMMA Fewer ==
    ASSUME NEW S, NEW T, IsFiniteSet(S), T \subseteq S, NEW k \in Nat, Cardinality(S) <= k
    PROVE  IsFiniteSet(T) /\ Cardinality(T) <= k
<1>1. IsFiniteSet(T) /\ Cardinality(T) <= Cardinality(S)
  BY FS_Subset
<1>2. Cardinality(T) \in Nat /\ Cardinality(S) \in Nat
  BY <1>1, FS_CardinalityType
<1> QED
  BY <1>1, <1>2

LEMMA InUseFinite ==
    ASSUME Limited, NEW i \in Instances, NEW n \in Connections
    PROVE  IsFiniteSet(GlobalInUse(i)) /\ IsFiniteSet(ConnectionInUse(i, n))
<1>1. GlobalInUse(i) \subseteq globalHolders /\ ConnectionInUse(i, n) \subseteq connHolders
  BY DEF GlobalInUse, ConnectionInUse
<1> QED
  BY <1>1, FS_Subset DEF Limited

\* Permits are given back.
LEMMA LimitedFewer ==
    ASSUME Limited, globalHolders' \subseteq globalHolders, connHolders' \subseteq connHolders
    PROVE  Limited'
<1>1. IsFiniteSet(globalHolders') /\ IsFiniteSet(connHolders')
  BY FS_Subset DEF Limited
<1>2. ASSUME NEW i \in Instances PROVE Cardinality((GlobalInUse(i))') <= GlobalLimit
  <2>1. (GlobalInUse(i))' \subseteq GlobalInUse(i)
    BY DEF GlobalInUse
  <2>2. GlobalInUse(i) \subseteq globalHolders
    BY DEF GlobalInUse
  <2>3. IsFiniteSet(GlobalInUse(i))
    BY <2>2, FS_Subset DEF Limited
  <2>4. Cardinality(GlobalInUse(i)) <= GlobalLimit /\ GlobalLimit \in Nat
    BY RuntimeAssumption DEF Limited
  <2> QED
    BY <2>1, <2>3, <2>4, Fewer
<1>3. ASSUME NEW i \in Instances, NEW n \in Connections
      PROVE  Cardinality((ConnectionInUse(i, n))') <= ConnectionLimit
  <2>1. (ConnectionInUse(i, n))' \subseteq ConnectionInUse(i, n)
    BY DEF ConnectionInUse
  <2>2. IsFiniteSet(ConnectionInUse(i, n))
    BY InUseFinite
  <2>3. Cardinality(ConnectionInUse(i, n)) <= ConnectionLimit /\ ConnectionLimit \in Nat
    BY RuntimeAssumption DEF Limited
  <2> QED
    BY <2>1, <2>2, <2>3, Fewer
<1> QED
  BY <1>1, <1>2, <1>3 DEF Limited

\* A permit is taken from a semaphore that has one.
LEMMA LimitedGlobal ==
    ASSUME Limited, NEW c \in Calls, globalHolders' = globalHolders \cup {c},
           UNCHANGED connHolders, Cardinality(GlobalInUse(Inst(c))) < GlobalLimit
    PROVE  Limited'
<1>1. IsFiniteSet(globalHolders') /\ IsFiniteSet(connHolders')
  BY FS_AddElement DEF Limited
<1>2. ASSUME NEW i \in Instances PROVE Cardinality((GlobalInUse(i))') <= GlobalLimit
  <2>1. GlobalInUse(i) \subseteq globalHolders
    BY DEF GlobalInUse
  <2>2. IsFiniteSet(GlobalInUse(i)) /\ Cardinality(GlobalInUse(i)) \in Nat
    BY <2>1, FS_Subset, FS_CardinalityType DEF Limited
  <2>3. CASE i = Inst(c)
    <3>1. (GlobalInUse(i))' = GlobalInUse(i) \cup {c}
      BY <2>3 DEF GlobalInUse
    <3>2. Cardinality(GlobalInUse(i) \cup {c}) =
             IF c \in GlobalInUse(i) THEN Cardinality(GlobalInUse(i))
                                     ELSE Cardinality(GlobalInUse(i)) + 1
      BY <2>2, FS_AddElement
    <3>3. Cardinality(GlobalInUse(i) \cup {c}) \in Nat
      BY <2>2, FS_AddElement, FS_CardinalityType
    <3> QED
      BY <2>2, <2>3, <3>1, <3>2, <3>3, RuntimeAssumption
  <2>4. CASE i # Inst(c)
    <3>1. (GlobalInUse(i))' = GlobalInUse(i)
      BY <2>4 DEF GlobalInUse
    <3> QED
      BY <3>1 DEF Limited
  <2> QED
    BY <2>3, <2>4
<1>3. \A i \in Instances, n \in Connections : (ConnectionInUse(i, n))' = ConnectionInUse(i, n)
  BY DEF ConnectionInUse
<1> QED
  BY <1>1, <1>2, <1>3 DEF Limited

LEMMA LimitedConnection ==
    ASSUME Limited, NEW c \in Calls, connHolders' = connHolders \cup {c},
           UNCHANGED globalHolders,
           Cardinality(ConnectionInUse(Inst(c), Conn(c))) < ConnectionLimit
    PROVE  Limited'
<1>1. IsFiniteSet(globalHolders') /\ IsFiniteSet(connHolders')
  BY FS_AddElement DEF Limited
<1>2. ASSUME NEW i \in Instances, NEW n \in Connections
      PROVE  Cardinality((ConnectionInUse(i, n))') <= ConnectionLimit
  <2>1. IsFiniteSet(ConnectionInUse(i, n)) /\ Cardinality(ConnectionInUse(i, n)) \in Nat
    BY InUseFinite, FS_CardinalityType
  <2>2. CASE i = Inst(c) /\ n = Conn(c)
    <3>1. (ConnectionInUse(i, n))' = ConnectionInUse(i, n) \cup {c}
      BY <2>2 DEF ConnectionInUse
    <3>2. Cardinality(ConnectionInUse(i, n) \cup {c}) =
             IF c \in ConnectionInUse(i, n) THEN Cardinality(ConnectionInUse(i, n))
                                            ELSE Cardinality(ConnectionInUse(i, n)) + 1
      BY <2>1, FS_AddElement
    <3>3. Cardinality(ConnectionInUse(i, n) \cup {c}) \in Nat
      BY <2>1, FS_AddElement, FS_CardinalityType
    <3> QED
      BY <2>1, <2>2, <3>1, <3>2, <3>3, RuntimeAssumption
  <2>3. CASE ~(i = Inst(c) /\ n = Conn(c))
    <3>1. (ConnectionInUse(i, n))' = ConnectionInUse(i, n)
      BY <2>3 DEF ConnectionInUse
    <3> QED
      BY <3>1 DEF Limited
  <2> QED
    BY <2>2, <2>3
<1>3. \A i \in Instances : (GlobalInUse(i))' = GlobalInUse(i)
  BY DEF GlobalInUse
<1> QED
  BY <1>1, <1>2, <1>3 DEF Limited

\* No call starts or stops to hold a permit.
LEMMA PermitFrame ==
    ASSUME Held, Limited, UNCHANGED <<globalHolders, connHolders>>,
           \A c \in Calls : /\ pc'[c] \in HoldsGlobal <=> pc[c] \in HoldsGlobal
                            /\ pc'[c] \in HoldsConnection <=> pc[c] \in HoldsConnection
    PROVE  Held' /\ Limited'
<1>1. Held'
  BY DEF Held
<1> QED
  BY <1>1, LimitedFewer

LEMMA PermitReturn ==
    ASSUME TypeOK, Held, Limited, NEW c \in Calls, NEW r, Return(c, r)
    PROVE  Held' /\ Limited'
<1>1. /\ pc \in [Calls -> Stations] /\ pc' = [pc EXCEPT ![c] = "done"]
      /\ globalHolders' = globalHolders \ {c} /\ connHolders' = connHolders \ {c}
  BY DEF TypeOK, Return, Goto
<1>2. Held'
  BY <1>1 DEF Held, HoldsGlobal, HoldsConnection, Stations
<1> QED
  BY <1>1, <1>2, LimitedFewer

LEMMA PermitStep == TypeOK /\ Held /\ Limited /\ [Next]_vars => Held' /\ Limited'
<1> SUFFICES ASSUME TypeOK, Held, Limited, [Next]_vars PROVE Held' /\ Limited'
  OBVIOUS
<1> USE DEF vars, mapVars, guardVars
<1>0. pc \in [Calls -> Stations]
  BY DEF TypeOK
<1>1. ASSUME NEW c \in Calls, InsertRequest(c) PROVE Held' /\ Limited'
  BY <1>0, <1>1, PermitFrame DEF InsertRequest, Goto, HoldsGlobal, HoldsConnection
<1>2. ASSUME NEW c \in Calls, AcquireGlobal(c) PROVE Held' /\ Limited'
  <2>1. CASE /\ Cardinality(GlobalInUse(Inst(c))) < GlobalLimit
             /\ globalHolders' = globalHolders \cup {c}
             /\ Goto(c, "admitted") /\ UNCHANGED connHolders
    <3>1. Held'
      BY <1>0, <1>2, <2>1 DEF AcquireGlobal, Held, Goto, HoldsGlobal, HoldsConnection, Stations
    <3> QED
      BY <2>1, <3>1, LimitedGlobal
  <2> QED
    BY <1>2, <2>1, PermitReturn DEF AcquireGlobal
<1>3. ASSUME NEW c \in Calls, AcquireConnection(c) PROVE Held' /\ Limited'
  <2>1. CASE /\ Cardinality(ConnectionInUse(Inst(c), Conn(c))) < ConnectionLimit
             /\ connHolders' = connHolders \cup {c}
             /\ Goto(c, "reserved") /\ UNCHANGED globalHolders
    <3>1. Held'
      BY <1>0, <1>3, <2>1 DEF AcquireConnection, Held, Goto, HoldsGlobal, HoldsConnection, Stations
    <3> QED
      BY <2>1, <3>1, LimitedConnection
  <2> QED
    BY <1>3, <2>1, PermitReturn DEF AcquireConnection
<1>4. ASSUME NEW c \in Calls, RuntimeStep(c) \/ ConnectorCompletes(c),
             ~AcquireGlobal(c), ~AcquireConnection(c)
      PROVE  Held' /\ Limited'
  <2>1. CASE \E r : Return(c, r)
    BY <2>1, PermitReturn
  <2>2. CASE ~\E r : Return(c, r)
    <3>1. /\ pc[c] \in HoldsConnection /\ UNCHANGED <<globalHolders, connHolders>>
          /\ pc' = pc \/ \E s \in HoldsConnection : Goto(c, s)
      <4> USE DEF HoldsConnection, HoldsGlobal, Stations
      <4>1. CASE LoadProfile(c) \/ CancelVictim(c) \/ FinishInvalidation(c)
        BY <2>2, <4>1 DEF LoadProfile, CancelVictim, FinishInvalidation
      <4>2. CASE Authorize(c) \/ ActivateRequest(c)
        BY <2>2, <4>2 DEF Authorize, ActivateRequest
      <4>3. CASE ConsumeGrant(c) \/ ReserveIdempotency(c)
        BY <2>2, <4>3 DEF ConsumeGrant, ReserveIdempotency
      <4>4. CASE Dispatch(c) \/ ConnectorStops(c) \/ ConnectorCompletes(c)
        BY <4>4 DEF Dispatch, ConnectorStops, ConnectorCompletes, Settle
      <4>5. CASE FinishIdempotency(c) \/ Conclude(c)
        BY <2>2, <4>5 DEF FinishIdempotency, Conclude
      <4> QED
        BY <1>4, <4>1, <4>2, <4>3, <4>4, <4>5 DEF RuntimeStep
    <3>2. \A d \in Calls : /\ pc'[d] \in HoldsGlobal <=> pc[d] \in HoldsGlobal
                           /\ pc'[d] \in HoldsConnection <=> pc[d] \in HoldsConnection
      BY <1>0, <3>1 DEF Goto, HoldsConnection
    <3> QED
      BY <3>1, <3>2, PermitFrame
  <2> QED
    BY <2>1, <2>2
<1>5. ASSUME NEW i \in Instances, Crash(i) PROVE Held' /\ Limited'
  <2>1. Held'
    BY <1>0, <1>5 DEF Crash, Held, HoldsGlobal, HoldsConnection, Stations
  <2>2. globalHolders' \subseteq globalHolders /\ connHolders' \subseteq connHolders
    BY <1>5 DEF Crash
  <2> QED
    BY <2>1, <2>2, LimitedFewer
<1>6. ASSUME NEW c \in Calls, DatabaseApplies(c) PROVE Held' /\ Limited'
  BY <1>6, PermitFrame DEF DatabaseApplies
<1>7. ASSUME NEW i \in Instances, MonitorStep(i) \/ Restart(i) PROVE Held' /\ Limited'
  BY <1>7, PermitFrame
     DEF MonitorStep, MonitorPoll, MonitorInvalidate, MonitorCancel, MonitorDone, Restart
<1>8. ASSUME NEW i \in Instances, NEW n \in Connections, NEW r \in RequestIds, Cancel(i, n, r)
      PROVE  Held' /\ Limited'
  BY <1>8, PermitFrame DEF Cancel
<1>9. CASE ControlStep \/ Tick
  BY <1>9, PermitFrame
     DEF ControlStep, UpsertProfile, DeleteProfile, NotifyChanged, IssueGrant, Tick
<1>10. CASE UNCHANGED vars
  BY <1>10, PermitFrame
<1> QED
  BY <1>1, <1>2, <1>3, <1>4, <1>5, <1>6, <1>7, <1>8, <1>9, <1>10 DEF Next, RuntimeStep

\* The two semaphores are held by exactly the calls between their acquisition
\* and their return, and never beyond their limits.
THEOREM PermitsFollow == Spec => []PermitsFollowCalls
<1>1. Init => Held /\ Limited
  <2> SUFFICES ASSUME Init PROVE Held /\ Limited
    OBVIOUS
  <2>1. Held
    BY DEF Init, Held, HoldsGlobal, HoldsConnection
  <2>2. IsFiniteSet(globalHolders) /\ IsFiniteSet(connHolders)
    BY FS_EmptySet DEF Init
  <2>3. ASSUME NEW i \in Instances PROVE Cardinality(GlobalInUse(i)) <= GlobalLimit
    <3>1. GlobalInUse(i) = {}
      BY DEF Init, GlobalInUse
    <3> QED
      BY <3>1, FS_EmptySet, RuntimeAssumption
  <2>4. ASSUME NEW i \in Instances, NEW n \in Connections
        PROVE  Cardinality(ConnectionInUse(i, n)) <= ConnectionLimit
    <3>1. ConnectionInUse(i, n) = {}
      BY DEF Init, ConnectionInUse
    <3> QED
      BY <3>1, FS_EmptySet, RuntimeAssumption
  <2> QED
    BY <2>1, <2>2, <2>3, <2>4 DEF Limited
<1>2. Held /\ Limited => PermitsFollowCalls
  BY DEF Held, Limited, PermitsFollowCalls
<1> QED
  BY <1>1, <1>2, TypeCorrect, PermitStep, PTL DEF Spec

-----------------------------------------------------------------------------
(***************************************************************************)
(* Audit events.  Many returns leave none; those of a call that has been   *)
(* sent all pass through record_audit, the oversize one excepted.  So the  *)
(* invariant says which calls have not been sent.                          *)
(***************************************************************************)
Unsent == {"idle", "inserted", "admitted", "reserved", "invalidating", "loaded",
           "authorized", "active", "granted", "ready"}

AuditedCall(c) ==
    /\ pc[c] \in Unsent => c \notin dispatched
    /\ c \in dispatched /\ pc[c] = "done" /\ reply[c] # "result_too_large" /\ faults = 0
          => c \in audited

AuditInv == \A c \in Calls : AuditedCall(c)

\* Events stay, failures stay counted: a step matters only to the call that takes it.
LEMMA AuditFrame ==
    ASSUME AuditInv, audited \subseteq audited', faults' = 0 => faults = 0,
           NEW c \in Calls, (AuditedCall(c))',
           \A d \in Calls \ {c} : /\ pc'[d] = pc[d] /\ reply'[d] = reply[d]
                                  /\ d \in dispatched' => d \in dispatched
    PROVE  AuditInv'
BY DEF AuditInv, AuditedCall

\* A call that has not been sent may return with or without an event.
LEMMA AuditUnsent ==
    ASSUME TypeOK, AuditInv, NEW c \in Calls, pc[c] \in Unsent,
           audited \subseteq audited', faults' = 0 => faults = 0, UNCHANGED dispatched,
           pc' = pc \/ \E s \in Stations : Goto(c, s),
           reply' = reply \/ \E r : reply' = [reply EXCEPT ![c] = r]
    PROVE  AuditInv'
<1>1. \A d \in Calls \ {c} : pc'[d] = pc[d] /\ reply'[d] = reply[d]
  BY DEF TypeOK, Goto
<1>2. (AuditedCall(c))'
  BY DEF AuditInv, AuditedCall
<1> QED
  BY <1>1, <1>2, AuditFrame

\* A call that is on its way between the connector and its end.
LEMMA AuditUnderWay ==
    ASSUME TypeOK, AuditInv, NEW c \in Calls, UNCHANGED <<audited, reply>>,
           faults' = 0 => faults = 0, dispatched' \subseteq dispatched \cup {c},
           NEW s \in {"running", "settled", "concluding"}, Goto(c, s)
    PROVE  AuditInv'
<1>1. \A d \in Calls \ {c} : pc'[d] = pc[d]
  BY DEF TypeOK, Goto
<1>2. pc'[c] = s
  BY DEF TypeOK, Goto
<1>3. (AuditedCall(c))'
  BY <1>2 DEF AuditedCall, Unsent
<1> QED
  BY <1>1, <1>3, AuditFrame

LEMMA AuditRecorded ==
    ASSUME TypeOK, NEW c, RecordAudit(c) \/ UNCHANGED <<audited, faults>> \/ (StoreFails /\ UNCHANGED audited)
    PROVE  audited \subseteq audited' /\ (faults' = 0 => faults = 0)
BY DEF TypeOK, RecordAudit, StoreWorks, StoreFails

LEMMA AuditStep == TypeOK /\ AuditInv /\ [Next]_vars => AuditInv'
<1> SUFFICES ASSUME TypeOK, AuditInv, [Next]_vars PROVE AuditInv'
  OBVIOUS
<1> USE DEF vars, storeVars, databaseVars
<1>0. /\ pc \in [Calls -> Stations] /\ reply \in [Calls -> Replies] /\ faults \in Nat
      /\ "done" \in Stations
  BY DEF TypeOK, Stations
<1>1. ASSUME NEW c \in Calls,
             \/ InsertRequest(c) \/ AcquireGlobal(c) \/ AcquireConnection(c)
             \/ LoadProfile(c) \/ CancelVictim(c) \/ FinishInvalidation(c)
             \/ Authorize(c) \/ ActivateRequest(c) \/ ConsumeGrant(c) \/ ReserveIdempotency(c)
      PROVE  AuditInv'
  <2> DEFINE Before == /\ pc[c] \in Unsent /\ UNCHANGED dispatched
                       /\ audited \subseteq audited' /\ (faults' = 0 => faults = 0)
                       /\ pc' = pc \/ \E s \in Stations : Goto(c, s)
                       /\ reply' = reply \/ \E r : reply' = [reply EXCEPT ![c] = r]
  <2> USE DEF Return, Unsent, Stations
  <2>1. ASSUME InsertRequest(c) \/ AcquireGlobal(c) \/ AcquireConnection(c) PROVE Before
    BY <2>1 DEF InsertRequest, AcquireGlobal, AcquireConnection
  <2>2. ASSUME LoadProfile(c) \/ CancelVictim(c) \/ FinishInvalidation(c) PROVE Before
    BY <1>0, <2>2 DEF LoadProfile, CancelVictim, FinishInvalidation, StoreFails
  <2>3. ASSUME Authorize(c) PROVE Before
    BY <2>3, AuditRecorded DEF Authorize
  <2>4. ASSUME ActivateRequest(c) PROVE Before
    BY <1>0, <2>4 DEF ActivateRequest, StoreFails
  <2>5. ASSUME ConsumeGrant(c) PROVE Before
    <3>1. audited \subseteq audited' /\ (faults' = 0 => faults = 0)
      BY <1>0, <2>5, AuditRecorded DEF ConsumeGrant, StoreFails
    <3> QED
      BY <2>5, <3>1 DEF ConsumeGrant
  <2>6. ASSUME ReserveIdempotency(c) PROVE Before
    <3>1. audited \subseteq audited' /\ (faults' = 0 => faults = 0)
      BY <1>0, <2>6, AuditRecorded DEF ReserveIdempotency, StoreFails
    <3> QED
      BY <2>6, <3>1 DEF ReserveIdempotency
  <2>7. Before
    BY <1>1, <2>1, <2>2, <2>3, <2>4, <2>5, <2>6
  <2> QED
    BY <2>7, AuditUnsent
<1>2. ASSUME NEW c \in Calls,
             Dispatch(c) \/ ConnectorStops(c) \/ ConnectorCompletes(c) \/ FinishIdempotency(c)
      PROVE  AuditInv'
  <2>1. UNCHANGED <<audited, reply>> /\ dispatched' \subseteq dispatched \cup {c}
    BY <1>2 DEF Dispatch, ConnectorStops, ConnectorCompletes, FinishIdempotency
  <2>2. faults' = 0 => faults = 0
    BY <1>0, <1>2 DEF Dispatch, ConnectorStops, ConnectorCompletes, FinishIdempotency,
                      StoreWorks, StoreFails
  <2>3. Goto(c, "running") \/ Goto(c, "settled") \/ Goto(c, "concluding")
    BY <1>2 DEF Dispatch, ConnectorStops, ConnectorCompletes, FinishIdempotency, Settle
  <2> QED
    BY <2>1, <2>2, <2>3, AuditUnderWay
<1>3. ASSUME NEW c \in Calls, Conclude(c) PROVE AuditInv'
  <2>1. PICK r : /\ Return(c, r) /\ UNCHANGED dispatched
                 /\ RecordAudit(c) \/ (r = "result_too_large" /\ UNCHANGED <<audited, faults>>)
    BY <1>3 DEF Conclude
  <2>2. audited \subseteq audited' /\ (faults' = 0 => faults = 0)
    BY <2>1, AuditRecorded
  <2>3. /\ pc'[c] = "done" /\ reply'[c] = r
        /\ \A d \in Calls \ {c} : pc'[d] = pc[d] /\ reply'[d] = reply[d]
    BY <1>0, <2>1 DEF Return, Goto
  <2>4. RecordAudit(c) => c \in audited' \/ faults' # 0
    BY <1>0 DEF RecordAudit, StoreFails
  <2>5. (AuditedCall(c))'
    BY <2>1, <2>3, <2>4 DEF AuditedCall, Unsent
  <2> QED
    BY <2>1, <2>2, <2>3, <2>5, AuditFrame
<1>4. ASSUME NEW i \in Instances, Crash(i) PROVE AuditInv'
  <2>1. UNCHANGED <<audited, faults, reply, dispatched>>
    BY <1>4 DEF Crash
  <2>2. \A d \in Calls : pc'[d] = pc[d] \/ pc'[d] = "lost"
    BY <1>4 DEF Crash
  <2> QED
    BY <2>1, <2>2 DEF AuditInv, AuditedCall, Unsent
<1>5. ASSUME UNCHANGED <<audited, faults, reply, dispatched, pc>> PROVE AuditInv'
  BY <1>5 DEF AuditInv, AuditedCall
<1>6. ASSUME NEW i \in Instances, MonitorStep(i) \/ Restart(i) PROVE AuditInv'
  BY <1>5, <1>6 DEF MonitorStep, MonitorPoll, MonitorInvalidate, MonitorCancel, MonitorDone, Restart
<1>7. ASSUME NEW i \in Instances, NEW n \in Connections, NEW r \in RequestIds, Cancel(i, n, r)
      PROVE  AuditInv'
  BY <1>5, <1>7 DEF Cancel
<1>8. ASSUME NEW c \in Calls, DatabaseApplies(c) PROVE AuditInv'
  BY <1>5, <1>8 DEF DatabaseApplies
<1>9. CASE ControlStep \/ Tick
  BY <1>5, <1>9 DEF ControlStep, UpsertProfile, DeleteProfile, NotifyChanged, IssueGrant, Tick
<1>10. CASE UNCHANGED vars
  BY <1>5, <1>10
<1> QED
  BY <1>1, <1>2, <1>3, <1>4, <1>6, <1>7, <1>8, <1>9, <1>10 DEF Next, RuntimeStep

\* A call that was sent to a connector and has returned left an audit event,
\* whichever way it ended, unless the audit store failed or the result was too
\* large: after run_connector_future every return passes through record_audit.
THEOREM SentAudited == Spec => []SentIsAudited
<1>1. Init => AuditInv
  BY DEF Init, StoreInit, AuditInv, AuditedCall
<1>2. TypeOK /\ AuditInv => SentIsAudited
  BY DEF TypeOK, AuditInv, AuditedCall, SentIsAudited
<1> QED
  BY <1>1, <1>2, TypeCorrect, AuditStep, PTL DEF Spec
=============================================================================
