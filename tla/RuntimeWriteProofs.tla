------------------------ MODULE RuntimeWriteProofs --------------------------
(***************************************************************************)
(* Writes with an idempotency key take effect at most once, the table of   *)
(* keys tells the truth about them, and Runtime implements WriteOnce.      *)
(***************************************************************************)
EXTENDS RuntimeProofs

Live(c) == c \in wire \cup applied

Unsent == {"idle", "inserted", "admitted", "reserved", "invalidating", "loaded",
           "authorized", "active", "granted", "ready"}

\* The call owns the in-flight row of its key.
HoldsKey(c) == Key(c) # NoKey /\ pc[c] \in {"ready", "running", "settled"}

\* A call is with a database only if it was sent, and only if it is a write.
SentBefore ==
    \A c \in Calls : Live(c) => pc[c] \notin Unsent /\ IsWrite(c)

\* The row of a key belongs to one call, and that call shares its key with no
\* other call that has been sent.
KeyOwned ==
    \A c \in Calls : HoldsKey(c) =>
        /\ idem[Slot(c)] = [state |-> "in_flight", op |-> Op(c)]
        /\ \A d \in Calls : SameKey(c, d) /\ d # c => ~HoldsKey(d) /\ ~Live(d)

\* AtMostOnce, for the writes that are still on their way too.
SentOnce ==
    \A c, d \in Calls : Live(c) /\ Live(d) /\ SameKey(c, d) => c = d

\* The outcome the runtime acts on is the truth, or "unknown".
OutcomeIsTrue ==
    \A c \in Calls : pc[c] \in {"settled", "concluding"} =>
        /\ outcome[c] \notin {"ok", "unknown"} => ~Live(c)
        /\ outcome[c] = "ok" /\ IsWrite(c) => c \in applied

WriteInv ==
    /\ SentBefore
    /\ KeyOwned
    /\ SentOnce
    /\ OutcomeIsTrue
    /\ KeyIsRemembered
    /\ SucceededIsTrue

\* What the caller of a write has been told.
AnswerIsTrue ==
    \A c \in Calls :
        /\ pc[c] # "done" => reply[c] = "none"
        /\ IsWrite(c) /\ reply[c] \in {"ok", "result_too_large"} => c \in applied
        /\ IsWrite(c) /\ AnswerFor(reply[c]) = "failed" => ~Live(c)

-----------------------------------------------------------------------------
LEMMA SameKeyFacts ==
    ASSUME NEW c \in Calls, NEW d \in Calls, SameKey(c, d)
    PROVE  /\ Key(c) # NoKey /\ Key(d) # NoKey /\ SameKey(d, c)
           /\ Slot(c) = Slot(d) /\ Slot(c) \in Slots
           /\ IsWrite(c) /\ IsWrite(d)
<1>1. Key(c) = Key(d)
  BY DEF SameKey, Slot
<1> QED
  BY <1>1, RequestFacts DEF SameKey

LEMMA OwnedRow ==
    ASSUME WriteInv, NEW c \in Calls, HoldsKey(c)
    PROVE  idem[Slot(c)].state = "in_flight" /\ idem[Slot(c)].op = Op(c)
<1>1. idem[Slot(c)] = [state |-> "in_flight", op |-> Op(c)]
  BY DEF WriteInv, KeyOwned
<1> QED
  BY <1>1

\* A step that touches neither the rows, the databases nor any call's station.
LEMMA WriteFrame ==
    ASSUME WriteInv, UNCHANGED <<idem, pc, outcome, wire, applied>>
    PROVE  WriteInv'
BY DEF WriteInv, SentBefore, KeyOwned, SentOnce, OutcomeIsTrue, KeyIsRemembered,
       SucceededIsTrue, HoldsKey, Live, SameKey

\* A step of a call that has not been sent and takes no row.
LEMMA EarlyStep ==
    ASSUME TypeOK, WriteInv, NEW c \in Calls, NEW s, Goto(c, s),
           UNCHANGED <<idem, outcome, wire, applied>>,
           pc[c] \in Unsent, s \in Unsent \cup {"done"},
           Key(c) = NoKey \/ s # "ready"
    PROVE  WriteInv'
<1>1. pc' = [pc EXCEPT ![c] = s] /\ pc \in [Calls -> Stations]
  BY DEF Goto, TypeOK
<1>2. \A d \in Calls : /\ d # c => pc'[d] = pc[d]
                       /\ (HoldsKey(d))' => HoldsKey(d)
                       /\ (Live(d))' <=> Live(d)
  BY <1>1 DEF HoldsKey, Live, Unsent
<1>3. SentBefore'
  BY <1>1, <1>2 DEF WriteInv, SentBefore, Unsent
<1>4. KeyOwned'
  BY <1>2 DEF WriteInv, KeyOwned, SameKey
<1>5. SentOnce'
  BY <1>2 DEF WriteInv, SentOnce, SameKey
<1>6. OutcomeIsTrue'
  BY <1>1, <1>2 DEF WriteInv, OutcomeIsTrue, Unsent
<1>7. KeyIsRemembered' /\ SucceededIsTrue'
  BY DEF WriteInv, KeyIsRemembered, SucceededIsTrue
<1> QED
  BY <1>3, <1>4, <1>5, <1>6, <1>7 DEF WriteInv

LEMMA ReserveStep ==
    ASSUME TypeOK, WriteInv, NEW c \in Calls, ReserveIdempotency(c)
    PROVE  WriteInv'
<1>1. pc \in [Calls -> Stations] /\ pc[c] = "granted"
      /\ idem \in [Slots -> [state : IdempotencyState, op : Ops \cup {NoOp}]]
  BY DEF TypeOK, ReserveIdempotency
<1>2. UNCHANGED <<outcome, wire, applied>>
  BY DEF ReserveIdempotency, callVars, databaseVars
<1>3. CASE Key(c) = NoKey
  <2>1. Slot(c) \notin Slots
    BY <1>3, RuntimeAssumption DEF Slot, Slots
  <2>2. UNCHANGED idem
    BY <1>1, <2>1 DEF ReserveIdempotency, ReserveIdempotencyRow
  <2>3. Goto(c, "ready") \/ Goto(c, "done")
    BY DEF ReserveIdempotency, Return
  <2> QED
    BY <1>1, <1>2, <1>3, <2>2, <2>3, EarlyStep DEF Unsent
<1>4. CASE Key(c) # NoKey
  <2>1. Slot(c) \in Slots
    BY <1>4, RequestFacts
  <2>2. CASE UNCHANGED idem /\ Goto(c, "done")
    BY <1>1, <1>2, <2>2, EarlyStep DEF Unsent
  <2>3. CASE /\ idem[Slot(c)].state = "absent" /\ Goto(c, "ready")
             /\ idem' = [idem EXCEPT ![Slot(c)] = [state |-> "in_flight", op |-> Op(c)]]
    <3>1. /\ pc' = [pc EXCEPT ![c] = "ready"]
          /\ idem'[Slot(c)] = [state |-> "in_flight", op |-> Op(c)]
          /\ \A s \in Slots : s # Slot(c) => idem'[s] = idem[s]
      BY <1>1, <2>1, <2>3 DEF Goto
    <3>2. \A d \in Calls : /\ d # c => pc'[d] = pc[d]
                           /\ d # c => ((HoldsKey(d))' <=> HoldsKey(d))
                           /\ (Live(d))' <=> Live(d)
      BY <1>1, <1>2, <3>1 DEF HoldsKey, Live
    <3>3. \A d \in Calls : SameKey(c, d) => ~HoldsKey(d) /\ ~Live(d)
      <4> SUFFICES ASSUME NEW d \in Calls, SameKey(c, d) PROVE ~HoldsKey(d) /\ ~Live(d)
        OBVIOUS
      <4>1. Slot(d) = Slot(c) /\ Key(d) # NoKey
        BY SameKeyFacts
      <4>2. ~HoldsKey(d)
        BY <2>3, <4>1, OwnedRow
      <4>3. ~Live(d)
        BY <2>3, <4>1 DEF WriteInv, KeyIsRemembered, Live
      <4> QED
        BY <4>2, <4>3
    <3>4. SentBefore'
      BY <1>1, <3>1, <3>2 DEF WriteInv, SentBefore, Unsent
    <3>5. KeyOwned'
      <4> SUFFICES ASSUME NEW d \in Calls, (HoldsKey(d))'
                   PROVE  /\ idem'[Slot(d)] = [state |-> "in_flight", op |-> Op(d)]
                          /\ \A e \in Calls : SameKey(d, e) /\ e # d =>
                                ~(HoldsKey(e))' /\ ~(Live(e))'
        BY DEF KeyOwned, SameKey
      <4>1. CASE d = c
        BY <3>1, <3>2, <3>3, <4>1
      <4>2. CASE d # c
        <5>1. HoldsKey(d) /\ Key(d) # NoKey /\ Slot(d) \in Slots
          BY <3>2, <4>2, RequestFacts DEF HoldsKey
        <5>2. ~SameKey(d, c) /\ Slot(d) # Slot(c)
          BY <1>4, <3>3, <5>1, SameKeyFacts DEF SameKey
        <5> QED
          BY <3>1, <3>2, <5>1, <5>2 DEF WriteInv, KeyOwned
      <4> QED
        BY <4>1, <4>2
    <3>6. SentOnce'
      BY <3>2 DEF WriteInv, SentOnce, SameKey
    <3>7. OutcomeIsTrue'
      BY <1>1, <1>2, <3>1, <3>2 DEF WriteInv, OutcomeIsTrue
    <3>8. KeyIsRemembered'
      <4> SUFFICES ASSUME NEW d \in Calls, Live(d), Key(d) # NoKey
                   PROVE  idem'[Slot(d)].state # "absent"
        BY <1>2, TypeOK DEF KeyIsRemembered, Live, TypeOK
      <4>1. Slot(d) \in Slots /\ idem[Slot(d)].state # "absent"
        BY RequestFacts DEF WriteInv, KeyIsRemembered, Live
      <4> QED
        BY <3>1, <4>1
    <3>9. SucceededIsTrue'
      BY <1>2, <3>1 DEF WriteInv, SucceededIsTrue
    <3> QED
      BY <3>4, <3>5, <3>6, <3>7, <3>8, <3>9 DEF WriteInv
  <2>4. /\ idem[Slot(c)].state # "Reserved"
    BY <1>1, <2>1 DEF IdempotencyState
  <2> QED
    BY <2>2, <2>3, <2>4
       DEF ReserveIdempotency, ReserveIdempotencyRow, IdempotencyReservation, Return
<1> QED
  BY <1>3, <1>4

LEMMA DispatchStep ==
    ASSUME TypeOK, WriteInv, NEW c \in Calls, Dispatch(c)
    PROVE  WriteInv'
<1>1. /\ pc \in [Calls -> Stations] /\ outcome \in [Calls -> Outcomes]
      /\ pc[c] = "ready" /\ ~Live(c)
  BY DEF TypeOK, Dispatch, WriteInv, SentBefore, Unsent
<1>2. UNCHANGED <<idem, applied>>
  BY DEF Dispatch, storeVars
<1>3. CASE /\ Goto(c, "running") /\ UNCHANGED outcome
           /\ wire' = IF IsWrite(c) THEN wire \cup {c} ELSE wire
  <2>1. pc' = [pc EXCEPT ![c] = "running"]
    BY <1>3 DEF Goto
  <2>2. \A d \in Calls : /\ d # c => pc'[d] = pc[d] /\ ((Live(d))' <=> Live(d))
                         /\ (HoldsKey(d))' <=> HoldsKey(d)
                         /\ (Live(d))' => IsWrite(d) \/ Live(d)
    BY <1>1, <1>2, <1>3, <2>1 DEF HoldsKey, Live
  <2>3. SentBefore'
    BY <1>1, <1>3, <2>1, <2>2 DEF WriteInv, SentBefore, Unsent
  <2>4. \A d \in Calls : SameKey(c, d) /\ d # c => ~HoldsKey(d) /\ ~Live(d)
    BY <1>1, SameKeyFacts DEF WriteInv, KeyOwned, HoldsKey
  <2>5. KeyOwned'
    BY <1>2, <2>2, <2>4, SameKeyFacts DEF WriteInv, KeyOwned, SameKey
  <2>6. SentOnce'
    BY <2>2, <2>4, SameKeyFacts DEF WriteInv, SentOnce, SameKey
  <2>7. OutcomeIsTrue'
    BY <1>1, <1>2, <1>3, <2>1, <2>2 DEF WriteInv, OutcomeIsTrue
  <2>8. KeyIsRemembered'
    <3>1. Key(c) # NoKey => idem[Slot(c)].state # "absent"
      BY <1>1, OwnedRow DEF HoldsKey
    <3> QED
      BY <1>2, <1>3, <3>1 DEF WriteInv, KeyIsRemembered
  <2>9. SucceededIsTrue'
    BY <1>2 DEF WriteInv, SucceededIsTrue
  <2> QED
    BY <2>3, <2>5, <2>6, <2>7, <2>8, <2>9 DEF WriteInv
<1>4. CASE Settle(c, "cancelled") /\ UNCHANGED wire
  <2>1. pc' = [pc EXCEPT ![c] = "settled"] /\ outcome' = [outcome EXCEPT ![c] = "cancelled"]
    BY <1>4 DEF Settle, Goto
  <2>2. \A d \in Calls : /\ d # c => pc'[d] = pc[d] /\ outcome'[d] = outcome[d]
                         /\ (HoldsKey(d))' <=> HoldsKey(d)
                         /\ (Live(d))' <=> Live(d)
    BY <1>1, <1>2, <1>4, <2>1 DEF HoldsKey, Live
  <2>3. SentBefore' /\ OutcomeIsTrue'
    BY <1>1, <1>2, <2>1, <2>2 DEF WriteInv, SentBefore, OutcomeIsTrue, Unsent
  <2>4. KeyOwned' /\ SentOnce'
    BY <1>2, <2>2 DEF WriteInv, KeyOwned, SentOnce, SameKey
  <2>5. KeyIsRemembered' /\ SucceededIsTrue'
    BY <1>2, <1>4 DEF WriteInv, KeyIsRemembered, SucceededIsTrue
  <2> QED
    BY <2>3, <2>4, <2>5 DEF WriteInv
<1> QED
  BY <1>3, <1>4 DEF Dispatch

\* A call settles: what it waited for has come, or is waited for no longer.
LEMMA SettleStep ==
    ASSUME TypeOK, WriteInv, NEW c \in Calls, ConnectorCompletes(c) \/ ConnectorStops(c)
    PROVE  WriteInv'
<1>1. /\ pc \in [Calls -> Stations] /\ outcome \in [Calls -> Outcomes]
      /\ pc[c] = "running"
  BY DEF TypeOK, ConnectorCompletes, ConnectorStops
<1>2. UNCHANGED <<idem, applied>>
  BY DEF ConnectorCompletes, ConnectorStops, storeVars, databaseVars
<1>3. PICK o : /\ Settle(c, o)
               /\ wire' = wire \/ wire' = wire \ {c}
               /\ o = "ok" /\ IsWrite(c) => c \in applied
               /\ o # "ok" /\ o # "unknown" => c \notin wire' \cup applied
  BY <1>2 DEF ConnectorCompletes, ConnectorStops, databaseVars, WriteInv, SentBefore, Live
<1>4. pc' = [pc EXCEPT ![c] = "settled"] /\ outcome' = [outcome EXCEPT ![c] = o]
  BY <1>3 DEF Settle, Goto
<1>5. \A d \in Calls : /\ d # c => pc'[d] = pc[d] /\ outcome'[d] = outcome[d]
                       /\ (HoldsKey(d))' <=> HoldsKey(d)
                       /\ (Live(d))' => Live(d)
  BY <1>1, <1>2, <1>3, <1>4 DEF HoldsKey, Live
<1>6. SentBefore'
  BY <1>1, <1>4, <1>5 DEF WriteInv, SentBefore, Unsent
<1>7. KeyOwned' /\ SentOnce'
  BY <1>2, <1>5 DEF WriteInv, KeyOwned, SentOnce, SameKey
<1>8. OutcomeIsTrue'
  <2>1. outcome'[c] = o /\ c \in Calls
    BY <1>1, <1>4
  <2>2. /\ outcome'[c] \notin {"ok", "unknown"} => ~(Live(c))'
        /\ outcome'[c] = "ok" /\ IsWrite(c) => c \in applied'
    BY <1>2, <1>3, <2>1 DEF Live
  <2> QED
    BY <1>2, <1>5, <2>2 DEF WriteInv, OutcomeIsTrue
<1>9. KeyIsRemembered' /\ SucceededIsTrue'
  BY <1>2, <1>3 DEF WriteInv, KeyIsRemembered, SucceededIsTrue
<1> QED
  BY <1>6, <1>7, <1>8, <1>9 DEF WriteInv

LEMMA FinishStep ==
    ASSUME TypeOK, WriteInv, NEW c \in Calls, FinishIdempotency(c)
    PROVE  WriteInv'
<1>1. /\ pc \in [Calls -> Stations] /\ pc[c] = "settled"
      /\ idem \in [Slots -> [state : IdempotencyState, op : Ops \cup {NoOp}]]
      /\ pc' = [pc EXCEPT ![c] = "concluding"]
  BY DEF TypeOK, FinishIdempotency, Goto
<1>2. UNCHANGED <<outcome, wire, applied>>
  BY DEF FinishIdempotency, callVars, databaseVars
<1>3. \A d \in Calls : /\ d # c => pc'[d] = pc[d]
                       /\ (HoldsKey(d))' => HoldsKey(d) /\ d # c
                       /\ (Live(d))' <=> Live(d)
  BY <1>1, <1>2 DEF HoldsKey, Live
<1>4. SentBefore' /\ OutcomeIsTrue'
  BY <1>1, <1>2, <1>3 DEF WriteInv, SentBefore, OutcomeIsTrue, Unsent
<1>5. SentOnce'
  BY <1>3 DEF WriteInv, SentOnce, SameKey
<1>6. CASE UNCHANGED idem
  <2>1. KeyOwned'
    BY <1>3, <1>6 DEF WriteInv, KeyOwned, SameKey
  <2>2. KeyIsRemembered' /\ SucceededIsTrue'
    BY <1>2, <1>6 DEF WriteInv, KeyIsRemembered, SucceededIsTrue
  <2> QED
    BY <1>4, <1>5, <2>1, <2>2 DEF WriteInv
<1>7. CASE Key(c) # NoKey /\ ~UNCHANGED idem
  <2>1. HoldsKey(c) /\ Slot(c) \in Slots
    BY <1>1, <1>7, RequestFacts DEF HoldsKey
  <2>2. \A s \in Slots : s # Slot(c) => idem'[s] = idem[s]
    BY <1>1, <1>7, <2>1
       DEF FinishIdempotency, UpdateIdempotencyState, ReleaseIdempotency
  <2>3. /\ outcome[c] = "ok" => idem'[Slot(c)].state = "succeeded"
                                 /\ idem'[Slot(c)].op = idem[Slot(c)].op
        /\ outcome[c] = "unknown" => idem'[Slot(c)].state = "unknown"
        /\ outcome[c] \notin {"ok", "unknown"} => idem'[Slot(c)].state = "absent"
    BY <1>1, <1>7, <2>1
       DEF FinishIdempotency, UpdateIdempotencyState, ReleaseIdempotency, Absent
  <2>4. KeyOwned'
    <3> SUFFICES ASSUME NEW d \in Calls, (HoldsKey(d))'
                 PROVE  /\ idem'[Slot(d)] = [state |-> "in_flight", op |-> Op(d)]
                        /\ \A e \in Calls : SameKey(d, e) /\ e # d =>
                              ~(HoldsKey(e))' /\ ~(Live(e))'
      BY DEF KeyOwned, SameKey
    <3>1. HoldsKey(d) /\ d # c /\ Key(d) # NoKey /\ Slot(d) \in Slots
      BY <1>3, RequestFacts DEF HoldsKey
    <3>2. ~SameKey(d, c) /\ Slot(d) # Slot(c)
      BY <2>1, <3>1 DEF WriteInv, KeyOwned, SameKey
    <3> QED
      BY <1>3, <2>2, <3>1, <3>2 DEF WriteInv, KeyOwned
  <2>5. KeyIsRemembered'
    <3> SUFFICES ASSUME NEW d \in Calls, Live(d), Key(d) # NoKey
                 PROVE  idem'[Slot(d)].state # "absent"
      BY <1>2 DEF KeyIsRemembered, Live, TypeOK
    <3>1. Slot(d) \in Slots /\ idem[Slot(d)].state # "absent"
      BY RequestFacts DEF WriteInv, KeyIsRemembered, Live
    <3>2. CASE Slot(d) = Slot(c)
      <4>1. d = c
        BY <1>7, <2>1, <3>2 DEF WriteInv, KeyOwned, SameKey
      <4>2. outcome[c] \in {"ok", "unknown"}
        BY <1>1, <4>1 DEF WriteInv, OutcomeIsTrue
      <4> QED
        BY <2>3, <3>2, <4>2
    <3> QED
      BY <2>2, <3>1, <3>2
  <2>6. SucceededIsTrue'
    <3> SUFFICES ASSUME NEW s \in Slots, idem'[s].state = "succeeded"
                 PROVE  \E d \in applied : Slot(d) = s /\ Op(d) = idem'[s].op
      BY <1>2 DEF SucceededIsTrue
    <3>1. CASE s = Slot(c)
      <4>1. outcome[c] = "ok"
        BY <2>3, <3>1
      <4>2. c \in applied
        BY <1>1, <1>7, <4>1, RequestFacts DEF WriteInv, OutcomeIsTrue
      <4> QED
        BY <2>1, <2>3, <3>1, <4>1, <4>2, OwnedRow
    <3>2. CASE s # Slot(c)
      BY <2>2, <3>2 DEF WriteInv, SucceededIsTrue
    <3> QED
      BY <3>1, <3>2
  <2> QED
    BY <1>4, <1>5, <2>4, <2>5, <2>6 DEF WriteInv
<1> QED
  BY <1>6, <1>7 DEF FinishIdempotency

\* The end of a call: it returns, or its process ends.
LEMMA EndStep ==
    ASSUME TypeOK, WriteInv,
           \A d \in Calls : pc'[d] = pc[d] \/ pc'[d] \in {"done", "lost"},
           UNCHANGED <<idem, outcome, wire, applied>>
    PROVE  WriteInv'
<1>1. \A d \in Calls : /\ (HoldsKey(d))' => HoldsKey(d)
                       /\ (Live(d))' <=> Live(d)
  BY DEF HoldsKey, Live
<1>2. SentBefore' /\ OutcomeIsTrue'
  BY <1>1 DEF WriteInv, SentBefore, OutcomeIsTrue, Unsent
<1>3. KeyOwned' /\ SentOnce'
  BY <1>1 DEF WriteInv, KeyOwned, SentOnce, SameKey
<1>4. KeyIsRemembered' /\ SucceededIsTrue'
  BY DEF WriteInv, KeyIsRemembered, SucceededIsTrue
<1> QED
  BY <1>2, <1>3, <1>4 DEF WriteInv

LEMMA ApplyStep ==
    ASSUME TypeOK, WriteInv, NEW c \in Calls, DatabaseApplies(c)
    PROVE  WriteInv'
<1>1. /\ c \in wire /\ applied' = applied \cup {c}
      /\ UNCHANGED <<idem, pc, outcome, wire>>
  BY DEF DatabaseApplies, storeVars, callVars
<1>2. \A d \in Calls : /\ (HoldsKey(d))' <=> HoldsKey(d)
                       /\ (Live(d))' <=> Live(d)
  BY <1>1 DEF HoldsKey, Live
<1>3. SentBefore' /\ OutcomeIsTrue'
  BY <1>1, <1>2 DEF WriteInv, SentBefore, OutcomeIsTrue
<1>4. KeyOwned' /\ SentOnce'
  BY <1>1, <1>2 DEF WriteInv, KeyOwned, SentOnce, SameKey
<1>5. KeyIsRemembered' /\ SucceededIsTrue'
  BY <1>1 DEF WriteInv, KeyIsRemembered, SucceededIsTrue
<1> QED
  BY <1>3, <1>4, <1>5 DEF WriteInv

LEMMA WriteStep == TypeOK /\ WriteInv /\ [Next]_vars => WriteInv'
<1> SUFFICES ASSUME TypeOK, WriteInv, [Next]_vars PROVE WriteInv'
  OBVIOUS
<1> USE DEF vars, profileVars, processVars, monitorVars, mapVars, guardVars, callVars,
            databaseVars, storeVars
<1>1. ASSUME NEW c \in Calls, InsertRequest(c) PROVE WriteInv'
  BY <1>1, EarlyStep DEF InsertRequest, Unsent
<1>2. ASSUME NEW c \in Calls, AcquireGlobal(c) \/ AcquireConnection(c) PROVE WriteInv'
  BY <1>2, EarlyStep DEF AcquireGlobal, AcquireConnection, Return, Unsent
<1>3. ASSUME NEW c \in Calls, LoadProfile(c) \/ FinishInvalidation(c) PROVE WriteInv'
  BY <1>3, EarlyStep DEF LoadProfile, FinishInvalidation, Return, Unsent
<1>4. ASSUME NEW c \in Calls, CancelVictim(c) PROVE WriteInv'
  BY <1>4, WriteFrame DEF CancelVictim
<1>5. ASSUME NEW c \in Calls, Authorize(c) \/ ActivateRequest(c) PROVE WriteInv'
  BY <1>5, EarlyStep, RequestFacts DEF Authorize, ActivateRequest, Return, Unsent
<1>6. ASSUME NEW c \in Calls, ConsumeGrant(c) PROVE WriteInv'
  BY <1>6, EarlyStep DEF ConsumeGrant, Return, Unsent
<1>7. ASSUME NEW c \in Calls, Conclude(c) PROVE WriteInv'
  <2>1. Goto(c, "done") /\ UNCHANGED <<idem, outcome, wire, applied>>
    BY <1>7 DEF Conclude, Return
  <2>2. \A d \in Calls : pc'[d] = pc[d] \/ pc'[d] = "done"
    BY <2>1 DEF Goto, TypeOK
  <2> QED
    BY <2>1, <2>2, EndStep
<1>8. ASSUME NEW i \in Instances, Crash(i) PROVE WriteInv'
  BY <1>8, EndStep DEF Crash
<1>9. ASSUME NEW i \in Instances, MonitorStep(i) \/ Restart(i) PROVE WriteInv'
  BY <1>9, WriteFrame
     DEF MonitorStep, MonitorPoll, MonitorInvalidate, MonitorCancel, MonitorDone, Restart
<1>10. ASSUME NEW i \in Instances, NEW n \in Connections, NEW r \in RequestIds,
              Cancel(i, n, r)
       PROVE  WriteInv'
  BY <1>10, WriteFrame DEF Cancel
<1>11. ASSUME ControlStep \/ Tick PROVE WriteInv'
  BY <1>11, WriteFrame
     DEF ControlStep, UpsertProfile, DeleteProfile, NotifyChanged, IssueGrant, Tick
<1>12. CASE UNCHANGED vars
  BY <1>12, WriteFrame
<1> QED
  BY <1>1, <1>2, <1>3, <1>4, <1>5, <1>6, <1>7, <1>8, <1>9, <1>10, <1>11, <1>12,
     ReserveStep, DispatchStep, SettleStep, FinishStep, ApplyStep
     DEF Next, RuntimeStep

-----------------------------------------------------------------------------
LEMMA WriteInit == Init => WriteInv
BY DEF Init, StoreInit, Absent, WriteInv, SentBefore, KeyOwned, SentOnce, OutcomeIsTrue,
       KeyIsRemembered, SucceededIsTrue, HoldsKey, Live

LEMMA WriteInvariant == Spec => []WriteInv
BY TypeCorrect, WriteInit, WriteStep, PTL DEF Spec

\* Of the writes with one idempotency key on one connection at most one takes
\* effect, for any number of processes, calls, crashes and store failures.
THEOREM WriteAtMostOnce == Spec => []AtMostOnce
<1>1. TypeOK /\ WriteInv => AtMostOnce
  BY DEF TypeOK, WriteInv, SentOnce, AtMostOnce, Live
<1> QED
  BY <1>1, TypeCorrect, WriteInvariant, PTL

\* release_idempotency never forgets a write that took effect or still can.
THEOREM KeyRemembered == Spec => []KeyIsRemembered
<1>1. WriteInv => KeyIsRemembered
  BY DEF WriteInv
<1> QED
  BY <1>1, WriteInvariant, PTL

\* A "succeeded" row tells the truth about the write it names.
THEOREM SucceededTrue == Spec => []SucceededIsTrue
<1>1. WriteInv => SucceededIsTrue
  BY DEF WriteInv
<1> QED
  BY <1>1, WriteInvariant, PTL

-----------------------------------------------------------------------------
(***************************************************************************)
(* Refinement of WriteOnce.                                                *)
(***************************************************************************)
\* The call ends with a reply that is true of its write.
Replied(c, r) ==
    /\ pc[c] \notin {"done", "lost"}
    /\ Goto(c, "done")
    /\ reply' = [reply EXCEPT ![c] = r]
    /\ UNCHANGED <<wire, applied>>
    /\ IsWrite(c) /\ r \in {"ok", "result_too_large"} => c \in applied
    /\ IsWrite(c) /\ AnswerFor(r) = "failed" => ~Live(c)

LEMMA RefusedIsTrue ==
    ASSUME WriteInv, NEW c \in Calls, NEW r \in Replies, pc[c] \in Unsent, Return(c, r),
           r # "ok", r # "result_too_large", UNCHANGED <<wire, applied>>
    PROVE  Replied(c, r)
BY DEF Replied, Return, WriteInv, SentBefore, Unsent

LEMMA ReplyStep ==
    ASSUME TypeOK, WriteInv, [Next]_vars, reply' # reply
    PROVE  \E c \in Calls : \E r \in Replies \ {"none"} : Replied(c, r)
<1> USE DEF vars, profileVars, processVars, monitorVars, mapVars, guardVars, callVars,
            databaseVars, storeVars
<1>1. ASSUME NEW c \in Calls, InsertRequest(c)
      PROVE  \E r \in Replies \ {"none"} : Replied(c, r)
  <2>1. pc[c] \in Unsent
    BY <1>1 DEF InsertRequest, Unsent
  <2>2. Replied(c, "invalid_request")
    BY <1>1, <2>1 DEF InsertRequest, Replied, WriteInv, SentBefore, Unsent
  <2> QED
    BY <2>2 DEF Replies
<1>2. ASSUME NEW c \in Calls, NEW r \in Replies \ {"none", "ok", "result_too_large"},
             Return(c, r), pc[c] \in Unsent, UNCHANGED <<wire, applied>>
      PROVE  \E q \in Replies \ {"none"} : Replied(c, q)
  BY <1>2, RefusedIsTrue
<1>3. ASSUME NEW c \in Calls, AcquireGlobal(c) \/ AcquireConnection(c)
      PROVE  \E r \in Replies \ {"none"} : Replied(c, r)
  BY <1>2, <1>3 DEF AcquireGlobal, AcquireConnection, Replies, Unsent
<1>4. ASSUME NEW c \in Calls, LoadProfile(c) \/ FinishInvalidation(c)
      PROVE  \E r \in Replies \ {"none"} : Replied(c, r)
  BY <1>2, <1>4 DEF LoadProfile, FinishInvalidation, Replies, Unsent
<1>5. ASSUME NEW c \in Calls, Authorize(c) \/ ActivateRequest(c)
      PROVE  \E r \in Replies \ {"none"} : Replied(c, r)
  BY <1>2, <1>5 DEF Authorize, ActivateRequest, Replies, Unsent
<1>6. ASSUME NEW c \in Calls, ConsumeGrant(c) \/ ReserveIdempotency(c)
      PROVE  \E r \in Replies \ {"none"} : Replied(c, r)
  BY <1>2, <1>6 DEF ConsumeGrant, ReserveIdempotency, Replies, Unsent
<1>7. ASSUME NEW c \in Calls, Conclude(c)
      PROVE  \E r \in Replies \ {"none"} : Replied(c, r)
  <2>1. pc[c] = "concluding" /\ UNCHANGED <<wire, applied>>
    BY <1>7 DEF Conclude
  <2>2. CASE Return(c, ReplyFor(outcome[c]))
    <3>1. /\ ReplyFor(outcome[c]) \in Replies \ {"none"}
          /\ ReplyFor(outcome[c]) \in {"ok", "result_too_large"} => outcome[c] = "ok"
          /\ AnswerFor(ReplyFor(outcome[c])) = "failed" => outcome[c] \notin {"ok", "unknown"}
      BY DEF ReplyFor, AnswerFor, Replies
    <3>2. Replied(c, ReplyFor(outcome[c]))
      BY <2>1, <2>2, <3>1 DEF Replied, Return, WriteInv, OutcomeIsTrue
    <3> QED
      BY <3>1, <3>2
  <2>3. CASE Return(c, "result_too_large") /\ outcome[c] = "ok"
    <3>1. Replied(c, "result_too_large")
      BY <2>1, <2>3 DEF Replied, Return, WriteInv, OutcomeIsTrue, AnswerFor
    <3> QED
      BY <3>1 DEF Replies
  <2> QED
    BY <1>7, <2>2, <2>3 DEF Conclude
<1>8. ASSUME NEW c \in Calls
      PROVE  ~CancelVictim(c) /\ ~Dispatch(c) /\ ~ConnectorStops(c) /\ ~FinishIdempotency(c)
             /\ ~ConnectorCompletes(c) /\ ~DatabaseApplies(c)
  BY DEF CancelVictim, Dispatch, ConnectorStops, FinishIdempotency, ConnectorCompletes,
         DatabaseApplies
<1>9. ASSUME NEW i \in Instances PROVE ~MonitorStep(i) /\ ~Crash(i) /\ ~Restart(i)
  BY DEF MonitorStep, MonitorPoll, MonitorInvalidate, MonitorCancel, MonitorDone, Crash, Restart
<1>10. ASSUME NEW i \in Instances, NEW n \in Connections, NEW r \in RequestIds
       PROVE  ~Cancel(i, n, r)
  BY DEF Cancel
<1>11. ~ControlStep /\ ~Tick
  BY DEF ControlStep, UpsertProfile, DeleteProfile, NotifyChanged, IssueGrant, Tick
<1>12. Next
  OBVIOUS
<1> QED
  BY <1>1, <1>3, <1>4, <1>5, <1>6, <1>7, <1>8, <1>9, <1>10, <1>11, <1>12
     DEF Next, RuntimeStep

LEMMA DoneStays ==
    ASSUME TypeOK, [Next]_vars, NEW d \in Calls, pc[d] = "done"
    PROVE  pc'[d] = "done"
<1>1. ~InsertRequest(d) /\ ~AcquireGlobal(d) /\ ~AcquireConnection(d)
  BY DEF InsertRequest, AcquireGlobal, AcquireConnection
<1>2. ~LoadProfile(d) /\ ~CancelVictim(d) /\ ~FinishInvalidation(d)
  BY DEF LoadProfile, CancelVictim, FinishInvalidation
<1>3. ~Authorize(d) /\ ~ActivateRequest(d) /\ ~ConsumeGrant(d) /\ ~ReserveIdempotency(d)
  BY DEF Authorize, ActivateRequest, ConsumeGrant, ReserveIdempotency
<1>4. ~Dispatch(d) /\ ~ConnectorStops(d) /\ ~ConnectorCompletes(d)
  BY DEF Dispatch, ConnectorStops, ConnectorCompletes
<1>5. ~FinishIdempotency(d) /\ ~Conclude(d)
  BY DEF FinishIdempotency, Conclude
<1>6. CASE Crash(Inst(d))
  BY <1>6 DEF Crash
<1> QED
  BY <1>1, <1>2, <1>3, <1>4, <1>5, <1>6, OwnStep DEF RuntimeStep

\* What a database applied stays applied, and only a call that is sent now is new.
LEMMA DatabaseStep ==
    ASSUME TypeOK, [Next]_vars
    PROVE  /\ applied' = applied \/ \E c \in Calls : DatabaseApplies(c)
           /\ applied \subseteq applied'
           /\ \A d \in Calls : (Live(d))' => Live(d) \/ pc[d] = "ready"
<1> USE DEF vars, databaseVars, Live
<1> DEFINE Goal == /\ applied' = applied \/ \E c \in Calls : DatabaseApplies(c)
                   /\ applied \subseteq applied'
                   /\ \A d \in Calls : (Live(d))' => Live(d) \/ pc[d] = "ready"
<1>1. ASSUME NEW c \in Calls, InsertRequest(c) PROVE Goal
  BY <1>1 DEF InsertRequest
<1>2. ASSUME NEW c \in Calls, RuntimeStep(c) PROVE Goal
  <2>1. CASE Dispatch(c)
    BY <2>1 DEF Dispatch
  <2>2. CASE ~Dispatch(c)
    BY <1>2, <2>2
       DEF RuntimeStep, AcquireGlobal, AcquireConnection, LoadProfile, CancelVictim,
           FinishInvalidation, Authorize, ActivateRequest, ConsumeGrant, ReserveIdempotency,
           ConnectorStops, FinishIdempotency, Conclude
  <2> QED
    BY <2>1, <2>2
<1>3. ASSUME NEW c \in Calls, ConnectorCompletes(c) \/ DatabaseApplies(c) PROVE Goal
  BY <1>3 DEF ConnectorCompletes, DatabaseApplies
<1>4. ASSUME NEW i \in Instances, MonitorStep(i) \/ Crash(i) \/ Restart(i) PROVE Goal
  BY <1>4 DEF MonitorStep, MonitorPoll, MonitorInvalidate, MonitorCancel, MonitorDone, Crash, Restart
<1>5. ASSUME NEW i \in Instances, NEW n \in Connections, NEW r \in RequestIds, Cancel(i, n, r)
      PROVE  Goal
  BY <1>5 DEF Cancel
<1>6. CASE ControlStep \/ Tick
  BY <1>6 DEF ControlStep, UpsertProfile, DeleteProfile, NotifyChanged, IssueGrant, Tick
<1>7. CASE UNCHANGED vars
  BY <1>7
<1> QED
  BY <1>1, <1>2, <1>3, <1>4, <1>5, <1>6, <1>7 DEF Next

LEMMA AnswerStep ==
    TypeOK /\ WriteInv /\ AnswerIsTrue /\ [Next]_vars => AnswerIsTrue'
<1> SUFFICES ASSUME TypeOK, WriteInv, AnswerIsTrue, [Next]_vars, NEW d \in Calls
             PROVE  /\ pc'[d] # "done" => reply'[d] = "none"
                    /\ IsWrite(d) /\ reply'[d] \in {"ok", "result_too_large"} => d \in applied'
                    /\ IsWrite(d) /\ AnswerFor(reply'[d]) = "failed" => ~(Live(d))'
  BY DEF AnswerIsTrue, IsWrite, AnswerFor
<1>1. CASE reply'[d] = reply[d]
  <2>1. pc'[d] # "done" => reply'[d] = "none"
    BY <1>1, DoneStays DEF AnswerIsTrue
  <2>2. IsWrite(d) /\ reply'[d] \in {"ok", "result_too_large"} => d \in applied'
    BY <1>1, DatabaseStep DEF AnswerIsTrue
  <2>3. ASSUME IsWrite(d), AnswerFor(reply'[d]) = "failed" PROVE ~(Live(d))'
    <3>1. reply[d] # "none" /\ ~Live(d)
      BY <1>1, <2>3 DEF AnswerIsTrue, AnswerFor
    <3>2. pc[d] = "done"
      BY <3>1 DEF AnswerIsTrue
    <3> QED
      BY <3>1, <3>2, DatabaseStep
  <2> QED
    BY <2>1, <2>2, <2>3
<1>2. CASE reply'[d] # reply[d]
  <2>1. PICK c \in Calls, r \in Replies \ {"none"} : Replied(c, r)
    BY <1>2, ReplyStep
  <2>2. reply \in [Calls -> Replies] /\ pc \in [Calls -> Stations]
    BY DEF TypeOK
  <2>3. c = d /\ reply'[d] = r /\ pc'[d] = "done"
    BY <1>2, <2>1, <2>2 DEF Replied, Goto
  <2> QED
    BY <2>1, <2>3 DEF Replied, Live
<1> QED
  BY <1>1, <1>2

LEMMA AnswerInvariant == Spec => []AnswerIsTrue
<1>1. Init => AnswerIsTrue
  BY DEF Init, AnswerIsTrue, AnswerFor
<1> QED
  BY <1>1, TypeCorrect, WriteInvariant, AnswerStep, PTL DEF Spec

LEMMA RefinementStep ==
    TypeOK /\ WriteInv /\ AnswerIsTrue /\ [Next]_vars =>
        [Promise!Next]_<<applied, [c \in {d \in Calls : IsWrite(d)} |-> AnswerFor(reply[c])]>>
<1> SUFFICES ASSUME TypeOK, WriteInv, AnswerIsTrue, [Next]_vars
             PROVE  [Promise!Next]_<<applied, [c \in {d \in Calls : IsWrite(d)} |-> AnswerFor(reply[c])]>>
  OBVIOUS
<1> DEFINE Writes == {c \in Calls : IsWrite(c)}
           answer == [c \in {d \in Calls : IsWrite(d)} |-> AnswerFor(reply[c])]
<1>1. CASE reply' # reply
  <2>1. PICK c \in Calls, r \in Replies \ {"none"} : Replied(c, r)
    BY <1>1, ReplyStep
  <2>2. reply \in [Calls -> Replies] /\ reply[c] = "none"
        /\ reply' = [reply EXCEPT ![c] = r] /\ UNCHANGED applied
    BY <2>1 DEF TypeOK, AnswerIsTrue, Replied
  <2>3. CASE ~IsWrite(c)
    <3>1. \A w \in Writes : reply'[w] = reply[w]
      BY <2>2, <2>3
    <3>2. answer' = answer
      BY <3>1
    <3> QED
      BY <2>2, <3>2
  <2>4. CASE IsWrite(c)
    <3>1. /\ c \in Writes /\ answer[c] = "none"
          /\ answer' = [answer EXCEPT ![c] = AnswerFor(r)]
      BY <2>2, <2>4 DEF AnswerFor
    <3>2. /\ AnswerFor(r) \in Promise!Answers \ {"none"}
          /\ AnswerFor(r) \in {"ok", "withheld"} => c \in applied
          /\ AnswerFor(r) = "failed" => c \notin applied
      BY <2>1, <2>4 DEF AnswerFor, Replies, Promise!Answers, Replied, Live
    <3>3. Promise!Answer(c, AnswerFor(r))
      BY <2>2, <3>1, <3>2 DEF Promise!Answer
    <3> QED
      BY <3>1, <3>2, <3>3 DEF Promise!Next
  <2> QED
    BY <2>3, <2>4
<1>2. CASE reply' = reply /\ applied' # applied
  <2>1. PICK c \in Calls : DatabaseApplies(c)
    BY <1>2, DatabaseStep
  <2>2. c \in wire \ applied /\ applied' = applied \cup {c}
    BY <2>1 DEF DatabaseApplies
  <2>3. c \in Writes /\ Live(c)
    BY <2>2 DEF WriteInv, SentBefore, Live
  <2>4. AnswerFor(reply[c]) \in {"none", "unknown"}
    <3>1. reply[c] \in Replies
      BY DEF TypeOK
    <3> QED
      BY <2>2, <2>3, <3>1 DEF AnswerIsTrue, AnswerFor, Replies
  <2>5. \A v \in applied : ~SameKey(v, c)
    BY <2>2, <2>3 DEF WriteInv, SentOnce, Live, TypeOK
  <2>6. Promise!Apply(c)
    BY <1>2, <2>2, <2>3, <2>4, <2>5 DEF Promise!Apply
  <2> QED
    BY <2>3, <2>6 DEF Promise!Next
<1>3. CASE reply' = reply /\ applied' = applied
  BY <1>3
<1> QED
  BY <1>1, <1>2, <1>3

\* Runtime implements WriteOnce: what callers are told of their writes, and what
\* the databases do, is what WriteOnce allows.
THEOREM Refinement == Spec => ImplementsWriteOnce
<1>1. Init => Promise!Init
  BY DEF Init, Promise!Init, AnswerFor
<1> QED
  BY <1>1, RefinementStep, TypeCorrect, WriteInvariant, AnswerInvariant, PTL
     DEF Spec, ImplementsWriteOnce, Promise!Spec
=============================================================================
