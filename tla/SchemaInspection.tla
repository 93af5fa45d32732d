-------------------------- MODULE SchemaInspection --------------------------
(***************************************************************************)
(* db_inspect_schema and db_cancel of the MCP server.  An inspection is a  *)
(* catalog search and a description of every entity found, each a request  *)
(* of the runtime under the request id of the inspection; between them the *)
(* runtime knows nothing of it.  The server keeps a map of the running     *)
(* inspections with a flag each, and a cancellation sets the flag and then *)
(* asks the runtime until one of the two has taken it.                     *)
(***************************************************************************)
EXTENDS Naturals, FiniteSets

CONSTANTS
    Inspections,
    DataCalls,      \* other calls under the same request id
    Cancels,
    NoCall,
    MaxEntities     \* bound: the entities of a catalog page (20 in the code)

ASSUME InspectionAssumption ==
    /\ NoCall \notin Inspections \cup DataCalls
    /\ Inspections \cap DataCalls = {} /\ MaxEntities \in Nat

VARIABLES
    schema_inspections,     \* the inspection under the request id in the server's map
    flag,           \* inspection -> its AtomicBool cancelled
    request,        \* the call under the request id in the runtime's map
    signalled,      \* that request is to be cancelled
    station,        \* inspection, data call -> where it is
    left,           \* inspection -> entities still to describe
    outcome,        \* inspection, data call -> its answer
    cancels         \* cancellation -> where it is, the flag it holds, its answer

inspectVars == <<schema_inspections, flag, request, signalled, station, left, outcome, cancels>>

InspectInit ==
    /\ schema_inspections = NoCall /\ request = NoCall /\ signalled = FALSE
    /\ flag = [p \in Inspections |-> FALSE] /\ left = [p \in Inspections |-> 0]
    /\ station = [p \in Inspections \cup DataCalls |-> "new"]
    /\ outcome = [p \in Inspections \cup DataCalls |-> "none"]
    /\ cancels = [c \in Cancels |-> [pc |-> "new", holds |-> NoCall, answer |-> "none"]]

\* The tool returns; dropping the guard takes the inspection out of the map.
Return(p, o) ==
    /\ outcome' = [outcome EXCEPT ![p] = o]
    /\ station' = [station EXCEPT ![p] = "ended"]

InspectReturns(p, o) == Return(p, o) /\ schema_inspections' = NoCall

\* reserve_optional_request: the id of a running request is refused.
Reserve(p) == request = NoCall /\ request' = p /\ signalled' = FALSE

\* The ways a request of the runtime ends: done, failed, or cancelled after a signal.
Ends == {"ok", "failed"} \cup (IF signalled THEN {"cancelled"} ELSE {})

Release == request' = NoCall /\ signalled' = FALSE

-----------------------------------------------------------------------------
\* begin_schema_inspection: the id of a running inspection is refused.
BeginInspection(p) ==
    /\ station[p] = "new"
    /\ IF schema_inspections # NoCall
       THEN Return(p, "refused") /\ UNCHANGED schema_inspections
       ELSE /\ schema_inspections' = p
            /\ station' = [station EXCEPT ![p] = "search"]
            /\ UNCHANGED outcome
    /\ UNCHANGED <<flag, request, signalled, left, cancels>>

\* capabilities, which may fail, then search_catalog_with_request_id.
StartSearch(p) ==
    /\ station[p] = "search"
    /\ \/ \E o \in (IF flag[p] THEN {"cancelled", "failed"} ELSE {"failed"}) :
            InspectReturns(p, o)
          /\ UNCHANGED <<request, signalled>>
       \/ ~flag[p] /\ Reserve(p)
          /\ station' = [station EXCEPT ![p] = "searching"]
          /\ UNCHANGED <<outcome, schema_inspections>>
    /\ UNCHANGED <<flag, left, cancels>>

EndSearch(p, end) ==
    /\ station[p] = "searching" /\ end \in Ends /\ Release
    /\ IF flag[p] THEN InspectReturns(p, "cancelled") /\ UNCHANGED left
       ELSE IF end # "ok" THEN InspectReturns(p, end) /\ UNCHANGED left
       ELSE /\ \E n \in 0..MaxEntities : left' = [left EXCEPT ![p] = n]
            /\ station' = [station EXCEPT ![p] = "describe"]
            /\ UNCHANGED <<outcome, schema_inspections>>
    /\ UNCHANGED <<flag, cancels>>

\* describe_entity_with_request_id for the next entity; a refused id is a warning.
StartDescribe(p) ==
    /\ station[p] = "describe" /\ left[p] > 0
    /\ \/ flag[p] /\ InspectReturns(p, "cancelled") /\ UNCHANGED <<request, signalled, left>>
       \/ ~flag[p] /\ Reserve(p)
          /\ station' = [station EXCEPT ![p] = "describing"]
          /\ UNCHANGED <<outcome, schema_inspections, left>>
       \/ ~flag[p] /\ request # NoCall
          /\ left' = [left EXCEPT ![p] = @ - 1]
          /\ UNCHANGED <<outcome, station, schema_inspections, request, signalled>>
    /\ UNCHANGED <<flag, cancels>>

EndDescribe(p, end) ==
    /\ station[p] = "describing" /\ end \in Ends /\ Release
    /\ IF flag[p] \/ end = "cancelled" THEN InspectReturns(p, "cancelled") /\ UNCHANGED left
       ELSE /\ left' = [left EXCEPT ![p] = @ - 1]
            /\ station' = [station EXCEPT ![p] = "describe"]
            /\ UNCHANGED <<outcome, schema_inspections>>
    /\ UNCHANGED <<flag, cancels>>

\* Mutant: the flag is not read again when the inspection is taken out of the map.
complete_unchecked(p) == FALSE

\* SchemaInspectionGuard::complete: the flag is read while the map is locked.
complete(p) == flag[p]

\* The answer, which may be too long.
EndInspection(p) ==
    /\ station[p] = "describe" /\ left[p] = 0
    /\ \E o \in (IF complete(p) THEN {"cancelled"} ELSE {"ok", "failed"}) : InspectReturns(p, o)
    /\ UNCHANGED <<flag, request, signalled, left, cancels>>

-----------------------------------------------------------------------------
\* Another tool call with the same request id.
StartData(d) ==
    /\ station[d] = "new"
    /\ \/ Reserve(d) /\ station' = [station EXCEPT ![d] = "running"] /\ UNCHANGED outcome
       \/ request # NoCall /\ Return(d, "refused") /\ UNCHANGED <<request, signalled>>
    /\ UNCHANGED <<schema_inspections, flag, left, cancels>>

EndData(d, end) ==
    /\ station[d] = "running" /\ end \in Ends /\ Release
    /\ Return(d, end)
    /\ UNCHANGED <<schema_inspections, flag, left, cancels>>

-----------------------------------------------------------------------------
\* cancel_schema_inspection.
StartCancel(c) ==
    /\ cancels[c].pc = "new"
    /\ cancels' = [cancels EXCEPT ![c].pc = "asks", ![c].holds = schema_inspections]
    /\ flag' = [p \in Inspections |-> flag[p] \/ p = schema_inspections]
    /\ UNCHANGED <<schema_inspections, request, signalled, station, left, outcome>>

\* Mutant: it goes on for an inspection that has ended.
schema_inspection_was_active(c) == cancels[c].holds # NoCall

\* schema_inspection_is_active: the same inspection, not another one under its id.
schema_inspection_is_active(c) ==
    cancels[c].holds # NoCall /\ schema_inspections = cancels[c].holds

\* One turn of db_cancel; while the inspection is between two requests it comes back.
CancelTurn(c) ==
    /\ cancels[c].pc = "asks"
    /\ request # NoCall \/ ~schema_inspection_is_active(c)
    /\ signalled' = (signalled \/ request # NoCall)
    /\ \E a \in (IF request # NoCall THEN {"cancelled", "failed"}
                 ELSE IF cancels[c].holds # NoCall THEN {"cancelled"} ELSE {"not active"}) :
         cancels' = [cancels EXCEPT ![c].pc = "done", ![c].answer = a]
    /\ UNCHANGED <<schema_inspections, flag, request, station, left, outcome>>

InspectStep(p) ==
    \/ BeginInspection(p) \/ StartSearch(p) \/ StartDescribe(p) \/ EndInspection(p)
    \/ \E end \in Ends : EndSearch(p, end) \/ EndDescribe(p, end)

DataStep(d) == StartData(d) \/ \E end \in Ends : EndData(d, end)

InspectNext ==
    \/ \E p \in Inspections : InspectStep(p)
    \/ \E d \in DataCalls : DataStep(d)
    \/ \E c \in Cancels : StartCancel(c) \/ CancelTurn(c)

InspectFairness ==
    /\ \A p \in Inspections : WF_inspectVars(InspectStep(p))
    /\ \A d \in DataCalls : WF_inspectVars(DataStep(d))
    /\ \A c \in Cancels : WF_inspectVars(CancelTurn(c))

-----------------------------------------------------------------------------
InspectTypeOK ==
    /\ schema_inspections \in Inspections \cup {NoCall}
    /\ request \in Inspections \cup DataCalls \cup {NoCall}
    /\ \A p \in Inspections : left[p] \in 0..MaxEntities
    /\ \A c \in Cancels : cancels[c].holds \in Inspections \cup {NoCall}

(***************************************************************************)
(* An inspection that a cancellation has found does not answer with a      *)
(* schema, wherever between its requests it was, and whoever else uses the *)
(* request id.                                                             *)
(***************************************************************************)
CancelledInspectionFails ==
    \A c \in Cancels : cancels[c].holds # NoCall => outcome[cancels[c].holds] # "ok"

(***************************************************************************)
(* db_cancel, which yields and asks again while the inspection is between  *)
(* two requests, comes to an answer.                                       *)
(***************************************************************************)
CancelReturns == \A c \in Cancels : cancels[c].pc = "asks" ~> cancels[c].pc = "done"
=============================================================================
