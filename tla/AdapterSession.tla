--------------------------- MODULE AdapterSession ---------------------------
(***************************************************************************)
(* A connection from its input to the clients that use it: it is saved,    *)
(* tested and opened (ConnectionSetup), then read page by page (Paging) or *)
(* inspected (SchemaInspection).  Reading and inspecting share no state    *)
(* but the link, so a behaviour has one of them.                           *)
(***************************************************************************)
EXTENDS Paging, SchemaInspection

CONSTANT
    InspectedAdapters   \* bound: an inspection is the same for every adapter

ASSUME SessionAssumption == InspectedAdapters \subseteq Adapters

VARIABLE
    purpose         \* what the clients do: "none" yet, "read" or "inspect"

vars == <<setupVars, pagingVars, inspectVars, purpose>>

Init ==
    /\ SetupInit /\ PagingInit /\ InspectInit
    /\ purpose = "none"

\* An open link comes into use.
Use ==
    /\ SetupDone /\ purpose = "none"
    /\ \/ purpose' = "read" /\ FindRows
       \/ adapter \in InspectedAdapters /\ purpose' = "inspect" /\ UNCHANGED pagingVars
    /\ UNCHANGED inspectVars

Next ==
    \/ SetupNext /\ UNCHANGED <<pagingVars, inspectVars, purpose>>
    \/ Use
    \/ purpose = "read" /\ PagingNext /\ UNCHANGED <<setupVars, inspectVars, purpose>>
    \/ purpose = "inspect" /\ InspectNext /\ UNCHANGED <<setupVars, pagingVars, purpose>>

Spec == Init /\ [][Next]_vars

FairSpec == Spec /\ InspectFairness

TypeOK == SetupTypeOK /\ PagingTypeOK /\ InspectTypeOK

\* Every variable has its type, the registry of masked cursors stays within its capacity
\* (MaskedCursorRegistry::insert), and no page hands out a cursor that leads nowhere.
CursorsWellFormed == TypeOK /\ PagesAdvance
=============================================================================
