---------------------------- MODULE AdapterBase ----------------------------
(***************************************************************************)
(* What the adapters of the connector packs have in common: the operations *)
(* of connector-core, the capabilities of a manifest, the ways an exchange *)
(* with a database can go wrong as far as the adapters tell them apart,    *)
(* and the error categories they answer with.                              *)
(*                                                                         *)
(* An adapter carries out an operation as a plan: a sequence of exchanges  *)
(* with the database.  An exchange asks something, writes a set of         *)
(* records, or opens or commits a transaction.                             *)
(***************************************************************************)
EXTENDS Naturals, Sequences, FiniteSets

Operations == {"test", "describe", "read", "search", "vector_search", "native_query",
               "insert", "update", "delete", "vector_upsert", "time_series_write",
               "native_execute"}

\* The operations that reach the database as writes.
operation_is_write(op) ==
    op \in {"insert", "update", "delete", "vector_upsert", "time_series_write", "native_execute"}

\* The capabilities of a manifest that admit an operation; without one of them the runtime
\* does not hand the operation to the adapter.
route_matches_operation(op) ==
    CASE op = "test" -> {"TestConnection"}
      [] op = "describe" -> {"Describe"}
      [] op = "read" -> {"Read"}
      [] op = "search" -> {"TextSearch"}
      [] op = "vector_search" -> {"VectorSearch"}
      [] op = "native_query" -> {"NativeQuery", "TimeSeriesQuery"}
      [] op = "insert" -> {"Insert"}
      [] op = "update" -> {"Update"}
      [] op = "delete" -> {"Delete"}
      [] op = "vector_upsert" -> {"Upsert"}
      [] op = "time_series_write" -> {"TimeSeriesWrite"}
      [] op = "native_execute" -> {"NativeExecute"}

Relational == {"TestConnection", "Discover", "Describe", "Read", "Insert", "Update", "Delete",
               "NativeQuery", "NativeExecute"}

-----------------------------------------------------------------------------
(***************************************************************************)
(* How an exchange fails: refused (the statement, or the right to it),     *)
(* exists, missing, busy (a lock, a deadlock victim, a rate limit), alien  *)
(* (another product answers), down (the server says it cannot), ambiguous  *)
(* (the server says it does not know), lost (the connection broke),        *)
(* garbled (done, but the answer cannot be read), partial (the server did  *)
(* a part of a batch and says so), misread (the server could not finish,   *)
(* with a status or code that the error map does not list, or with a text  *)
(* that it takes for a refusal), mixed (the items of a batch failed for    *)
(* different reasons).                                                     *)
(***************************************************************************)
Faults == {"refused", "exists", "missing", "busy", "alien", "down", "ambiguous", "lost",
           "garbled", "partial", "misread", "mixed"}

Categories == {"ok", "InvalidRequest", "Authentication", "PermissionDenied", "NotFound",
               "Conflict", "RateLimited", "Timeout", "Unavailable", "Cancelled", "Unsupported",
               "Protocol", "Internal", "UnknownOutcome"}

\* An error category for a write that the database may have carried out.
Unsure(write, category) == IF write THEN "UnknownOutcome" ELSE category

\* Mutant: an endpoint that became unavailable is taken for one that was never reached.
classify_only_timeouts(category, write) ==
    IF write /\ category \in {"Timeout", "Internal"} THEN "UnknownOutcome" ELSE category

\* cancellation.rs and both HttpRuntimes: what the registry makes of an adapter's error, and
\* of a call that was cancelled or ran out of time.
classify_operation_error(category, write) ==
    IF write /\ category \in {"Timeout", "Unavailable", "Internal"}
    THEN "UnknownOutcome" ELSE category

interrupted_error(write, cancelled) ==
    Unsure(write, IF cancelled THEN "Cancelled" ELSE "Timeout")

-----------------------------------------------------------------------------
(***************************************************************************)
(* Plans.                                                                  *)
(***************************************************************************)
Ask == [kind |-> "ask", recs |-> {}]
Begin == [kind |-> "begin", recs |-> {}]
Commit == [kind |-> "commit", recs |-> {}]
Write(recs) == [kind |-> "write", recs |-> recs]

Elements(s) == {s[i] : i \in DOMAIN s}

\* One exchange for all records; one for each; a question before each.
Batch(s) == <<Write(Elements(s))>>
Each(s) == [i \in DOMAIN s |-> Write({s[i]})]
AskEach(s) == [i \in 1..(2 * Len(s)) |-> IF i % 2 = 1 THEN Ask ELSE Write({s[i \div 2]})]
AskThen(plan) == <<Ask>> \o plan
InTransaction(s) == <<Begin, Write(Elements(s)), Commit>>

NoPlan == <<>>
=============================================================================
