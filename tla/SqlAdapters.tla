---------------------------- MODULE SqlAdapters ----------------------------
(***************************************************************************)
(* The relational adapters (connectors-sql): what each offers, the         *)
(* exchanges it carries an operation out with, and the category it gives   *)
(* to each failure.  The flavours of PostgreSQL other than PostgreSQL      *)
(* itself (CockroachDB, YugabyteDB) are the adapter "cockroachdb"; those   *)
(* of MySQL differ only in the product they expect.                        *)
(***************************************************************************)
EXTENDS AdapterBase

SqlAdapterNames == {"postgresql", "cockroachdb", "mysql", "oracle", "sqlserver"}

-----------------------------------------------------------------------------
(***************************************************************************)
(* PostgreSQL.                                                             *)
(***************************************************************************)
PgManifest == Relational

PgQueryBuilt == <<Ask>>

PgNativeQuery == <<Begin>> \o PgQueryBuilt \o <<Commit>>

PgExecuteBuilt(s) == Batch(s)

PgTransactionally(s) == InTransaction(s)

PgNativeExecute(s) == PgTransactionally(s)

\* Only PostgreSQL itself bounds an update or a delete in the statement (ctid ... LIMIT).
PgStructured(a, op, s) ==
    IF a = "postgresql" \/ op = "insert" THEN PgExecuteBuilt(s) ELSE PgTransactionally(s)

PgExecute(a, op, s) ==
    CASE op = "read" -> PgQueryBuilt
      [] op \in {"insert", "update", "delete"} -> PgStructured(a, op, s)
      [] op = "native_query" -> PgNativeQuery
      [] op = "native_execute" -> PgNativeExecute(s)
      [] OTHER -> NoPlan

map_pg_error(f, write) ==
    [refused |-> "InvalidRequest", exists |-> "Conflict", missing |-> "InvalidRequest",
     busy |-> "Conflict", down |-> "Protocol", partial |-> "Protocol",
     ambiguous |-> "Conflict",   \* every SQLSTATE of class 40, statement_completion_unknown too
     lost |-> Unsure(write, "Unavailable"),
     garbled |-> Unsure(write, "Protocol")][f]

map_pg_pool_error(f) == IF f = "busy" THEN "Timeout" ELSE map_pg_error(f, FALSE)

-----------------------------------------------------------------------------
(***************************************************************************)
(* MySQL.                                                                  *)
(***************************************************************************)
MySqlManifest == Relational

MySqlQueryBuilt == <<Ask>>

MySqlNativeQuery == <<Begin>> \o MySqlQueryBuilt \o <<Commit>>

MySqlExecuteBuilt(s) == Batch(s)

MySqlNativeExecute(s) == InTransaction(s)

MySqlExecute(op, s) ==
    CASE op = "read" -> MySqlQueryBuilt
      [] op \in {"insert", "update", "delete"} -> MySqlExecuteBuilt(s)
      [] op = "native_query" -> MySqlNativeQuery
      [] op = "native_execute" -> MySqlNativeExecute(s)
      [] OTHER -> NoPlan

map_mysql_error(f, write) ==
    [refused |-> "InvalidRequest", exists |-> "Conflict", missing |-> "InvalidRequest",
     busy |-> "Timeout", down |-> "Unavailable", partial |-> "Protocol",
     ambiguous |-> "Protocol", lost |-> Unsure(write, "Unavailable"),
     garbled |-> "Protocol"][f]

-----------------------------------------------------------------------------
(***************************************************************************)
(* Oracle opens a transaction with its first statement: every write ends   *)
(* in a commit, a native query in a rollback whose failure is ignored.     *)
(***************************************************************************)
OracleManifest == Relational

OracleQueryBuilt == <<Ask>>

OracleNativeQuery == OracleQueryBuilt

OracleTransactionally(s) == Tail(InTransaction(s))

OracleNativeExecute(s) == OracleTransactionally(s)

OracleExecute(op, s) ==
    CASE op = "read" -> OracleQueryBuilt
      [] op = "native_query" -> OracleNativeQuery
      [] op \in {"insert", "update", "delete"} -> OracleTransactionally(s)
      [] op = "native_execute" -> OracleNativeExecute(s)
      [] OTHER -> NoPlan

map_oracle_error(f, write) ==
    [refused |-> "InvalidRequest", exists |-> "Conflict", missing |-> "NotFound",
     busy |-> "Conflict", down |-> Unsure(write, "Unavailable"),
     partial |-> "Protocol", ambiguous |-> "Protocol",
     lost |-> Unsure(write, "Unavailable"), garbled |-> "Protocol"][f]

map_oracle_pool_error(f) == IF f = "busy" THEN "Timeout" ELSE map_oracle_error(f, FALSE)

\* A commit or a rollback that fails leaves the write in doubt, whatever the error.
unknown_write_error(kind, f, write) ==
    IF write /\ kind \in {"commit", "rollback"} THEN "UnknownOutcome"
    ELSE map_oracle_error(f, write)

-----------------------------------------------------------------------------
(***************************************************************************)
(* SQL Server.  The adapter keeps its own pool; a connection goes back to  *)
(* it only after a result that was read to its end.                        *)
(***************************************************************************)
TdsManifest == Relational

TdsQueryBuilt == <<Ask>>

TdsNativeQuery == TdsQueryBuilt

TdsExecuteBuilt(s) == Batch(s)

TdsNativeExecute(s) == InTransaction(s)

TdsExecute(op, s) ==
    CASE op = "read" -> TdsQueryBuilt
      [] op \in {"insert", "update", "delete"} -> TdsExecuteBuilt(s)
      [] op = "native_query" -> TdsNativeQuery
      [] op = "native_execute" -> TdsNativeExecute(s)
      [] OTHER -> NoPlan

\* Mutant: every successful call hands its connection back.
mark_reusable_on_success(category, truncated) == category = "ok"

mark_reusable(category, truncated) == category = "ok" /\ ~truncated

map_tds_error(f, write) ==
    [refused |-> "InvalidRequest", exists |-> "Conflict", missing |-> "NotFound",
     busy |-> "Timeout", down |-> "Protocol", partial |-> "Protocol",
     ambiguous |-> "Protocol", lost |-> Unsure(write, "Unavailable"),
     garbled |-> "Protocol"][f]

\* connect_fresh: no answer from the endpoint, or an error during the login.
TdsConnectFails(f) ==
    CASE f = "busy" -> "Timeout" [] f = "down" -> "Unavailable" [] OTHER -> map_tds_error(f, FALSE)

-----------------------------------------------------------------------------
\* ctid LIMIT, LIMIT and TOP bound a structured update or delete in the statement.
BoundedBySql(a, op) ==
    a \in {"postgresql", "mysql", "sqlserver"} /\ op \in {"update", "delete"}

SqlManifest(a) ==
    CASE a \in {"postgresql", "cockroachdb"} -> PgManifest
      [] a = "mysql" -> MySqlManifest
      [] a = "oracle" -> OracleManifest
      [] a = "sqlserver" -> TdsManifest

SqlPlan(a, op, s) ==
    CASE a \in {"postgresql", "cockroachdb"} -> PgExecute(a, op, s)
      [] a = "mysql" -> MySqlExecute(op, s)
      [] a = "oracle" -> OracleExecute(op, s)
      [] a = "sqlserver" -> TdsExecute(op, s)

SqlFails(a, kind, f, write) ==
    CASE a \in {"postgresql", "cockroachdb"} -> map_pg_error(f, write)
      [] a = "mysql" -> map_mysql_error(f, write)
      [] a = "oracle" -> unknown_write_error(kind, f, write)
      [] a = "sqlserver" -> map_tds_error(f, write)

SqlConnectFails(a, f) ==
    CASE a \in {"postgresql", "cockroachdb"} -> map_pg_pool_error(f)
      [] a = "oracle" -> map_oracle_pool_error(f)
      [] a = "mysql" -> map_mysql_error(f, FALSE)
      [] a = "sqlserver" -> TdsConnectFails(f)
=============================================================================
