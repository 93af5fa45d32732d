--------------------------- MODULE MCAdapterCalls ---------------------------
(***************************************************************************)
(* Instances of AdapterCalls for TLC.                                      *)
(***************************************************************************)
EXTENDS AdapterCalls, TLC

CONSTANTS a, b, r1, r2, i1, i2

DataOperations == Operations \ {"test", "describe"}

Ask1(op, recs, limit, id, cred) ==
    [op |-> op, recs |-> recs, limit |-> limit, id |-> id, cred |-> cred]

\* Call a: every operation, a write with one record more than max_affected or with as many, and
\* on one record where the adapter takes no more.  Call b: writes of the second record, one of
\* them with another credential, and a read under the same request id.
SomeRequests ==
    a :> ({Ask1(op, <<r1, r2>>, 2, i1, 1) : op \in DataOperations} \cup
          {Ask1(op, <<r1, r2>>, 1, i1, 1) : op \in {o \in DataOperations : operation_is_write(o)}} \cup
          {Ask1(op, <<r2>>, 1, i1, 1) : op \in {"update", "delete"}}) @@
    b :> {Ask1("insert", <<r2>>, 1, i2, 2), Ask1("update", <<r2>>, 1, i2, 1),
          Ask1("read", <<r2>>, 1, i1, 1)}

SomeStored == {{}, {r1, r2}}
=============================================================================
