---------------------------- MODULE MCWorkerIpc -----------------------------
(***************************************************************************)
(* Instances of WorkerIpc for TLC: the jobs of each run are listed here.   *)
(***************************************************************************)
EXTENDS WorkerIpc, TLC

CONSTANTS w1, d1, k1, v1, s1, r1, r2, x1, x2, n1

Call(kind, id) == [kind |-> kind, id |-> id, conn |-> n1, target |-> id]

Cancel(id, target) == [kind |-> "cancel", id |-> id, conn |-> n1, target |-> target]

\* A write, its cancellation, and an invalidation of its connection.
WriteJobs ==
    w1 :> Call("write", r1) @@ k1 :> Cancel(x1, r1) @@ v1 :> Call("invalidate", x2)

\* A write, and a read that is cancelled: reads are repeated on a new worker.
CancelJobs == w1 :> Call("write", r1) @@ d1 :> Call("read", r2) @@ k1 :> Cancel(x1, r2)

\* A read, the invalidation of its connection, and the shutdown of the MCP process.
ShutdownJobs ==
    d1 :> Call("read", r1) @@ v1 :> Call("invalidate", x1) @@ s1 :> Call("shutdown", x2)

\* A read and two control calls.
RestartJobs ==
    d1 :> Call("read", r1) @@ v1 :> Call("invalidate", x1) @@ k1 :> Cancel(x2, r1)
=============================================================================
