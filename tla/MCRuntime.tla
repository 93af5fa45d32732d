----------------------------- MODULE MCRuntime ------------------------------
(***************************************************************************)
(* Instances of Runtime for TLC: the calls of each run are listed here.    *)
(***************************************************************************)
EXTENDS Runtime, TLC

CONSTANTS p1, p2, n1, n2, r1, r2, k1, o1, o2, g1, g2, c1, c2, c3

Claim(i, n, op, key) == [inst |-> i, conn |-> n, op |-> op, key |-> key]

Writing(id, g, claim) ==
    [inst |-> claim.inst, id |-> id, conn |-> claim.conn, kind |-> "write", op |-> claim.op,
     key |-> claim.key, grant |-> g]

Reading(i, id, n, kind) ==
    [inst |-> i, id |-> id, conn |-> n, kind |-> kind, op |-> o1, key |-> NoKey,
     grant |-> NoGrant]

\* Three writes under one key: a process sends a write and sends it again with the same
\* request id and grant; another process sends the write too, with a grant of its own.
WriteClaims == g1 :> Claim(p1, n1, o1, k1) @@ g2 :> Claim(p2, n1, o1, k1)

WriteRequests ==
    c1 :> Writing(r1, g1, WriteClaims[g1]) @@
    c2 :> Writing(r1, g1, WriteClaims[g1]) @@
    c3 :> Writing(r1, g2, WriteClaims[g2])

\* Two concurrent writes of one process with the same grant and no key, while the
\* connection is edited, disabled, deleted or its credential rotated.
ChangeClaims == g1 :> Claim(p1, n1, o1, NoKey)

ChangeRequests ==
    c1 :> Writing(r1, g1, ChangeClaims[g1]) @@ c2 :> Writing(r2, g1, ChangeClaims[g1])

\* The two calls differ in nothing but their names and their request ids.
ChangeSymmetry ==
    {f \in Permutations({c1, c2, r1, r2}) :
        \A c \in {c1, c2} :
            f[c] \in {c1, c2} /\ f[ChangeRequests[c].id] = ChangeRequests[f[c]].id}

\* A confirmed write and a read on one connection, which takes one call at a time.
ProgressClaims == g1 :> Claim(p1, n1, o1, k1)

ProgressRequests ==
    c1 :> Writing(r1, g1, ProgressClaims[g1]) @@
    c2 :> Reading(p1, r2, n1, "read")

\* The write alone.
OversizeRequests == c1 :> Writing(r1, g1, ProgressClaims[g1])
=============================================================================
