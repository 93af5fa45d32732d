--------------------------- MODULE MCControlPlane ---------------------------
(***************************************************************************)
(* Instances of ControlPlane for TLC: what the commands are asked.         *)
(***************************************************************************)
EXTENDS ControlPlane, TLC

CONSTANTS a, b, n1, n2, r1, password, token, v1, v2, k1, k2, ro, rw

Secret(k, v) == [kind |-> k, value |-> v]

Plain(do) ==
    [do |-> do, conn |-> n1, ref |-> r1, kind |-> password, policy |-> Nothing,
     enabled |-> TRUE, secret |-> Nothing, key |-> k1]

StoredConnection == [conn |-> n1, ref |-> r1, secret |-> Secret(password, v1), key |-> k1,
                     policy |-> ro]

\* A new connection whose reference may be taken; a deletion and a creation under the
\* same id; credentials of another kind.
Creations ==
    {[Plain("create") EXCEPT !.conn = c, !.policy = rw, !.secret = Secret(password, v2)] :
        c \in {n1, n2}} \cup
    {[Plain("create") EXCEPT !.conn = n2, !.policy = rw, !.secret = Secret(token, v2)]}

\* Full edits with and without new credentials; a changed kind without them is refused.
Edits ==
    {[Plain("update_connection") EXCEPT !.kind = s.kind, !.secret = s] :
        s \in {Secret(password, v2), Secret(token, v2)}} \cup
    {[Plain("update_connection") EXCEPT !.kind = k, !.policy = rw] : k \in {password, token}} \cup
    {[Plain("update_profile") EXCEPT !.policy = rw],
     [Plain("set_policy") EXCEPT !.policy = rw],
     [Plain("set_enabled") EXCEPT !.enabled = FALSE], Plain("set_enabled")}

Rotations ==
    {[Plain("rotate") EXCEPT !.secret = Secret(password, v2)]} \cup
    {[Plain("replace_secret") EXCEPT !.secret = Secret(k, v2)] : k \in {password, token}}

Others == {Plain("delete"), Plain("test_saved"), Plain("authorize"), Plain("mcp"),
           [Plain("mcp") EXCEPT !.key = k2]}

AllRequests == Creations \cup Edits \cup Rotations \cup Others

ProcSymmetry == Permutations(Procs)

\* Two policy editors and a confirmed write.
PolicyRequests ==
    {[Plain("set_policy") EXCEPT !.policy = pol] : pol \in {ro, rw}} \cup {Plain("authorize")}
=============================================================================
