----------------------------- MODULE WriteOnce ------------------------------
(***************************************************************************)
(* What a client of the connector may rely on about writes, whatever       *)
(* processes crash and whatever is cancelled, retried or timed out:        *)
(*   - of all the calls that name one idempotency key on one connection,   *)
(*     at most one takes effect in the database;                           *)
(*   - "ok" is answered only for a write that took effect, and "failed"    *)
(*     only for one that has not and never will.                           *)
(* "unknown" promises nothing; "withheld" says that the write took effect  *)
(* but its result was too large to return.                                 *)
(***************************************************************************)
CONSTANTS
    Writes,           \* the write calls
    SameKey(_, _)     \* two writes that carry the same key

VARIABLES
    effect,           \* the writes that took effect
    answer            \* what each caller was told

Answers == {"none", "ok", "withheld", "failed", "unknown"}

Init ==
    /\ effect = {}
    /\ answer = [w \in Writes |-> "none"]

\* A write takes effect: its caller may have given up, but was not told that it failed.
Apply(w) ==
    /\ w \notin effect
    /\ answer[w] \in {"none", "unknown"}
    /\ \A v \in effect : ~SameKey(v, w)
    /\ effect' = effect \cup {w}
    /\ UNCHANGED answer

Answer(w, a) ==
    /\ answer[w] = "none"
    /\ a \in {"ok", "withheld"} => w \in effect
    /\ a = "failed" => w \notin effect
    /\ answer' = [answer EXCEPT ![w] = a]
    /\ UNCHANGED effect

Next ==
    \E w \in Writes :
        \/ Apply(w)
        \/ \E a \in Answers \ {"none"} : Answer(w, a)

Spec == Init /\ [][Next]_<<effect, answer>>
=============================================================================
