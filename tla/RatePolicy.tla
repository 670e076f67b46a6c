---------------------------- MODULE RatePolicy ----------------------------
(***************************************************************************)
(* How rates are compared and how the rules of a rate limit plan are       *)
(* matched.  A rate is a number of KB/s, and 0 means no limit.  Both       *)
(* directions go through these operators one by one.                       *)
(***************************************************************************)
EXTENDS Naturals

\* A rule of a plan: it is triggered when either direction exceeds its threshold.
Rule == [id : Nat, priority : Nat, up : Nat, down : Nat, limit : Nat, allow : BOOLEAN]

\* The answer when no rule is triggered.
NoRule == [limit |-> 0, allow |-> TRUE]

\* The lowest rate; no limit is higher than any.
MinRate(S) ==
    IF S \subseteq {0} THEN 0 ELSE CHOOSE r \in S \ {0} : \A q \in S \ {0} : r <= q

Triggered(r, up, down) == up > r.up \/ down > r.down

\* The order of a plan's rules: priority, then the sum of the thresholds, then id.
Precedes(r, q) ==
    \/ r.priority > q.priority
    \/ r.priority = q.priority /\ r.up + r.down < q.up + q.down
    \/ r.priority = q.priority /\ r.up + r.down = q.up + q.down /\ r.id < q.id

\* The first triggered rule decides.
MatchRateLimitRule(rules, up, down) ==
    LET hit == {r \in rules : Triggered(r, up, down)}
        first == CHOOSE r \in hit : \A q \in hit \ {r} : Precedes(r, q)
    IN  IF hit = {} THEN NoRule ELSE [limit |-> first.limit, allow |-> first.allow]
=============================================================================
