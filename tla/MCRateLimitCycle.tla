------------------------- MODULE MCRateLimitCycle -------------------------
(***************************************************************************)
(* Instances of RateLimitCycle for TLC.                                    *)
(***************************************************************************)
EXTENDS RateLimitCycle

\* More than one byte is refused, some traffic is slowed down.
Strict == [period |-> 2,
           rules |-> {[id |-> 1, priority |-> 2, up |-> 1, down |-> 9, limit |-> 0,
                       allow |-> FALSE],
                      [id |-> 2, priority |-> 1, up |-> 0, down |-> 9, limit |-> 1,
                       allow |-> TRUE]}]

\* The same with a short period.
Hasty == [Strict EXCEPT !.period = 1]

OnlyStrict == {Strict}
OnlyHasty == {Hasty}
=============================================================================
