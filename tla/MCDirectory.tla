---------------------------- MODULE MCDirectory ----------------------------
(***************************************************************************)
(* Instances of Directory for TLC.                                         *)
(***************************************************************************)
EXTENDS Directory, TLC

CONSTANTS r1, r2

RequestSymmetry == Permutations({r1, r2})

\* One more user and one more group than the installation makes, and two more
\* memberships: enough for a handler in flight and a batch to add the same one.
SmallKeys == [user |-> 2, group |-> 2, member |-> 3, acl |-> 1]

\* The second user and the second group may be given permissions.
SomeSubjects == {<<"user", 2>>, <<"group", 2>>}
=============================================================================
