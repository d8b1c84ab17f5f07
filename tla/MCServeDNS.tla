----------------------------- MODULE MCServeDNS -----------------------------
(***************************************************************************)
(* Instances of ServeDNS for TLC. Profiles and questions take part in Hash *)
(* and NoRequest, so only the query identities are symmetric.              *)
(***************************************************************************)
EXTENDS ServeDNS, TLC

CONSTANTS p1, p2, x1, x2, ptr

QuerySymmetry == Permutations(Queries)

\* x2 is x1 in another class: same name, same type. ptr is about something else.
Subjects == [x \in Questions |-> IF x = x2 THEN x1 ELSE x]

\* Two keys of one shard; the profiles collide on each question.
CollidingHash ==
  [r \in Request |-> IF r.question = x2 THEN 1 ELSE 0]

\* Two keys of one shard; the profiles collide on x1, and under p1 x1 and x2 do.
CollidingClasses ==
  [r \in Request |-> IF r.question = x2 /\ r.profile = p2 THEN 1 ELSE 0]

\* One key, for one profile and one question: no collision.
OneHash == [r \in Request |-> 0]
=============================================================================
