----------------------------- MODULE MCSessions -----------------------------
(* Instances of Sessions for TLC. *)
EXTENDS Sessions, TLC

CONSTANTS r1, r2, b1, t1, t2, t3, t4

Pairs == {t1, t2, t3, t4}
Two == {r1, r2}
TwoOfOne == [r \in Two |-> b1]

\* Pairs of tokens, and two requests of one browser.
Alike == Permutations(Pairs) \union Permutations(Two)

=============================================================================
