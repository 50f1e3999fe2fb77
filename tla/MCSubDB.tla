------------------------------- MODULE MCSubDB -------------------------------
(* Instances of SubDB for TLC: two subjects of one hash, a pattern.        *)
EXTENDS SubDB, TLC

CONSTANTS a, b, w, con, t1, n1, n2

Collide == [r \in Subs \union Pats |-> IF r \in Subs THEN 1 ELSE 2]

NoResize == {{}}

AllAtOnce == {{}, Filters}

(* the subjects of one hash may be exchanged *)
Alike == Permutations({a, b})
=============================================================================
