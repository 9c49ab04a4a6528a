-------------------------------- MODULE Maps --------------------------------
(* Go maps as functions. *)

\* A map whose keys are in S and whose values are in T.
IsMap(f, S, T) == f \in [DOMAIN f -> T] /\ DOMAIN f \subseteq S

Empty == [x \in {} |-> x]

\* m[k] = v
Put(f, k, v) == [x \in DOMAIN f \cup {k} |-> IF x = k THEN v ELSE f[x]]

\* delete(m, k)
Drop(f, k) == [x \in DOMAIN f \ {k} |-> f[x]]
=============================================================================
