-------------------------------- MODULE Maps --------------------------------
(* std::map as a function with a finite domain, and what the code does with *)
(* one: insert, operator[] and erase.                                       *)

EmptyMap == [a \in {} |-> 0]

\* f[a] = v
With(f, a, v) == [x \in DOMAIN f \cup {a} |-> IF x = a THEN v ELSE f[x]]

\* insert keeps an entry that is there
Inserted(f, a, v) == IF a \in DOMAIN f THEN f ELSE With(f, a, v)

\* erase
Without(f, a) == [x \in DOMAIN f \ {a} |-> f[x]]
=============================================================================
