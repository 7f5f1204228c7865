------------------------------ MODULE Progress ------------------------------
(***************************************************************************)
(* What it is for steps to use something up: each leaves less of a tuple   *)
(* of numbers, of which the earlier weigh more.                            *)
(***************************************************************************)
EXTENDS Integers

Tuples(n) == [1 .. n -> Nat]

\* The lexicographic order.
Less(a, b) == \E i \in DOMAIN a : a[i] < b[i] /\ \A j \in 1 .. i - 1 : a[j] = b[j]

\* The steps down.
Descents(n) == {d \in Tuples(n) \X Tuples(n) : Less(d[2], d[1])}
=============================================================================
