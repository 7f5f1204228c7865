----------------------------- MODULE MCDispatch -----------------------------
(***************************************************************************)
(* Two tasks of a wave: the first makes a generic dispatch and then one    *)
(* with a label of its own, the second a generic one.                      *)
(***************************************************************************)
EXTENDS Dispatch

CONSTANTS code1, review1, code2

Calls    == {code1, review1, code2}
Chain    == [c \in Calls |-> IF c = review1 THEN code1 ELSE None]
KindOf   == [c \in Calls |-> IF c = review1 THEN "leaf" ELSE "generic"]
Labels   == {"generic", "reviewer"}
Shared   == [c \in Calls |-> IF c = review1 THEN "reviewer" ELSE "generic"]
=============================================================================
