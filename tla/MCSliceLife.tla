----------------------------- MODULE MCSliceLife -----------------------------
(***************************************************************************)
(* An instance of SliceLife for TLC: a design of three slices, and a tiny  *)
(* one that drops a slice and turns the others round.                      *)
(***************************************************************************)
EXTENDS SliceLife

CONSTANT MaxSlices   \* how long remediation may make the queue

Short == Remedy => Len(file') <= MaxSlices

Ids == {"A", "B", "C", "R-001"}
Criteria == {"a", "b", "c"}

DesignSlice(id, deps, c) == [id |-> id, deps |-> deps, criteria |-> {c}]

Chain  == [slices |-> <<DesignSlice("A", {}, "a"), DesignSlice("B", {"A"}, "b"),
                        DesignSlice("C", {"A", "B"}, "c")>>]
Turned == [slices |-> <<DesignSlice("C", {}, "c"), DesignSlice("B", {"C"}, "b")>>]

SomeDesigns == {Chain, Turned}

Entry(c) == << [id |-> "R-001", criteria |-> c] >>
SingleEntries == {Entry(<<c>>) : c \in Criteria}
=============================================================================
