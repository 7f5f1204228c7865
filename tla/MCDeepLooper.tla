---------------------------- MODULE MCDeepLooper ----------------------------
(***************************************************************************)
(* Small instances of DeepLooper for TLC: two design slices and one of     *)
(* remediation, the designs over them, what the reflector may propose, the *)
(* settings of a process and how often the environment may do what.        *)
(***************************************************************************)
EXTENDS Claims

Ids == {"A", "B", "R-001"}
Criteria == {"a", "b"}

DesignSlice(id, deps, c) == [id |-> id, deps |-> deps, criteria |-> {c}]

\* B waits for A; a redesign may do without A.
Chain     == [slices |-> <<DesignSlice("A", {}, "a"), DesignSlice("B", {"A"}, "b")>>,
              declares |-> TRUE]
OnlyB     == [slices |-> <<DesignSlice("B", {}, "b")>>, declares |-> TRUE]
\* A slices section that the parsers find nothing in.
Garbled   == [slices |-> << >>, declares |-> TRUE]

OneDesign      == {Chain}
TwoDesigns     == {Chain, OnlyB}
MaybeGarbled   == {Chain, Garbled}
AnyDesign      == {Chain, OnlyB, Garbled}

\* One entry, for a or for both.
Entry(id, c) == [id |-> id, criteria |-> c]
OneEntry     == {<< Entry("R-001", <<"a">>) >>}
SomeEntries  == OneEntry \cup {<< Entry("R-001", <<"a", "b">>) >>}

Automated  == {[interactive |-> FALSE, bestEffort |-> FALSE]}
BestEffort == {[interactive |-> FALSE, bestEffort |-> TRUE]}
FailClosed == {s \in Setting : ~s.bestEffort}
\* An operator who may also reject allows all that the other settings do,
\* but for the automatic retry of best-effort.
Interactive == {[interactive |-> TRUE, bestEffort |-> FALSE]}

Limits(crash, throw, resume, retry, remediation) ==
  [e \in Event |->
     CASE e = "crash" -> crash [] e = "throw" -> throw [] e = "resume" -> resume
       [] e = "retry" -> retry [] e = "remediation" -> remediation]

NoFailures       == Limits(0, 0, 0, 1, 1)
OneResume        == Limits(0, 0, 1, 1, 1)
OneCrash         == Limits(1, 0, 1, 0, 0)
CrashAndRemedy   == Limits(1, 0, 0, 0, 1)
CrashAndThrow    == Limits(1, 1, 0, 0, 0)
OneThrow         == Limits(0, 1, 0, 0, 0)
=============================================================================
