------------------------------- MODULE Claims -------------------------------
(***************************************************************************)
(* What the comments and the documentation say of a run and its code does  *)
(* not do.  TLC refutes each of these; the README tells how.               *)
(***************************************************************************)
EXTENDS DeepLooper

\* slice-loop.ts:18, "On queue exhausted -> return PASS (pipeline loop routes
\* to verify)": the slice loop passes only with an exhausted queue.
VerifyOnExhaustedQueue ==
  AtStage("verify") => IsExhausted(QueueOnDisk)

\* outcome-interpreter.ts:36, "slice-loop clears the flag once it has
\* reconciled": once it is cleared, the slice loop does not save it again.
FlagStaysCleared ==
  [][ stateFile # None /\ ~stateFile.pendingReconcile /\ pc \in SliceLoopPc
      /\ stateFile' # None => ~stateFile'.pendingReconcile ]_vars

\* pipeline-loop.ts:117, the Run is re-synced because otherwise "the next save
\* would clobber those slice-level mutations": no save takes a count back.
NoSaveClobbers == [][CountsNeverDecrease]_vars

\* slice-queue.ts:9, callers "must detect zero-result parses on non-empty
\* designs and FAIL loudly": no design that declares slices and yields none
\* goes through the slice loop.
UnparsedDesignStops ==
  AtStage("verify") => ~(design.declares /\ design.slices = << >>)
=============================================================================
