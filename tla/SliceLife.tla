------------------------------ MODULE SliceLife ------------------------------
(***************************************************************************)
(* The life of slice-queue.md: what may be written over what, whoever      *)
(* writes it.  The file is absent, or holds a queue; a write is one        *)
(* operation of the aggregate on the queue that was read from the file.    *)
(* DeepLooper, with its stages, its two Runs and its failures, is shown to *)
(* implement this specification (DeepLooper!QueueIsWellUsed).              *)
(***************************************************************************)
EXTENDS SliceQueue

CONSTANTS Designs,       \* the designs the synthesizer may write
          Proposals,     \* what the reflector may propose
          None,          \* the file is missing
          MaxAttempts    \* how often a slice may be requeued

ASSUME AttemptsAssumption == MaxAttempts \in Nat
ASSUME DesignsAssumption == \A d \in Designs : IsDesign(d)
ASSUME ProposalsAssumption == \A p \in Proposals : IsProposal(p)

VARIABLE file            \* slice-queue.md

\* What a writer may hold: the queue it wrote itself, or the one it parsed.
Held == {file, ReadBack(file)}

Building == IdsWith(file, {"building"})

Init == file = None

\* The slice loop, on its first entry.
Build == /\ file = None
         /\ \E d \in Designs : file' = BuildInitial(d)

\* The slice loop takes the next ready slice.
Take == /\ file # None
        /\ \E q \in Held :
             /\ HasReady(Promote(q))
             /\ file' = MarkBuilding(Promote(q), FirstReady(Promote(q)).id)

Finish == /\ file # None
          /\ \E s \in Building : file' = MarkDone(file, s)

Retry == /\ file # None
         /\ \E s \in Building : file' = Requeue(file, s)
         /\ \A i \in DOMAIN file' : file'[i].requeueCount <= MaxAttempts

GiveUp == /\ file # None
          /\ \E s \in Building : file' = Escalate(file, s)

\* The slice loop, after a redesign.
Redesign == /\ file # None
            /\ \E d \in Designs : file' = Reconcile(ReadBack(file), d)

\* Verify or accept has found failing criteria.
Remedy == /\ file # None
          /\ \E p \in Proposals : file' = ApplyRemediation(ReadBack(file), p).queue

\* The skeleton has implemented a tiny design whole: the file is replaced.
CarryForward == \E d \in Designs : Len(d.slices) <= 2 /\ file' = AllDone(d)

Next == \/ Build \/ Take \/ Finish \/ Retry \/ GiveUp
        \/ Redesign \/ Remedy \/ CarryForward

Spec == Init /\ [][Next]_file

-----------------------------------------------------------------------------
(***************************************************************************)
(* Properties.                                                             *)
(***************************************************************************)

\* However often the queue is reconciled, completed slices and new ones never
\* give the same design slice twice: every mutation rewrites all the slices
\* with an id, so a second one would be finished together with the first.
DesignSlicesUnique ==
  file # None =>
    \A i, j \in DOMAIN file :
      file[i].id = file[j].id /\ file[i].source = "design" => i = j

\* No pending slice is stranded: when nothing can be taken any more, a slice
\* is still being built or was escalated.  Selection, reconciliation and
\* reopening must keep every dependency in the queue until it is done.
NothingStranded ==
  file # None /\ IdsWith(file, {"pending"}) # {} /\ ~HasReady(Promote(file)) =>
    IdsWith(file, {"building", "escalated"}) # {}

Unfinished(q) == {i \in DOMAIN q : q[i].status \notin {"done", "escalated"}}

\* Whatever the state of the queue, a failing criterion that is proposed for
\* repair on its own ends up in a slice that is still to be built: by
\* reopening its owner, in the new slice, or where it was unfinished anyway.
ProposalsRepaired ==
  file # None =>
    \A p \in Proposals :
      LET result == ApplyRemediation(file, p).queue
      IN  \A i \in DOMAIN p : \A c \in CriteriaOf(file) :
            p[i].criteria = <<c>> => \E j \in Unfinished(result) : c \in result[j].criteria
=============================================================================
