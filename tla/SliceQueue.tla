----------------------------- MODULE SliceQueue -----------------------------
(***************************************************************************)
(* The SliceQueue aggregate (src/domain/slice/slice-queue.ts): the ordered *)
(* list of vertical slices a run works through, as pure operators over a   *)
(* sequence of slice records.  A design document is what its two parsers   *)
(* extract from it: the slices in document order, and whether it has a     *)
(* slices section at all.  Titles, reasons and the markdown are left out.  *)
(***************************************************************************)
EXTENDS Naturals, Sequences, SequencesExt

CONSTANTS SliceId,     \* slice ids, design ids and R-NNN ids alike
          HeaderId,    \* the ids that the heading pattern of parse() accepts
          Criterion    \* acceptance criteria

ASSUME HeaderIdAssumption == HeaderId \subseteq SliceId

Status == {"pending", "ready", "building", "done", "blocked", "escalated"}

Slice == [id : SliceId, deps : SUBSET SliceId, status : Status,
          requeueCount : Nat, criteria : SUBSET Criterion,
          phase : Nat, source : {"design", "remediation"}]

IsSlice(s) == s \in Slice

IsQueue(q) == q \in Seq(Slice)

\* What the parsers extract from a design, section by section, and what the
\* reflector gives for each repair.
Section == [id : SliceId, deps : SUBSET SliceId, criteria : SUBSET Criterion]
Repair == [id : SliceId, criteria : Seq(Criterion)]

IsDesign(d) == d.slices \in Seq(Section)
IsProposal(p) == p \in Seq(Repair)

IdsOf(q) == {q[i].id : i \in DOMAIN q}

IdsWith(q, statuses) == {q[i].id : i \in {j \in DOMAIN q : q[j].status \in statuses}}

DoneIds(q) == IdsWith(q, {"done"})

CriteriaOf(q) == UNION {q[i].criteria : i \in DOMAIN q}

\* The elements of s at the places in I, in their order.  (SelectSeq by a set
\* instead of a predicate: the provers have no definition of SelectSeq.)
Only(s, I) ==
  LET upTo[n \in 0 .. Len(s)] ==
        IF n = 0 THEN << >>
        ELSE IF n \in I THEN Append(upTo[n - 1], s[n]) ELSE upTo[n - 1]
  IN  upTo[Len(s)]

DoneSlices(q) == Only(q, {i \in DOMAIN q : q[i].status = "done"})

\* The slices of q without those that have one of the ids.
Without(q, ids) == Only(q, {i \in DOMAIN q : q[i].id \notin ids})

-----------------------------------------------------------------------------
(***************************************************************************)
(* From the design and from the file.                                      *)
(***************************************************************************)

\* A slice the parsers produce: pending, numbered by its place in the design.
ParseDesign(d) ==
  [i \in DOMAIN d.slices |->
     [id |-> d.slices[i].id, deps |-> d.slices[i].deps, status |-> "pending",
      requeueCount |-> 0, criteria |-> d.slices[i].criteria,
      phase |-> i, source |-> "design"]]

BuildInitial(d) == ParseDesign(d)

\* serialize() then parse(): a slice whose id the heading pattern refuses is
\* skipped; every other field this model keeps survives the round trip.
ReadBack(q) == IF IdsOf(q) \subseteq HeaderId THEN q
               ELSE Only(q, {i \in DOMAIN q : q[i].id \in HeaderId})

-----------------------------------------------------------------------------
(***************************************************************************)
(* Selection.                                                              *)
(***************************************************************************)

DepsDone(q, s) == s.deps \subseteq DoneIds(q)

\* Mutant: a pending slice is promoted without looking at its dependencies.
PromoteAll(q) ==
  [i \in DOMAIN q |-> IF q[i].status = "pending"
                      THEN [q[i] EXCEPT !.status = "ready"] ELSE q[i]]

\* selectNextReady first promotes the pending slices whose deps are done ...
Promote(q) ==
  [i \in DOMAIN q |-> IF q[i].status = "pending" /\ DepsDone(q, q[i])
                      THEN [q[i] EXCEPT !.status = "ready"] ELSE q[i]]

ReadyAt(q) == {i \in DOMAIN q : q[i].status = "ready"}

HasReady(q) == ReadyAt(q) # {}

\* ... and then takes the first ready one in queue order.
FirstReady(q) == q[CHOOSE i \in ReadyAt(q) : \A j \in ReadyAt(q) : i <= j]

\* isExhausted, which only the resume inference asks.
IsExhausted(q) ==
  \A i \in DOMAIN q : q[i].status \in {"done", "blocked", "escalated"}

\* The slices the no-progress fingerprint counts.
Actionable(q) == {i \in DOMAIN q : q[i].status \in {"ready", "building"}}

-----------------------------------------------------------------------------
(***************************************************************************)
(* Status mutations: every slice with the id is rewritten.                 *)
(***************************************************************************)

SetStatus(q, id, st) ==
  [i \in DOMAIN q |-> IF q[i].id = id THEN [q[i] EXCEPT !.status = st] ELSE q[i]]

MarkBuilding(q, id) == SetStatus(q, id, "building")
MarkDone(q, id)     == SetStatus(q, id, "done")
Escalate(q, id)     == SetStatus(q, id, "escalated")

\* Mutant: the reopened slice is given its reason, and keeps its status.
ReopenInPlace(q, id) == q

Reopen(q, id) == SetStatus(q, id, "ready")

\* Mutant: the requeued slice keeps its status.
RequeueInPlace(q, id) ==
  [i \in DOMAIN q |-> IF q[i].id = id
                      THEN [q[i] EXCEPT !.requeueCount = @ + 1] ELSE q[i]]

Requeue(q, id) ==
  [i \in DOMAIN q |-> IF q[i].id = id
                      THEN [q[i] EXCEPT !.status = "ready", !.requeueCount = @ + 1]
                      ELSE q[i]]

\* The skeleton's carry-forward queue: the design's slices, all done.
AllDone(d) == LET q == BuildInitial(d)
              IN  [i \in DOMAIN q |-> [q[i] EXCEPT !.status = "done"]]

-----------------------------------------------------------------------------
(***************************************************************************)
(* Reconciliation with a new design: the done slices first, as they were,  *)
(* then the slices of the new design that are not among them.              *)
(***************************************************************************)

\* Mutant: preserveDone is lost, so completed slices are dropped.
ReconcileForgetful(q, d) == ParseDesign(d)

\* Mutant: a new slice is added even when it is already done.
ReconcileDuplicating(q, d) ==
  DoneSlices(q) \o ParseDesign(d)

\* Mutant: a new slice is dropped when the old queue has it in any status.
ReconcileDropping(q, d) ==
  DoneSlices(q) \o Without(ParseDesign(d), IdsOf(q))

Reconcile(q, d) ==
  DoneSlices(q) \o Without(ParseDesign(d), DoneIds(q))

-----------------------------------------------------------------------------
(***************************************************************************)
(* Remediation.  An entry is an R-NNN id and the criteria, in order, that  *)
(* the reflector proposes to repair.  It reopens the slice that owns its   *)
(* first criterion when each of its criteria has an owner, and becomes a   *)
(* new slice otherwise.                                                    *)
(***************************************************************************)

OwnersOf(q, c) == {i \in DOMAIN q : /\ q[i].status \in {"done", "escalated"}
                                    /\ c \in q[i].criteria}

FirstOwner(q, c) == q[CHOOSE i \in OwnersOf(q, c) : \A j \in OwnersOf(q, c) : i <= j]

LastPhase(q) == Max({0} \cup {q[i].phase : i \in DOMAIN q})

AddRemediation(q, entries) ==
  q \o [i \in DOMAIN entries |->
          [id |-> entries[i].id, deps |-> {}, status |-> "ready",
           requeueCount |-> 0, criteria |-> ToSet(entries[i].criteria),
           phase |-> LastPhase(q) + i, source |-> "remediation"]]

\* The reopened queue so far, and the entries that are to be added to it.
ApplyEntry(acc, e) ==
  IF e.criteria = << >> THEN acc
  ELSE IF \A i \in DOMAIN e.criteria : OwnersOf(acc.queue, e.criteria[i]) # {}
  THEN LET id == FirstOwner(acc.queue, e.criteria[1]).id
       IN  [acc EXCEPT !.queue = Reopen(@, id), !.reopened = @ \cup {id}]
  ELSE [acc EXCEPT !.toAdd = Append(@, e)]

\* allowCriterion of verify and accept: the criteria that the queue knows.
Allowed(q, e) ==
  [e EXCEPT !.criteria = Only(@, {k \in DOMAIN @ : @[k] \in CriteriaOf(q)})]

\* The entries are applied one after the other.
Applied(q, entries) ==
  LET upTo[n \in 0 .. Len(entries)] ==
        IF n = 0 THEN [queue |-> q, reopened |-> {}, toAdd |-> << >>]
                 ELSE ApplyEntry(upTo[n - 1], Allowed(q, entries[n]))
  IN  upTo[Len(entries)]

\* applyRemediationWithReopen: the new slices come after the reopening.
ApplyRemediation(q, entries) ==
  LET acc == Applied(q, entries)
  IN  [queue    |-> AddRemediation(acc.queue, acc.toAdd),
       reopened |-> acc.reopened,
       added    |-> {acc.toAdd[i].id : i \in DOMAIN acc.toAdd}]
=============================================================================
