--------------------------- MODULE SliceLife_proofs ---------------------------
(***************************************************************************)
(* What holds of slice-queue.md however its operations follow each other,  *)
(* for every design, every proposal and a queue of any length.             *)
(***************************************************************************)
EXTENDS SliceLife, SliceQueue_proofs

-----------------------------------------------------------------------------
(***************************************************************************)
(* The file holds a queue.                                                 *)
(***************************************************************************)

TypeInv == file # None => file \in Seq(Slice)

\* What a writer holds is a queue when the file is.
LEMMA HeldTypes == ASSUME TypeInv, file # None, NEW q \in Held PROVE q \in Seq(Slice)
BY ReadBackFacts DEF TypeInv, Held

\* Every step leaves a queue.
LEMMA TypeStep == TypeInv /\ [Next]_file => TypeInv'
<1> SUFFICES ASSUME TypeInv, [Next]_file PROVE TypeInv'
  OBVIOUS
<1>1. CASE Build
  BY <1>1, ParseDesignFacts, DesignsAssumption DEF Build, BuildInitial, TypeInv
<1>2. CASE Take
  <2>1. PICK q \in Held : file' = MarkBuilding(Promote(q), FirstReady(Promote(q)).id)
    BY <1>2 DEF Take
  <2>2. Promote(q) \in Seq(Slice)
    BY <1>2, HeldTypes, PromoteFacts DEF SameSlices, Take
  <2>3. QED
    BY <2>1, <2>2, SetStatusFacts DEF MarkBuilding, SameSlices, Status, TypeInv
<1>3. CASE Finish
  BY <1>3, SetStatusFacts DEF Finish, MarkDone, SameSlices, Status, TypeInv
<1>4. CASE Retry
  BY <1>4, RequeueFacts DEF Retry, SameSlices, TypeInv
<1>5. CASE GiveUp
  BY <1>5, SetStatusFacts DEF GiveUp, Escalate, SameSlices, Status, TypeInv
<1>6. CASE Redesign
  BY <1>6, ReadBackFacts, ReconcileFacts, DesignsAssumption DEF Redesign, TypeInv
<1>7. CASE Remedy
  BY <1>7, ReadBackFacts, ApplyRemediationFacts, ProposalsAssumption
     DEF Remedy, TypeInv, IsProposal
<1>8. CASE CarryForward
  BY <1>8, AllDoneFacts, DesignsAssumption DEF CarryForward, SameSlices, TypeInv
<1>9. CASE UNCHANGED file
  BY <1>9 DEF TypeInv
<1>10. QED
  BY <1>1, <1>2, <1>3, <1>4, <1>5, <1>6, <1>7, <1>8, <1>9 DEF Next

\* The file holds a queue, always.
LEMMA AlwaysTyped == Spec => []TypeInv
<1>1. Init => TypeInv
  BY DEF Init, TypeInv
<1>2. QED
  BY <1>1, TypeStep, PTL DEF Spec

-----------------------------------------------------------------------------
(***************************************************************************)
(* What a failing criterion comes to.                                      *)
(***************************************************************************)

\* Whatever the queue, a criterion of it that is proposed for repair on its own
\* is in a slice that is still to be built, when the whole proposal has been
\* applied (applyRemediationWithReopen, slice-queue.ts).
THEOREM ProposalsAreRepaired == Spec => []ProposalsRepaired
<1>1. TypeInv => ProposalsRepaired
  <2> SUFFICES ASSUME file \in Seq(Slice), NEW p \in Proposals,
                      NEW i \in DOMAIN p, NEW c \in CriteriaOf(file), p[i].criteria = <<c>>
               PROVE  LET result == ApplyRemediation(file, p).queue
                      IN  \E j \in Unfinished(result) : c \in result[j].criteria
    BY DEF TypeInv, ProposalsRepaired
  <2> DEFINE r == ApplyRemediation(file, p).queue
  <2>1. p \in Seq(Repair) /\ i \in 1 .. Len(p)
    <3>1. p \in Seq(Repair)
      BY ProposalsAssumption DEF IsProposal
    <3>2. QED
      BY <3>1, QueueElements
  <2>2. PICK acc, new : RemedyOf(r, file, p, acc, new)
    BY <2>1, ApplyRemediationFacts
  <2>3. InWork(acc.queue, c) \/ ToBeAdded(acc.toAdd, c)
    BY <2>1, <2>2 DEF RemedyOf, AppliedInv, Remedies
  <2> HIDE DEF r
  <2>4. CASE InWork(acc.queue, c)
    <3>1. PICK j \in DOMAIN acc.queue : /\ acc.queue[j].status \notin {"done", "escalated"}
                                        /\ c \in acc.queue[j].criteria
      BY <2>4 DEF InWork
    <3>2. j \in DOMAIN r /\ r[j] = acc.queue[j]
      BY <2>2 DEF RemedyOf, IsConcat
    <3>3. QED
      BY <3>1, <3>2 DEF Unfinished, r
  <2>5. CASE ToBeAdded(acc.toAdd, c)
    <3>1. PICK k \in DOMAIN acc.toAdd : c \in ToSet(acc.toAdd[k].criteria)
      BY <2>5 DEF ToBeAdded
    <3>2. k \in DOMAIN new /\ new[k].status = "ready" /\ c \in new[k].criteria
      BY <2>2, <3>1 DEF RemedyOf, Added
    <3>3. PICK j \in DOMAIN r : r[j] = new[k]
      BY <2>2, <3>2 DEF RemedyOf, IsConcat
    <3>4. QED
      BY <3>2, <3>3 DEF Unfinished, r
  <2>6. QED
    BY <2>3, <2>4, <2>5
<1>2. QED
  BY <1>1, AlwaysTyped, PTL

-----------------------------------------------------------------------------
(***************************************************************************)
(* A design slice is in the queue once.                                    *)
(***************************************************************************)

DesignedIds == UNION {IdsOf(d.slices) : d \in Designs}

\* A design has each of its sections once, and no proposal has the id of one.
DistinctIds == /\ \A d \in Designs : SectionsOnce(d)
               /\ \A p \in Proposals : \A k \in DOMAIN p : p[k].id \notin DesignedIds

DesignedOnce(q) == /\ Once(q, DesignedIds)
                   /\ \A i \in DOMAIN q : q[i].source = "design" => q[i].id \in DesignedIds

OnceInv == file # None => DesignedOnce(file)

\* A rewriting of statuses and counts keeps it ...
LEMMA SameDesignedOnce ==
  ASSUME NEW q \in Seq(Slice), NEW r, SameSlices(q, r), DesignedOnce(q)
  PROVE  DesignedOnce(r)
<1>1. Once(r, DesignedIds)
  BY SameOnce DEF DesignedOnce
<1>2. DOMAIN r = DOMAIN q
  BY SameDomain
<1>3. QED
  BY <1>1, <1>2 DEF DesignedOnce, SameSlices

\* ... and so does reading the file, ...
LEMMA ReadDesignedOnce ==
  ASSUME NEW q \in Seq(Slice), DesignedOnce(q) PROVE DesignedOnce(ReadBack(q))
<1> DEFINE I == {i \in DOMAIN q : q[i].id \in HeaderId}
           u == Only(q, I)
<1>1. u = ReadBack(q)
  BY ReadBackSelects
<1>2. IsSelection(u, q, I)
  BY OnlyFacts
<1> HIDE DEF I, u
<1>3. Once(u, DesignedIds)
  BY <1>2, SelectionOnce DEF DesignedOnce
<1>4. ASSUME NEW k \in DOMAIN u, u[k].source = "design" PROVE u[k].id \in DesignedIds
  <2>1. PICK i \in DOMAIN q : u[k] = q[i]
    BY <1>2 DEF IsSelection
  <2>2. QED
    BY <1>4, <2>1 DEF DesignedOnce
<1>5. QED
  BY <1>1, <1>3, <1>4 DEF DesignedOnce

\* ... a new queue has it, ...
LEMMA NewDesignedOnce ==
  ASSUME DistinctIds, NEW d \in Designs PROVE DesignedOnce(ParseDesign(d))
<1>1. IsDesign(d) /\ SectionsOnce(d)
  BY DesignsAssumption DEF DistinctIds
<1>2. \A i \in DOMAIN d.slices : d.slices[i].id \in DesignedIds
  BY DEF DesignedIds, IdsOf
<1>3. QED
  BY <1>1, <1>2, ParseDesignFacts DEF DesignedOnce, Once, SectionsOnce

\* ... reconciliation keeps it, ...
LEMMA ReconcileDesignedOnce ==
  ASSUME DistinctIds, NEW q \in Seq(Slice), DesignedOnce(q), NEW d \in Designs
  PROVE  DesignedOnce(Reconcile(q, d))
<1>1. IsDesign(d) /\ SectionsOnce(d)
  BY DesignsAssumption DEF DistinctIds
<1>2. Once(Reconcile(q, d), DesignedIds)
  BY <1>1, ReconcileOnce DEF DesignedOnce
<1>3. DesignedOnce(ParseDesign(d)) /\ DOMAIN ParseDesign(d) = DOMAIN d.slices
  BY <1>1, NewDesignedOnce, ParseDesignFacts
<1> DEFINE r == Reconcile(q, d)
<1>4. ASSUME NEW k \in DOMAIN r, r[k].source = "design" PROVE r[k].id \in DesignedIds
  <2>1. \/ \E i \in DOMAIN q : r[k] = q[i]
        \/ \E i \in DOMAIN d.slices : r[k] = ParseDesign(d)[i]
    BY <1>1, ReconcileFacts DEF IsReconciliation
  <2> HIDE DEF r
  <2>2. CASE \E i \in DOMAIN q : r[k] = q[i]
    BY <1>4, <2>2 DEF DesignedOnce
  <2>3. CASE \E i \in DOMAIN d.slices : r[k] = ParseDesign(d)[i]
    BY <1>3, <1>4, <2>3 DEF DesignedOnce
  <2>4. QED
    BY <2>1, <2>2, <2>3
<1>5. QED
  BY <1>2, <1>4 DEF DesignedOnce

\* ... and remediation does.
LEMMA RemedyDesignedOnce ==
  ASSUME DistinctIds, NEW q \in Seq(Slice), DesignedOnce(q), NEW p \in Proposals
  PROVE  DesignedOnce(ApplyRemediation(q, p).queue)
<1> DEFINE r == ApplyRemediation(q, p).queue
<1>1. p \in Seq(Repair)
  BY ProposalsAssumption DEF IsProposal
<1>2. r \in Seq(Slice) /\ \E acc, new : RemedyOf(r, q, p, acc, new)
  BY <1>1, ApplyRemediationFacts
<1>3. PICK acc, new : RemedyOf(r, q, p, acc, new)
  BY <1>2
<1> HIDE DEF r
<1>4. acc.queue \in Seq(Slice) /\ DesignedOnce(acc.queue)
  BY <1>3, SameDesignedOnce DEF RemedyOf, AppliedInv, RemedyTypes, Acc
<1>5. IsConcat(r, acc.queue, new) /\ DOMAIN r \subseteq Nat /\ Len(acc.queue) \in Nat
  BY <1>2, <1>3, <1>4, QueueElements DEF RemedyOf
<1>6. ASSUME NEW k \in DOMAIN new
      PROVE  new[k].id \notin DesignedIds /\ new[k].source = "remediation"
  <2>1. k \in DOMAIN acc.toAdd /\ new[k].id = acc.toAdd[k].id /\ new[k].source = "remediation"
    BY <1>3, <1>6 DEF RemedyOf, Added
  <2>2. PICK i \in 1 .. Len(p) : acc.toAdd[k].id = p[i].id
    BY <1>3, <2>1 DEF RemedyOf, AppliedInv, RemedyIds
  <2>3. i \in DOMAIN p
    BY <1>1, QueueElements
  <2>4. QED
    BY <2>1, <2>2, <2>3 DEF DistinctIds
<1>7. Once(new, DesignedIds)
  BY <1>6 DEF Once
<1>8. Once(r, DesignedIds)
  BY <1>4, <1>5, <1>6, <1>7, ConcatOnce DEF DesignedOnce
<1>9. ASSUME NEW k \in DOMAIN r, r[k].source = "design" PROVE r[k].id \in DesignedIds
  <2>1. CASE k \in DOMAIN acc.queue
    BY <1>4, <1>5, <1>9, <2>1 DEF IsConcat, DesignedOnce
  <2>2. CASE k \notin DOMAIN acc.queue
    <3>1. k - Len(acc.queue) \in DOMAIN new /\ r[k] = new[k - Len(acc.queue)]
      BY <1>5, <2>2 DEF IsConcat
    <3>2. QED
      BY <1>6, <1>9, <3>1
  <2>3. QED
    BY <2>1, <2>2
<1>10. QED
  BY <1>8, <1>9 DEF DesignedOnce, r

\* Every step keeps a design slice in the queue once.
LEMMA OnceStep == DistinctIds /\ TypeInv /\ OnceInv /\ [Next]_file => OnceInv'
<1> SUFFICES ASSUME DistinctIds, TypeInv, OnceInv, [Next]_file PROVE OnceInv'
  OBVIOUS
<1> USE DEF OnceInv
<1>1. CASE Build
  BY <1>1, NewDesignedOnce DEF Build, BuildInitial
<1>2. CASE Take
  <2>1. PICK q \in Held : file' = MarkBuilding(Promote(q), FirstReady(Promote(q)).id)
    BY <1>2 DEF Take
  <2>2. q \in Seq(Slice) /\ DesignedOnce(q)
    BY <1>2, HeldTypes, ReadDesignedOnce DEF Take, Held, TypeInv
  <2>3. Promote(q) \in Seq(Slice) /\ DesignedOnce(Promote(q))
    BY <2>2, PromoteFacts, SameDesignedOnce DEF SameSlices
  <2>4. SameSlices(Promote(q), file')
    BY <2>1, <2>3, SetStatusFacts DEF MarkBuilding, Status
  <2>5. QED
    BY <2>3, <2>4, SameDesignedOnce
<1>3. CASE Finish \/ Retry \/ GiveUp
  <2>1. file \in Seq(Slice) /\ DesignedOnce(file)
    BY <1>3 DEF Finish, Retry, GiveUp, TypeInv
  <2>2. SameSlices(file, file')
    BY <1>3, <2>1, SetStatusFacts, RequeueFacts
       DEF Finish, Retry, GiveUp, MarkDone, Escalate, Status
  <2>3. QED
    BY <2>1, <2>2, SameDesignedOnce
<1>4. CASE Redesign
  BY <1>4, ReadBackFacts, ReadDesignedOnce, ReconcileDesignedOnce DEF Redesign, TypeInv
<1>5. CASE Remedy
  BY <1>5, ReadBackFacts, ReadDesignedOnce, RemedyDesignedOnce DEF Remedy, TypeInv
<1>6. CASE CarryForward
  <2>1. PICK d \in Designs : file' = AllDone(d)
    BY <1>6 DEF CarryForward
  <2>2. QED
    BY <2>1, NewDesignedOnce, SameDesignedOnce, AllDoneFacts, ParseDesignFacts, DesignsAssumption
<1>7. CASE UNCHANGED file
  BY <1>7
<1>8. QED
  BY <1>1, <1>2, <1>3, <1>4, <1>5, <1>6, <1>7 DEF Next

\* As long as the designs repeat no id and the reflector takes none of theirs, the
\* queue never has the same design slice twice, in any number of reconciliations
\* and repairs: no slice is finished because another with its id was.
THEOREM DesignSlicesAreUnique == DistinctIds /\ Spec => []DesignSlicesUnique
<1> SUFFICES ASSUME DistinctIds PROVE Spec => []DesignSlicesUnique
  OBVIOUS
<1>1. Init => OnceInv
  BY DEF Init, OnceInv
<1>2. OnceInv => DesignSlicesUnique
  BY DEF OnceInv, DesignedOnce, Once, DesignSlicesUnique
<1>3. QED
  BY <1>1, <1>2, OnceStep, AlwaysTyped, PTL DEF Spec

-----------------------------------------------------------------------------
(***************************************************************************)
(* No pending slice is stranded.                                           *)
(***************************************************************************)

\* The headings name every slice, and the designs can be worked through.
WorkableDesigns == HeaderId = SliceId /\ \A d \in Designs : Resolvable(d)

WorkInv == file # None => Workable(file)

\* Every step leaves a workable queue.
LEMMA WorkStep == WorkableDesigns /\ TypeInv /\ WorkInv /\ [Next]_file => WorkInv'
<1> SUFFICES ASSUME WorkableDesigns, TypeInv, WorkInv, [Next]_file PROVE WorkInv'
  OBVIOUS
<1> USE DEF WorkInv
<1>1. file # None => /\ file \in Seq(Slice) /\ Workable(file)
                     /\ ReadBack(file) = file /\ Held = {file}
  BY ReadBackFacts DEF TypeInv, WorkableDesigns, Held
<1>2. \A d \in Designs : IsDesign(d) /\ Resolvable(d)
  BY DesignsAssumption DEF WorkableDesigns
<1>3. CASE Build
  BY <1>2, <1>3, NewWorkable DEF Build, BuildInitial
<1>4. CASE Take
  <2> DEFINE t == Promote(file)
  <2>1. file \in Seq(Slice) /\ Workable(file) /\ file' = MarkBuilding(t, FirstReady(t).id)
    BY <1>1, <1>4 DEF Take
  <2>2. SameSlices(file, t) /\ t \in Seq(Slice)
        /\ \A i \in DOMAIN file : t[i].status = file[i].status \/ t[i].status = "ready"
    BY <2>1, PromoteFacts DEF SameSlices
  <2>3. SameSlices(t, file')
        /\ \A i \in DOMAIN t : file'[i].status = t[i].status \/ file'[i].status = "building"
    BY <2>1, <2>2, SetStatusFacts DEF MarkBuilding, Status
  <2> HIDE DEF t
  <2>4. Workable(t)
    BY <2>1, <2>2, SameWorkable
  <2>5. QED
    BY <2>2, <2>3, <2>4, SameWorkable
<1>5. CASE Finish \/ Retry \/ GiveUp
  <2>1. file \in Seq(Slice) /\ Workable(file)
    BY <1>1, <1>5 DEF Finish, Retry, GiveUp
  <2>2. SameSlices(file, file')
        /\ \A i \in DOMAIN file : file'[i].status \in {"pending", "blocked"}
                                    => file'[i].status = file[i].status
    BY <1>5, <2>1, SetStatusFacts, RequeueFacts
       DEF Finish, Retry, GiveUp, MarkDone, Escalate, Status
  <2>3. QED
    BY <2>1, <2>2, SameWorkable
<1>6. CASE Redesign
  BY <1>1, <1>2, <1>6, ReconcileWorkable DEF Redesign
<1>7. CASE Remedy
  BY <1>1, <1>7, RemedyWorkable, ProposalsAssumption DEF Remedy, IsProposal
<1>8. CASE CarryForward
  <2>1. PICK d \in Designs : file' = AllDone(d)
    BY <1>8 DEF CarryForward
  <2>2. ParseDesign(d) \in Seq(Slice) /\ Workable(ParseDesign(d))
    BY <1>2, NewWorkable, ParseDesignFacts
  <2>3. SameSlices(ParseDesign(d), file') /\ DOMAIN file' = DOMAIN ParseDesign(d)
        /\ \A i \in DOMAIN file' : file'[i].status = "done"
    BY <1>2, <2>1, <2>2, AllDoneFacts, SameDomain
  <2>4. QED
    BY <2>2, <2>3, SameWorkable
<1>9. CASE UNCHANGED file
  BY <1>9 DEF Workable, Grounded, NeverBlocked, IdsOf
<1>10. QED
  BY <1>3, <1>4, <1>5, <1>6, <1>7, <1>8, <1>9 DEF Next

\* As long as the dependencies of a design are its own and go back, no pending
\* slice is stranded: selection, reconciliation with any redesign and the reopening
\* of slices keep in the queue whatever a pending slice waits for.
THEOREM NothingIsStranded == WorkableDesigns /\ Spec => []NothingStranded
<1> SUFFICES ASSUME WorkableDesigns PROVE Spec => []NothingStranded
  OBVIOUS
<1>1. Init => WorkInv
  BY DEF Init, WorkInv
<1>2. TypeInv /\ WorkInv => NothingStranded
  BY WorkableNotStranded DEF TypeInv, WorkInv, NothingStranded
<1>3. QED
  BY <1>1, <1>2, WorkStep, AlwaysTyped, PTL DEF Spec
=============================================================================
