-------------------------- MODULE SliceQueue_proofs --------------------------
(***************************************************************************)
(* What the operations of the slice queue do to any queue: selections keep *)
(* the order and lose nothing they should keep, and no operation loses a   *)
(* completed slice, gives a slice twice or forgets a dependency, except as *)
(* the lemmas say; and a queue that can be worked through stays one.       *)
(*                                                                         *)
(* Selections and remediation go along a sequence, and what they come to   *)
(* is proved by induction along it.  WFMin is the induction principle that *)
(* is about a set and not an operator: a set of numbers has a least one.   *)
(***************************************************************************)
EXTENDS SliceQueue, SequenceTheorems, WellFoundedInduction, TLAPS

-----------------------------------------------------------------------------
(***************************************************************************)
(* Induction.                                                              *)
(***************************************************************************)

\* A set of numbers that is not empty has a least one: what every induction here rests on.
LEMMA LeastNumber ==
  ASSUME NEW T \in SUBSET Nat, T # {}
  PROVE  \E n \in T : \A m \in T : n <= m
<1> DEFINE R == {ss \in Nat \X Nat : ss[1] < ss[2]}
<1>1. IsWellFoundedOn(R, Nat)
  BY NatLessThanWellFounded DEF OpToRel
<1>2. PICK n \in T : \A m \in T : ~(<<m, n>> \in R)
  BY <1>1, WFMin
<1>3. \A m, k \in Nat : m < k => <<m, k>> \in R
  OBVIOUS
<1> HIDE DEF R
<1>4. ASSUME NEW m \in T PROVE n <= m
  <2>1. ~(m < n)
    BY <1>2, <1>3
  <2>2. QED
    BY <2>1
<1>5. QED
  BY <1>4

\* Induction on the numbers up to n.
LEMMA Induction ==
  ASSUME NEW n \in Nat, NEW T, 0 \in T, \A k \in 0 .. n - 1 : k \in T => k + 1 \in T
  PROVE  \A k \in 0 .. n : k \in T
<1> DEFINE Left == {k \in 0 .. n : k \notin T}
<1> SUFFICES ASSUME Left # {} PROVE FALSE
  OBVIOUS
<1>1. Left \in SUBSET Nat
  OBVIOUS
<1> HIDE DEF Left
<1>2. PICK k \in Left : \A m \in Left : k <= m
  BY <1>1, LeastNumber
<1>3. k \in 0 .. n /\ k \notin T
  BY DEF Left
<1>4. k # 0 /\ k - 1 \in 0 .. n - 1 /\ k = (k - 1) + 1
  BY <1>3
<1>5. k - 1 \notin Left
  BY <1>2, <1>3
<1>6. k - 1 \in T
  BY <1>3, <1>4, <1>5 DEF Left
<1>7. QED
  BY <1>3, <1>4, <1>6

-----------------------------------------------------------------------------
(***************************************************************************)
(* Selection from a sequence.                                              *)
(***************************************************************************)

\* What upTo of Only has to satisfy up to n.
Selects(f, n, s, I) ==
  f = [k \in 0 .. n |->
         IF k = 0 THEN << >>
         ELSE IF k \in I THEN Append(f[k - 1], s[k]) ELSE f[k - 1]]

\* There is a function that Only's local definition describes.
LEMMA SelectionExists ==
  ASSUME NEW s, NEW I, Len(s) \in Nat
  PROVE  \E f : Selects(f, Len(s), s, I)
<1> DEFINE T == {n \in Nat : \E f : Selects(f, n, s, I)}
<1>1. 0 \in T
  <2>1. Selects([k \in 0 .. 0 |-> << >>], 0, s, I)
    BY DEF Selects
  <2>2. QED
    BY <2>1
<1>2. \A n \in 0 .. Len(s) - 1 : n \in T => n + 1 \in T
  <2> SUFFICES ASSUME NEW n \in 0 .. Len(s) - 1, n \in T PROVE n + 1 \in T
    OBVIOUS
  <2>1. PICK f : Selects(f, n, s, I)
    OBVIOUS
  <2> DEFINE last == IF n + 1 \in I THEN Append(f[n], s[n + 1]) ELSE f[n]
             g == [k \in 0 .. n + 1 |-> IF k = n + 1 THEN last ELSE f[k]]
  <2>2. \A k \in 0 .. n : f[k] = IF k = 0 THEN << >>
                                 ELSE IF k \in I THEN Append(f[k - 1], s[k]) ELSE f[k - 1]
    BY <2>1 DEF Selects
  <2>3. \A k \in 0 .. n + 1 :
          g[k] = IF k = 0 THEN << >>
                 ELSE IF k \in I THEN Append(g[k - 1], s[k]) ELSE g[k - 1]
    BY <2>2
  <2>4. Selects(g, n + 1, s, I)
    BY <2>3 DEF Selects
  <2>5. QED
    BY <2>4
<1> HIDE DEF T
<1>3. Len(s) \in T
  <2>1. \A n \in 0 .. Len(s) : n \in T
    BY <1>1, <1>2, Induction
  <2>2. QED
    BY <2>1
<1>4. QED
  BY <1>3 DEF T

\* The places that u was taken from.
IsTrace(m, u, n, s, I) ==
  /\ \A k \in 1 .. Len(u) : m[k] \in 1 .. n /\ m[k] \in I /\ u[k] = s[m[k]]
  /\ \A j, k \in 1 .. Len(u) : j < k => m[j] < m[k]
  /\ \A i \in 1 .. n : i \in I => \E k \in 1 .. Len(u) : m[k] = i

\* u is the selection from the first n elements.
Traced(u, n, s, I, S) == u \in Seq(S) /\ \E m : IsTrace(m, u, n, s, I)

\* Nothing is selected from nothing.
LEMMA TracedFirst == ASSUME NEW S, NEW s, NEW I PROVE Traced(<< >>, 0, s, I, S)
<1>1. << >> \in Seq(S) /\ Len(<< >>) = 0
  BY EmptySeq
<1>2. IsTrace(<< >>, << >>, 0, s, I)
  BY <1>1 DEF IsTrace
<1>3. QED
  BY <1>1, <1>2 DEF Traced

\* One element more: it is selected, or it is not.
LEMMA TracedNext ==
  ASSUME NEW S, NEW s \in Seq(S), NEW I, NEW u, NEW n \in 0 .. Len(s) - 1,
         Traced(u, n, s, I, S)
  PROVE  /\ n + 1 \notin I => Traced(u, n + 1, s, I, S)
         /\ n + 1 \in I => Traced(Append(u, s[n + 1]), n + 1, s, I, S)
<1>1. u \in Seq(S) /\ s[n + 1] \in S /\ n \in Nat /\ Len(u) \in Nat
  BY DEF Traced
<1>2. PICK m : IsTrace(m, u, n, s, I)
  BY DEF Traced
<1> DEFINE len == Len(u)
<1>3. /\ \A k \in 1 .. len : m[k] \in 1 .. n /\ m[k] \in I /\ u[k] = s[m[k]]
      /\ \A j, k \in 1 .. len : j < k => m[j] < m[k]
      /\ \A i \in 1 .. n : i \in I => \E k \in 1 .. len : m[k] = i
  BY <1>2 DEF IsTrace
<1>4. ASSUME n + 1 \notin I PROVE Traced(u, n + 1, s, I, S)
  <2>1. \A i \in 1 .. n + 1 : i \in I => i \in 1 .. n
    BY <1>1, <1>4
  <2>2. \A k \in 1 .. n : k \in 1 .. n + 1
    BY <1>1
  <2>3. \A k \in 1 .. len : m[k] \in 1 .. n + 1 /\ m[k] \in I /\ u[k] = s[m[k]]
    BY <1>3, <2>2
  <2>4. \A i \in 1 .. n + 1 : i \in I => \E k \in 1 .. len : m[k] = i
    BY <1>3, <2>1
  <2>5. IsTrace(m, u, n + 1, s, I)
    BY <1>3, <2>3, <2>4 DEF IsTrace
  <2>6. QED
    BY <1>1, <2>5 DEF Traced
<1>5. ASSUME n + 1 \in I PROVE Traced(Append(u, s[n + 1]), n + 1, s, I, S)
  <2> DEFINE v == Append(u, s[n + 1])
             mm == [k \in 1 .. len + 1 |-> IF k = len + 1 THEN n + 1 ELSE m[k]]
  <2>1. /\ v \in Seq(S) /\ Len(v) = len + 1 /\ len \in Nat
        /\ \A k \in 1 .. len : v[k] = u[k]
        /\ v[len + 1] = s[n + 1]
    BY <1>1
  <2> HIDE DEF v, len
  <2>2. \A k \in 1 .. len : mm[k] = m[k] /\ k \in 1 .. len + 1
    BY <2>1
  <2>3. mm[len + 1] = n + 1 /\ len + 1 \in 1 .. len + 1
    BY <2>1
  <2>4. \A k \in 1 .. len + 1 : k \in 1 .. len \/ k = len + 1
    BY <2>1
  <2> HIDE DEF mm
  <2>5. \A k \in 1 .. len + 1 : mm[k] \in 1 .. n + 1 /\ mm[k] \in I /\ v[k] = s[mm[k]]
    <3> SUFFICES ASSUME NEW k \in 1 .. len + 1
                 PROVE  mm[k] \in 1 .. n + 1 /\ mm[k] \in I /\ v[k] = s[mm[k]]
      OBVIOUS
    <3>1. CASE k = len + 1
      BY <1>1, <1>5, <2>1, <2>3, <3>1
    <3>2. CASE k \in 1 .. len
      <4>1. m[k] \in 1 .. n /\ m[k] \in I /\ u[k] = s[m[k]]
        BY <1>3, <3>2
      <4>2. mm[k] = m[k] /\ v[k] = u[k]
        BY <2>1, <2>2, <3>2
      <4>3. QED
        BY <1>1, <4>1, <4>2
    <3>3. QED
      BY <2>4, <3>1, <3>2
  <2>6. \A j, k \in 1 .. len + 1 : j < k => mm[j] < mm[k]
    <3> SUFFICES ASSUME NEW j \in 1 .. len + 1, NEW k \in 1 .. len + 1, j < k
                 PROVE  mm[j] < mm[k]
      OBVIOUS
    <3>1. j \in 1 .. len /\ mm[j] = m[j] /\ m[j] \in 1 .. n
      BY <1>3, <2>1, <2>2
    <3>2. CASE k = len + 1
      BY <1>1, <2>3, <3>1, <3>2
    <3>3. CASE k \in 1 .. len
      BY <1>3, <2>2, <3>1, <3>3
    <3>4. QED
      BY <2>4, <3>2, <3>3
  <2>7. \A i \in 1 .. n + 1 : i \in I => \E k \in 1 .. len + 1 : mm[k] = i
    <3> SUFFICES ASSUME NEW i \in 1 .. n + 1, i \in I
                 PROVE  \E k \in 1 .. len + 1 : mm[k] = i
      OBVIOUS
    <3>1. CASE i = n + 1
      BY <2>3, <3>1
    <3>2. CASE i \in 1 .. n
      BY <1>3, <2>2, <3>2
    <3>3. QED
      BY <1>1, <3>1, <3>2
  <2>8. IsTrace(mm, v, n + 1, s, I)
    BY <2>1, <2>5, <2>6, <2>7 DEF IsTrace
  <2>9. QED
    BY <2>1, <2>8 DEF Traced, v
<1>6. QED
  BY <1>4, <1>5

\* What Only returns is traced to the places it was taken from.
LEMMA OnlyTraced ==
  ASSUME NEW S, NEW s \in Seq(S), NEW I
  PROVE  Traced(Only(s, I), Len(s), s, I, S)
<1>1. Len(s) \in Nat
  OBVIOUS
<1> DEFINE f == CHOOSE g : Selects(g, Len(s), s, I)
<1>2. Only(s, I) = f[Len(s)]
  BY DEF Only, Selects
<1>3. Selects(f, Len(s), s, I)
  BY <1>1, SelectionExists
<1> HIDE DEF f
<1>4. \A k \in 0 .. Len(s) :
        f[k] = IF k = 0 THEN << >>
               ELSE IF k \in I THEN Append(f[k - 1], s[k]) ELSE f[k - 1]
  BY <1>3 DEF Selects
<1> DEFINE T == {n \in 0 .. Len(s) : Traced(f[n], n, s, I, S)}
<1>5. 0 \in T
  <2>1. f[0] = << >> /\ 0 \in 0 .. Len(s)
    BY <1>1, <1>4
  <2>2. QED
    BY <2>1, TracedFirst
<1>6. \A n \in 0 .. Len(s) - 1 : n \in T => n + 1 \in T
  <2> SUFFICES ASSUME NEW n \in 0 .. Len(s) - 1, Traced(f[n], n, s, I, S)
               PROVE  Traced(f[n + 1], n + 1, s, I, S)
    BY <1>1
  <2>1. n + 1 \in 0 .. Len(s) /\ n + 1 # 0 /\ (n + 1) - 1 = n
    BY <1>1
  <2>2. f[n + 1] = IF n + 1 \in I THEN Append(f[n], s[n + 1]) ELSE f[n]
    BY <1>4, <2>1
  <2>3. /\ n + 1 \notin I => Traced(f[n], n + 1, s, I, S)
        /\ n + 1 \in I => Traced(Append(f[n], s[n + 1]), n + 1, s, I, S)
    BY TracedNext
  <2>4. QED
    BY <2>2, <2>3
<1> HIDE DEF T
<1>7. Len(s) \in T
  <2>1. \A n \in 0 .. Len(s) : n \in T
    BY <1>1, <1>5, <1>6, Induction
  <2>2. QED
    BY <1>1, <2>1
<1>8. QED
  BY <1>2, <1>7 DEF T

\* What is selected is an element at a place in I, and each such is selected;
\* two that are selected come from two places.
IsSelection(u, s, I) ==
  /\ \A k \in DOMAIN u : \E i \in DOMAIN s : i \in I /\ u[k] = s[i]
  /\ \A i \in DOMAIN s : i \in I => \E k \in DOMAIN u : u[k] = s[i]
  /\ \A j, k \in DOMAIN u : j # k =>
       \E i, n \in DOMAIN s : i # n /\ u[j] = s[i] /\ u[k] = s[n]

\* Only returns a sequence, and the selection of the places in I.
LEMMA OnlyFacts ==
  ASSUME NEW S, NEW s \in Seq(S), NEW I
  PROVE  Only(s, I) \in Seq(S) /\ IsSelection(Only(s, I), s, I)
<1> DEFINE u == Only(s, I)
<1>1. u \in Seq(S) /\ \E m : IsTrace(m, u, Len(s), s, I)
  BY OnlyTraced DEF Traced
<1>2. PICK m : IsTrace(m, u, Len(s), s, I)
  BY <1>1
<1>3. DOMAIN s = 1 .. Len(s) /\ DOMAIN u = 1 .. Len(u) /\ Len(u) \in Nat /\ Len(s) \in Nat
  BY <1>1
<1> HIDE DEF u
<1>4. /\ \A k \in 1 .. Len(u) : m[k] \in 1 .. Len(s) /\ m[k] \in I /\ u[k] = s[m[k]]
      /\ \A j, k \in 1 .. Len(u) : j < k => m[j] < m[k]
      /\ \A i \in 1 .. Len(s) : i \in I => \E k \in 1 .. Len(u) : m[k] = i
  BY <1>2 DEF IsTrace
<1>5. \A j, k \in 1 .. Len(u) : j # k => m[j] # m[k]
  <2> SUFFICES ASSUME NEW j \in 1 .. Len(u), NEW k \in 1 .. Len(u), j # k PROVE m[j] # m[k]
    OBVIOUS
  <2>1. m[j] \in Int /\ m[k] \in Int /\ (j < k \/ k < j)
    BY <1>3, <1>4
  <2>2. QED
    BY <1>4, <2>1
<1>6. \A j, k \in DOMAIN u : j # k =>
        \E a, b \in DOMAIN s : a # b /\ u[j] = s[a] /\ u[k] = s[b]
  BY <1>3, <1>4, <1>5
<1>7. \A k \in DOMAIN u : \E i \in DOMAIN s : i \in I /\ u[k] = s[i]
  BY <1>3, <1>4
<1>8. \A i \in DOMAIN s : i \in I => \E k \in DOMAIN u : u[k] = s[i]
  BY <1>3, <1>4
<1>9. IsSelection(u, s, I)
  BY <1>6, <1>7, <1>8 DEF IsSelection
<1>10. QED
  BY <1>1, <1>9 DEF u

\* A selection of everything is the sequence itself.
LEMMA OnlyAll ==
  ASSUME NEW S, NEW s \in Seq(S), NEW I, DOMAIN s \subseteq I
  PROVE  Only(s, I) = s
<1>1. Len(s) \in Nat /\ DOMAIN s = 1 .. Len(s)
  OBVIOUS
<1> DEFINE f == CHOOSE g : Selects(g, Len(s), s, I)
<1>2. Only(s, I) = f[Len(s)]
  BY DEF Only, Selects
<1>3. Selects(f, Len(s), s, I)
  BY <1>1, SelectionExists
<1> HIDE DEF f
<1>4. \A k \in 0 .. Len(s) :
        f[k] = IF k = 0 THEN << >>
               ELSE IF k \in I THEN Append(f[k - 1], s[k]) ELSE f[k - 1]
  BY <1>3 DEF Selects
<1> DEFINE T == {n \in 0 .. Len(s) : f[n] = SubSeq(s, 1, n)}
<1>5. 0 \in T
  <2>1. f[0] = << >> /\ 0 \in 0 .. Len(s)
    BY <1>1, <1>4
  <2>2. SubSeq(s, 1, 0) = << >>
    OBVIOUS
  <2>3. QED
    BY <2>1, <2>2
<1>6. \A n \in 0 .. Len(s) - 1 : n \in T => n + 1 \in T
  <2> SUFFICES ASSUME NEW n \in 0 .. Len(s) - 1, f[n] = SubSeq(s, 1, n)
               PROVE  f[n + 1] = SubSeq(s, 1, n + 1)
    BY <1>1
  <2>1. n + 1 \in DOMAIN s /\ n + 1 \in 0 .. Len(s) /\ n + 1 # 0 /\ (n + 1) - 1 = n
    BY <1>1
  <2>2. f[n + 1] = Append(SubSeq(s, 1, n), s[n + 1])
    BY <1>4, <2>1
  <2>3. Append(SubSeq(s, 1, n), s[n + 1]) = SubSeq(s, 1, n + 1)
    BY <1>1
  <2>4. QED
    BY <2>2, <2>3
<1> HIDE DEF T
<1>7. Len(s) \in T
  <2>1. \A n \in 0 .. Len(s) : n \in T
    BY <1>1, <1>5, <1>6, Induction
  <2>2. QED
    BY <1>1, <2>1
<1>8. f[Len(s)] = SubSeq(s, 1, Len(s))
  BY <1>7 DEF T
<1>9. SubSeq(s, 1, Len(s)) = s
  OBVIOUS
<1>10. QED
  BY <1>2, <1>8, <1>9

-----------------------------------------------------------------------------
(***************************************************************************)
(* Every operation yields a queue.                                         *)
(***************************************************************************)

\* The slices of r are those of q, but for their status and their attempts.
SameSlices(q, r) ==
  /\ r \in Seq(Slice)
  /\ Len(r) = Len(q)
  /\ \A i \in DOMAIN q : /\ r[i].id = q[i].id
                         /\ r[i].deps = q[i].deps
                         /\ r[i].criteria = q[i].criteria
                         /\ r[i].source = q[i].source

\* A function on 1 .. n is a sequence of length n.
LEMMA FunctionIsSeq ==
  ASSUME NEW S, NEW n \in Nat, NEW r \in [1 .. n -> S]
  PROVE  r \in Seq(S) /\ Len(r) = n
<1>1. r \in Seq(S)
  BY SeqDef
<1>2. Len(r) \in Nat /\ DOMAIN r = 1 .. Len(r) /\ DOMAIN r = 1 .. n
  BY <1>1, LenProperties
<1>3. QED
  BY <1>1, <1>2

\* A sequence has its elements at 1 .. Len.
LEMMA QueueElements ==
  ASSUME NEW S, NEW q \in Seq(S)
  PROVE  /\ Len(q) \in Nat
         /\ DOMAIN q = 1 .. Len(q)
         /\ \A i \in DOMAIN q : q[i] \in S
BY LenProperties

\* Rewriting the slices of a queue one by one, but for their status and count.
Rewrites(q, r) ==
  /\ DOMAIN r = DOMAIN q
  /\ r = [i \in DOMAIN q |-> r[i]]
  /\ \A i \in DOMAIN q : \E st \in Status, n \in Nat :
       r[i] = [q[i] EXCEPT !.status = st, !.requeueCount = n]

\* Rewriting statuses and counts leaves the same slices.
LEMMA Rewritten ==
  ASSUME NEW q \in Seq(Slice), NEW r, Rewrites(q, r)
  PROVE  SameSlices(q, r)
<1>1. Len(q) \in Nat /\ DOMAIN q = 1 .. Len(q) /\ \A i \in DOMAIN q : q[i] \in Slice
  BY QueueElements
<1>2. ASSUME NEW i \in DOMAIN q
      PROVE  r[i] \in Slice /\ r[i].id = q[i].id /\ r[i].deps = q[i].deps
             /\ r[i].criteria = q[i].criteria /\ r[i].source = q[i].source
  <2>1. PICK st \in Status, n \in Nat :
          r[i] = [q[i] EXCEPT !.status = st, !.requeueCount = n]
    BY DEF Rewrites
  <2>2. q[i] \in Slice
    BY <1>1
  <2>3. QED
    BY <2>1, <2>2 DEF Slice
<1>3. r \in [1 .. Len(q) -> Slice]
  BY <1>1, <1>2 DEF Rewrites
<1>4. r \in Seq(Slice) /\ Len(r) = Len(q)
  BY <1>1, <1>3, FunctionIsSeq
<1>5. QED
  BY <1>2, <1>4 DEF SameSlices

\* Promotion leaves the same slices ...
LEMMA PromoteSame == ASSUME NEW q \in Seq(Slice) PROVE SameSlices(q, Promote(q))
<1>1. \A i \in DOMAIN q : q[i] \in Slice
  OBVIOUS
<1>2. ASSUME NEW i \in DOMAIN q
      PROVE  \E st \in Status, n \in Nat :
               Promote(q)[i] = [q[i] EXCEPT !.status = st, !.requeueCount = n]
  <2>1. q[i] \in Slice
    BY <1>1
  <2>2. q[i] = [q[i] EXCEPT !.status = q[i].status, !.requeueCount = q[i].requeueCount]
    BY <2>1 DEF Slice
  <2>3. [q[i] EXCEPT !.status = "ready"]
          = [q[i] EXCEPT !.status = "ready", !.requeueCount = q[i].requeueCount]
    BY <2>1 DEF Slice
  <2>4. q[i].status \in Status /\ q[i].requeueCount \in Nat /\ "ready" \in Status
    BY <2>1 DEF Slice, Status
  <2>5. QED
    BY <2>2, <2>3, <2>4 DEF Promote
<1>3. Rewrites(q, Promote(q))
  BY <1>2 DEF Promote, Rewrites
<1>4. QED
  BY <1>3, Rewritten

\* ... and so does setting a status ...
LEMMA SetStatusSame ==
  ASSUME NEW q \in Seq(Slice), NEW id, NEW st \in Status
  PROVE  SameSlices(q, SetStatus(q, id, st))
<1>1. \A i \in DOMAIN q : q[i] \in Slice
  OBVIOUS
<1>2. ASSUME NEW i \in DOMAIN q
      PROVE  \E s \in Status, n \in Nat :
               SetStatus(q, id, st)[i] = [q[i] EXCEPT !.status = s, !.requeueCount = n]
  <2>1. q[i] \in Slice
    BY <1>1
  <2>2. q[i] = [q[i] EXCEPT !.status = q[i].status, !.requeueCount = q[i].requeueCount]
    BY <2>1 DEF Slice
  <2>3. [q[i] EXCEPT !.status = st]
          = [q[i] EXCEPT !.status = st, !.requeueCount = q[i].requeueCount]
    BY <2>1 DEF Slice
  <2>4. q[i].status \in Status /\ q[i].requeueCount \in Nat
    BY <2>1 DEF Slice
  <2>5. QED
    BY <2>2, <2>3, <2>4 DEF SetStatus
<1>3. Rewrites(q, SetStatus(q, id, st))
  BY <1>2 DEF SetStatus, Rewrites
<1>4. QED
  BY <1>3, Rewritten

\* ... and a requeue.
LEMMA RequeueSame ==
  ASSUME NEW q \in Seq(Slice), NEW id
  PROVE  SameSlices(q, Requeue(q, id))
<1>1. \A i \in DOMAIN q : q[i] \in Slice
  OBVIOUS
<1>2. ASSUME NEW i \in DOMAIN q
      PROVE  \E s \in Status, n \in Nat :
               Requeue(q, id)[i] = [q[i] EXCEPT !.status = s, !.requeueCount = n]
  <2>1. q[i] \in Slice
    BY <1>1
  <2>2. q[i] = [q[i] EXCEPT !.status = q[i].status, !.requeueCount = q[i].requeueCount]
    BY <2>1 DEF Slice
  <2>3. /\ q[i].status \in Status /\ "ready" \in Status
        /\ q[i].requeueCount \in Nat /\ q[i].requeueCount + 1 \in Nat
    BY <2>1 DEF Slice, Status
  <2>4. QED
    BY <2>2, <2>3 DEF Requeue
<1>3. Rewrites(q, Requeue(q, id))
  BY <1>2 DEF Requeue, Rewrites
<1>4. QED
  BY <1>3, Rewritten

\* What each of them does to the status and the count.
LEMMA SetStatusFacts ==
  ASSUME NEW q \in Seq(Slice), NEW id, NEW st \in Status
  PROVE  /\ SameSlices(q, SetStatus(q, id, st))
         /\ \A i \in DOMAIN q :
              /\ SetStatus(q, id, st)[i].requeueCount = q[i].requeueCount
              /\ SetStatus(q, id, st)[i].status = IF q[i].id = id THEN st ELSE q[i].status
<1>1. SameSlices(q, SetStatus(q, id, st))
  BY SetStatusSame
<1>2. \A i \in DOMAIN q : q[i] \in Slice
  BY QueueElements
<1>3. ASSUME NEW i \in DOMAIN q
      PROVE  /\ SetStatus(q, id, st)[i].requeueCount = q[i].requeueCount
             /\ SetStatus(q, id, st)[i].status = IF q[i].id = id THEN st ELSE q[i].status
  <2>1. q[i] \in Slice
    BY <1>2
  <2>2. QED
    BY <2>1 DEF SetStatus, Slice
<1>4. QED
  BY <1>1, <1>3

\* Reopening a slice makes it ready, and touches no other.
LEMMA ReopenFacts ==
  ASSUME NEW q \in Seq(Slice), NEW id
  PROVE  /\ SameSlices(q, Reopen(q, id))
         /\ \A i \in DOMAIN q : /\ Reopen(q, id)[i].requeueCount = q[i].requeueCount
                                /\ Reopen(q, id)[i].status
                                     = IF q[i].id = id THEN "ready" ELSE q[i].status
BY SetStatusFacts DEF Reopen, Status

\* Promotion makes exactly the pending slices ready whose dependencies are done.
LEMMA PromoteFacts ==
  ASSUME NEW q \in Seq(Slice)
  PROVE  /\ SameSlices(q, Promote(q))
         /\ \A i \in DOMAIN q :
              /\ Promote(q)[i].requeueCount = q[i].requeueCount
              /\ Promote(q)[i].status = IF q[i].status = "pending" /\ DepsDone(q, q[i])
                                        THEN "ready" ELSE q[i].status
<1>1. SameSlices(q, Promote(q))
  BY PromoteSame
<1>2. \A i \in DOMAIN q : q[i] \in Slice
  BY QueueElements
<1>3. ASSUME NEW i \in DOMAIN q
      PROVE  /\ Promote(q)[i].requeueCount = q[i].requeueCount
             /\ Promote(q)[i].status = IF q[i].status = "pending" /\ DepsDone(q, q[i])
                                       THEN "ready" ELSE q[i].status
  <2>1. q[i] \in Slice
    BY <1>2
  <2>2. QED
    BY <2>1 DEF Promote, Slice
<1>4. QED
  BY <1>1, <1>3

\* A requeue counts one attempt of the slice, makes it ready, and touches no other.
LEMMA RequeueFacts ==
  ASSUME NEW q \in Seq(Slice), NEW id
  PROVE  /\ SameSlices(q, Requeue(q, id))
         /\ \A i \in DOMAIN q :
              /\ Requeue(q, id)[i].requeueCount
                   = IF q[i].id = id THEN q[i].requeueCount + 1 ELSE q[i].requeueCount
              /\ Requeue(q, id)[i].status = IF q[i].id = id THEN "ready" ELSE q[i].status
<1>1. SameSlices(q, Requeue(q, id))
  BY RequeueSame
<1>2. \A i \in DOMAIN q : q[i] \in Slice
  BY QueueElements
<1>3. ASSUME NEW i \in DOMAIN q
      PROVE  /\ Requeue(q, id)[i].requeueCount
                   = IF q[i].id = id THEN q[i].requeueCount + 1 ELSE q[i].requeueCount
             /\ Requeue(q, id)[i].status = IF q[i].id = id THEN "ready" ELSE q[i].status
  <2>1. q[i] \in Slice
    BY <1>2
  <2>2. QED
    BY <2>1 DEF Requeue, Slice
<1>4. QED
  BY <1>1, <1>3

\* The same slices stand at the same places.
LEMMA SameDomain ==
  ASSUME NEW q \in Seq(Slice), NEW r, SameSlices(q, r) PROVE DOMAIN r = DOMAIN q
BY QueueElements DEF SameSlices

-----------------------------------------------------------------------------
(***************************************************************************)
(* A new queue, and the reconciliation of an old one.                      *)
(***************************************************************************)

\* What the parsers make of section i.
LEMMA ParseDesignFacts ==
  ASSUME NEW d, IsDesign(d)
  PROVE  /\ ParseDesign(d) \in Seq(Slice)
         /\ DOMAIN ParseDesign(d) = DOMAIN d.slices
         /\ \A i \in DOMAIN d.slices :
              /\ ParseDesign(d)[i].id = d.slices[i].id
              /\ ParseDesign(d)[i].deps = d.slices[i].deps
              /\ ParseDesign(d)[i].status = "pending"
              /\ ParseDesign(d)[i].requeueCount = 0
              /\ ParseDesign(d)[i].source = "design"
<1> DEFINE t == d.slices
<1>1. Len(t) \in Nat /\ DOMAIN t = 1 .. Len(t) /\ \A i \in DOMAIN t : t[i] \in Section
  BY QueueElements DEF IsDesign
<1>2. ASSUME NEW i \in DOMAIN t
      PROVE  [id |-> t[i].id, deps |-> t[i].deps, status |-> "pending", requeueCount |-> 0,
              criteria |-> t[i].criteria, phase |-> i, source |-> "design"] \in Slice
  <2>1. t[i] \in Section /\ i \in Nat
    BY <1>1
  <2>2. QED
    BY <2>1 DEF Section, Slice, Status
<1>3. ParseDesign(d) \in [1 .. Len(t) -> Slice]
  BY <1>1, <1>2 DEF ParseDesign
<1>4. ParseDesign(d) \in Seq(Slice)
  BY <1>1, <1>3, FunctionIsSeq
<1>5. QED
  BY <1>4 DEF ParseDesign

\* The queue of a tiny design is the design's, done.
LEMMA AllDoneFacts ==
  ASSUME NEW d, IsDesign(d)
  PROVE  /\ SameSlices(ParseDesign(d), AllDone(d))
         /\ \A i \in DOMAIN AllDone(d) : /\ AllDone(d)[i].status = "done"
                                         /\ AllDone(d)[i].requeueCount = 0
<1> DEFINE q == ParseDesign(d)
           r == [i \in DOMAIN q |-> [q[i] EXCEPT !.status = "done"]]
<1>1. AllDone(d) = r
  BY DEF AllDone, BuildInitial
<1>2. q \in Seq(Slice) /\ \A i \in DOMAIN q : q[i].requeueCount = 0
  BY ParseDesignFacts
<1> HIDE DEF q
<1>3. \A i \in DOMAIN q : q[i] \in Slice
  BY <1>2, QueueElements
<1>4. ASSUME NEW i \in DOMAIN q
      PROVE  /\ \E s \in Status, n \in Nat :
                  r[i] = [q[i] EXCEPT !.status = s, !.requeueCount = n]
             /\ r[i].status = "done" /\ r[i].requeueCount = 0
  <2>1. q[i] \in Slice
    BY <1>3
  <2>2. [q[i] EXCEPT !.status = "done"]
          = [q[i] EXCEPT !.status = "done", !.requeueCount = q[i].requeueCount]
    BY <2>1 DEF Slice
  <2>3. "done" \in Status /\ q[i].requeueCount \in Nat
    BY <2>1 DEF Slice, Status
  <2>4. /\ [q[i] EXCEPT !.status = "done"].status = "done"
        /\ [q[i] EXCEPT !.status = "done"].requeueCount = 0
    BY <1>2, <2>1 DEF Slice
  <2>5. QED
    BY <2>2, <2>3, <2>4
<1>5. Rewrites(q, r)
  BY <1>4 DEF Rewrites
<1>6. SameSlices(q, r)
  BY <1>2, <1>5, Rewritten
<1>7. \A i \in DOMAIN r : r[i].status = "done" /\ r[i].requeueCount = 0
  BY <1>4
<1>8. QED
  BY <1>1, <1>6, <1>7 DEF q

IsConcat(c, a, b) ==
  /\ DOMAIN a \subseteq DOMAIN c
  /\ \A i \in DOMAIN a : c[i] = a[i]
  /\ \A i \in DOMAIN b : Len(a) + i \in DOMAIN c /\ c[Len(a) + i] = b[i]
  /\ \A k \in DOMAIN c \ DOMAIN a : k - Len(a) \in DOMAIN b /\ c[k] = b[k - Len(a)]

\* What a concatenation has at its places.
LEMMA ConcatElements ==
  ASSUME NEW S, NEW a \in Seq(S), NEW b \in Seq(S)
  PROVE  a \o b \in Seq(S) /\ IsConcat(a \o b, a, b)
<1>1. /\ Len(a) \in Nat /\ Len(b) \in Nat
      /\ DOMAIN a = 1 .. Len(a) /\ DOMAIN b = 1 .. Len(b)
  BY LenProperties
<1>2. /\ a \o b \in Seq(S) /\ DOMAIN (a \o b) = 1 .. Len(a) + Len(b)
      /\ \A i \in 1 .. Len(a) + Len(b) :
           (a \o b)[i] = IF i <= Len(a) THEN a[i] ELSE b[i - Len(a)]
  BY ConcatProperties, LenProperties
<1>3. ASSUME NEW i \in DOMAIN b
      PROVE  Len(a) + i \in 1 .. Len(a) + Len(b) /\ ~(Len(a) + i <= Len(a))
             /\ (Len(a) + i) - Len(a) = i
  BY <1>1
<1>4. ASSUME NEW k \in 1 .. Len(a) + Len(b), k \notin 1 .. Len(a)
      PROVE  k - Len(a) \in 1 .. Len(b) /\ ~(k <= Len(a))
  BY <1>1, <1>4
<1> DEFINE c == a \o b
<1> HIDE DEF c
<1>5. c \in Seq(S) /\ IsConcat(c, a, b)
  BY <1>1, <1>2, <1>3, <1>4 DEF c, IsConcat
<1>6. QED
  BY <1>5 DEF c

\* Reconciliation: every slice of the result is a completed one of the old
\* queue, or a section of the design that is not completed; and each of those
\* is there.
IsReconciliation(r, q, d) ==
  /\ \A k \in DOMAIN r :
       \/ \E i \in DOMAIN q : q[i].status = "done" /\ r[k] = q[i]
       \/ \E i \in DOMAIN d.slices : d.slices[i].id \notin DoneIds(q) /\ r[k] = ParseDesign(d)[i]
  /\ \A i \in DOMAIN q : q[i].status = "done" => \E k \in DOMAIN r : r[k] = q[i]
  /\ \A i \in DOMAIN d.slices : d.slices[i].id \notin DoneIds(q) =>
       \E k \in DOMAIN r : r[k] = ParseDesign(d)[i]

\* Reconcile gives the done slices and the new design's others, and nothing else.
LEMMA ReconcileFacts ==
  ASSUME NEW q \in Seq(Slice), NEW d, IsDesign(d)
  PROVE  Reconcile(q, d) \in Seq(Slice) /\ IsReconciliation(Reconcile(q, d), q, d)
<1> DEFINE new == ParseDesign(d)
           I == {i \in DOMAIN q : q[i].status = "done"}
           J == {i \in DOMAIN new : new[i].id \notin DoneIds(q)}
           a == Only(q, I)
           b == Only(new, J)
<1>1. Reconcile(q, d) = a \o b
  BY DEF Reconcile, DoneSlices, Without
<1>2. new \in Seq(Slice) /\ DOMAIN new = DOMAIN d.slices
      /\ \A i \in DOMAIN new : new[i].id = d.slices[i].id
  BY ParseDesignFacts
<1>3. a \in Seq(Slice) /\ IsSelection(a, q, I)
  BY OnlyFacts
<1>4. b \in Seq(Slice) /\ IsSelection(b, new, J)
  BY <1>2, OnlyFacts
<1> DEFINE r == a \o b
<1>5. r \in Seq(Slice) /\ IsConcat(r, a, b)
  BY <1>3, <1>4, ConcatElements
<1>6. r = Reconcile(q, d)
  BY <1>1
<1> HIDE DEF a, b, new, r
<1>7. \A k \in DOMAIN r : \/ \E i \in DOMAIN q : q[i].status = "done" /\ r[k] = q[i]
                          \/ \E i \in DOMAIN d.slices : /\ d.slices[i].id \notin DoneIds(q)
                                                        /\ r[k] = new[i]
  <2> SUFFICES ASSUME NEW k \in DOMAIN r
               PROVE  \/ \E i \in DOMAIN q : q[i].status = "done" /\ r[k] = q[i]
                      \/ \E i \in DOMAIN d.slices : /\ d.slices[i].id \notin DoneIds(q)
                                                    /\ r[k] = new[i]
    OBVIOUS
  <2>1. CASE k \in DOMAIN a
    <3>1. r[k] = a[k]
      BY <1>5, <2>1 DEF IsConcat
    <3>2. PICK i \in DOMAIN q : i \in I /\ a[k] = q[i]
      BY <1>3, <2>1 DEF IsSelection
    <3>3. QED
      BY <3>1, <3>2
  <2>2. CASE k \notin DOMAIN a
    <3>1. PICK n \in DOMAIN b : r[k] = b[n]
      BY <1>5, <2>2 DEF IsConcat
    <3>2. PICK i \in DOMAIN new : i \in J /\ b[n] = new[i]
      BY <1>4, <3>1 DEF IsSelection
    <3>3. QED
      BY <1>2, <3>1, <3>2
  <2>3. QED
    BY <2>1, <2>2
<1>8. \A i \in DOMAIN q : q[i].status = "done" => \E k \in DOMAIN r : r[k] = q[i]
  BY <1>3, <1>5 DEF IsConcat, IsSelection
<1>9. \A i \in DOMAIN d.slices : d.slices[i].id \notin DoneIds(q) =>
        \E k \in DOMAIN r : r[k] = new[i]
  <2> SUFFICES ASSUME NEW i \in DOMAIN d.slices, d.slices[i].id \notin DoneIds(q)
               PROVE  \E k \in DOMAIN r : r[k] = new[i]
    OBVIOUS
  <2>1. PICK n \in DOMAIN b : b[n] = new[i]
    BY <1>2, <1>4 DEF IsSelection
  <2>2. QED
    BY <1>5, <2>1 DEF IsConcat
<1>10. IsReconciliation(r, q, d)
  BY <1>7, <1>8, <1>9 DEF new, IsReconciliation
<1>11. QED
  BY <1>5, <1>6, <1>10

\* Reading back selects the slices whose ids the heading pattern admits.
LEMMA ReadBackSelects ==
  ASSUME NEW q \in Seq(Slice)
  PROVE  ReadBack(q) = Only(q, {i \in DOMAIN q : q[i].id \in HeaderId})
<1> DEFINE I == {i \in DOMAIN q : q[i].id \in HeaderId}
<1>1. CASE IdsOf(q) \subseteq HeaderId
  <2>1. DOMAIN q \subseteq I
    BY <1>1 DEF IdsOf
  <2>2. Only(q, I) = q
    BY <2>1, OnlyAll
  <2>3. QED
    BY <1>1, <2>2 DEF ReadBack
<1>2. CASE ~(IdsOf(q) \subseteq HeaderId)
  BY <1>2 DEF ReadBack
<1>3. QED
  BY <1>1, <1>2

\* With ids that the heading pattern accepts, the file is read as it was written.
LEMMA ReadBackFacts ==
  ASSUME NEW q \in Seq(Slice)
  PROVE  /\ ReadBack(q) \in Seq(Slice)
         /\ \A k \in DOMAIN ReadBack(q) : \E i \in DOMAIN q : ReadBack(q)[k] = q[i]
         /\ HeaderId = SliceId => ReadBack(q) = q
<1> DEFINE I == {i \in DOMAIN q : q[i].id \in HeaderId}
<1>1. ReadBack(q) = Only(q, I)
  BY ReadBackSelects
<1>2. Only(q, I) \in Seq(Slice) /\ IsSelection(Only(q, I), q, I)
  BY OnlyFacts
<1>3. ASSUME HeaderId = SliceId PROVE Only(q, I) = q
  <2>1. \A i \in DOMAIN q : q[i].id \in SliceId
    <3>1. \A i \in DOMAIN q : q[i] \in Slice
      BY QueueElements
    <3>2. QED
      BY <3>1 DEF Slice
  <2>2. DOMAIN q \subseteq I
    BY <1>3, <2>1
  <2>3. QED
    BY <2>2, OnlyAll
<1>4. \A k \in DOMAIN Only(q, I) : \E i \in DOMAIN q : Only(q, I)[k] = q[i]
  BY <1>2 DEF IsSelection
<1>5. QED
  BY <1>1, <1>2, <1>3, <1>4

-----------------------------------------------------------------------------
(***************************************************************************)
(* One slice for an id.                                                    *)
(***************************************************************************)

\* No two slices of q have the same id, if it is one of ids.
Once(q, ids) == \A i, j \in DOMAIN q : q[i].id = q[j].id /\ q[i].id \in ids => i = j

\* Ids that occur once still do when the same slices are rewritten ...
LEMMA SameOnce ==
  ASSUME NEW q \in Seq(Slice), NEW r, SameSlices(q, r), NEW ids, Once(q, ids)
  PROVE  Once(r, ids)
<1>1. DOMAIN r = DOMAIN q
  BY QueueElements DEF SameSlices
<1>2. QED
  BY <1>1 DEF SameSlices, Once

\* ... or some of them selected ...
LEMMA SelectionOnce ==
  ASSUME NEW q, NEW u, NEW I, IsSelection(u, q, I), NEW ids, Once(q, ids)
  PROVE  Once(u, ids)
<1> SUFFICES ASSUME NEW j \in DOMAIN u, NEW k \in DOMAIN u, j # k,
                    u[j].id = u[k].id, u[j].id \in ids
             PROVE  FALSE
  BY DEF Once
<1>1. PICK i \in DOMAIN q, n \in DOMAIN q : i # n /\ u[j] = q[i] /\ u[k] = q[n]
  BY DEF IsSelection
<1>2. QED
  BY <1>1 DEF Once

\* ... or two queues put together that share none of these ids.
LEMMA ConcatOnce ==
  ASSUME NEW a, NEW b, NEW c, IsConcat(c, a, b), NEW ids,
         DOMAIN c \subseteq Nat, Len(a) \in Nat, Once(a, ids), Once(b, ids),
         \A i \in DOMAIN a, j \in DOMAIN b : a[i].id = b[j].id => a[i].id \notin ids
  PROVE  Once(c, ids)
<1> SUFFICES ASSUME NEW j \in DOMAIN c, NEW k \in DOMAIN c,
                    c[j].id = c[k].id, c[j].id \in ids
             PROVE  j = k
  BY DEF Once
<1>1. CASE j \in DOMAIN a /\ k \in DOMAIN a
  BY <1>1 DEF IsConcat, Once
<1>2. CASE j \notin DOMAIN a /\ k \notin DOMAIN a
  <2>1. /\ j - Len(a) \in DOMAIN b /\ c[j] = b[j - Len(a)]
        /\ k - Len(a) \in DOMAIN b /\ c[k] = b[k - Len(a)]
    BY <1>2 DEF IsConcat
  <2>2. j - Len(a) = k - Len(a)
    BY <2>1 DEF Once
  <2>3. QED
    BY <2>2
<1>3. CASE j \in DOMAIN a /\ k \notin DOMAIN a
  BY <1>3 DEF IsConcat
<1>4. CASE j \notin DOMAIN a /\ k \in DOMAIN a
  BY <1>4 DEF IsConcat
<1>5. QED
  BY <1>1, <1>2, <1>3, <1>4

\* A design has a section once, and so has the queue after a reconciliation.
SectionsOnce(d) == \A i, j \in DOMAIN d.slices : d.slices[i].id = d.slices[j].id => i = j

\* Reconciliation with a design whose sections are unique gives no slice twice.
LEMMA ReconcileOnce ==
  ASSUME NEW q \in Seq(Slice), NEW d, IsDesign(d), SectionsOnce(d), NEW ids, Once(q, ids)
  PROVE  Once(Reconcile(q, d), ids)
<1> DEFINE new == ParseDesign(d)
           I == {i \in DOMAIN q : q[i].status = "done"}
           J == {i \in DOMAIN new : new[i].id \notin DoneIds(q)}
           a == Only(q, I)
           b == Only(new, J)
           r == a \o b
<1>1. r = Reconcile(q, d)
  BY DEF Reconcile, DoneSlices, Without
<1>2. new \in Seq(Slice) /\ Once(new, ids)
  BY ParseDesignFacts DEF Once, SectionsOnce
<1>3. a \in Seq(Slice) /\ IsSelection(a, q, I)
  BY OnlyFacts
<1>4. b \in Seq(Slice) /\ IsSelection(b, new, J)
  BY <1>2, OnlyFacts
<1>5. r \in Seq(Slice) /\ IsConcat(r, a, b)
  BY <1>3, <1>4, ConcatElements
<1>6. Once(a, ids)
  BY <1>3, SelectionOnce
<1>7. Once(b, ids)
  BY <1>2, <1>4, SelectionOnce
<1> HIDE DEF a, b, new, r
<1>8. \A i \in DOMAIN a : a[i].id \in DoneIds(q)
  BY <1>3 DEF IsSelection, DoneIds, IdsWith
<1>9. \A j \in DOMAIN b : b[j].id \notin DoneIds(q)
  BY <1>4 DEF IsSelection
<1>10. DOMAIN r \subseteq Nat /\ Len(a) \in Nat
  BY <1>3, <1>5, QueueElements
<1>11. Once(r, ids)
  BY <1>5, <1>6, <1>7, <1>8, <1>9, <1>10, ConcatOnce
<1>12. QED
  BY <1>1, <1>11 DEF r

-----------------------------------------------------------------------------
(***************************************************************************)
(* Remediation.                                                            *)
(***************************************************************************)

\* The phase of a slice that is added to a queue is a number.
LEMMA LastPhaseIsNat == ASSUME NEW q \in Seq(Slice) PROVE LastPhase(q) \in Nat
<1>1. Len(q) \in Nat /\ DOMAIN q = 1 .. Len(q)
  BY QueueElements
<1>2. \A i \in DOMAIN q : q[i].phase \in Nat
  <2>1. \A i \in DOMAIN q : q[i] \in Slice
    BY QueueElements
  <2>2. QED
    BY <2>1 DEF Slice
<1> DEFINE P(n) == {0} \cup {q[i].phase : i \in 1 .. n}
           T == {n \in 0 .. Len(q) : \E m \in P(n) : m \in Nat /\ \A k \in P(n) : k <= m}
<1>3. 0 \in T
  <2>1. P(0) = {0} /\ 0 \in 0 .. Len(q)
    BY <1>1
  <2>2. QED
    BY <2>1
<1>4. \A n \in 0 .. Len(q) - 1 : n \in T => n + 1 \in T
  <2> SUFFICES ASSUME NEW n \in 0 .. Len(q) - 1, n \in T PROVE n + 1 \in T
    OBVIOUS
  <2>1. PICK m \in P(n) : m \in Nat /\ \A k \in P(n) : k <= m
    OBVIOUS
  <2>2. n + 1 \in 0 .. Len(q) /\ n + 1 \in DOMAIN q
    BY <1>1
  <2>3. P(n + 1) = P(n) \cup {q[n + 1].phase}
    BY <1>1
  <2> DEFINE new == q[n + 1].phase
  <2>4. new \in Nat
    BY <1>2, <2>2
  <2> HIDE DEF P, new
  <2>5. CASE new <= m
    BY <2>1, <2>2, <2>3, <2>4, <2>5 DEF new
  <2>6. CASE m < new
    <3>1. \A k \in P(n) : k \in Nat
      BY <1>1, <1>2 DEF P
    <3>2. \A k \in P(n + 1) : k <= new
      BY <2>1, <2>3, <2>4, <2>6, <3>1 DEF new
    <3>3. QED
      BY <2>2, <2>3, <2>4, <3>2 DEF new
  <2>7. QED
    BY <2>1, <2>4, <2>5, <2>6
<1> HIDE DEF T
<1>5. Len(q) \in T
  <2>1. \A n \in 0 .. Len(q) : n \in T
    BY <1>1, <1>3, <1>4, Induction
  <2>2. QED
    BY <1>1, <2>1
<1>6. PICK m \in P(Len(q)) : m \in Nat /\ \A k \in P(Len(q)) : k <= m
  BY <1>5 DEF T
<1>7. LastPhase(q) = Max(P(Len(q)))
  BY <1>1 DEF LastPhase
<1>8. \A k \in P(Len(q)) : k \in Nat
  BY <1>1, <1>2
<1> HIDE DEF P
<1>9. Max(P(Len(q))) \in P(Len(q))
  BY <1>6, <1>8 DEF Max
<1>10. QED
  BY <1>7, <1>8, <1>9

\* The slices that are added come after the others.
Added(new, e) ==
  /\ new \in Seq(Slice)
  /\ DOMAIN new = DOMAIN e
  /\ \A i \in DOMAIN e : /\ new[i].id = e[i].id
                         /\ new[i].deps = {}
                         /\ new[i].status = "ready"
                         /\ new[i].requeueCount = 0
                         /\ new[i].criteria = ToSet(e[i].criteria)
                         /\ new[i].source = "remediation"

\* addRemediationSlices appends one ready slice for each entry.
LEMMA AddRemediationFacts ==
  ASSUME NEW q \in Seq(Slice), NEW e \in Seq(Repair)
  PROVE  /\ AddRemediation(q, e) \in Seq(Slice)
         /\ \E new : Added(new, e) /\ IsConcat(AddRemediation(q, e), q, new)
<1> DEFINE new == [i \in DOMAIN e |->
                     [id |-> e[i].id, deps |-> {}, status |-> "ready",
                      requeueCount |-> 0, criteria |-> ToSet(e[i].criteria),
                      phase |-> LastPhase(q) + i, source |-> "remediation"]]
<1>1. Len(e) \in Nat /\ DOMAIN e = 1 .. Len(e) /\ \A i \in DOMAIN e : e[i] \in Repair
  BY QueueElements
<1>2. ASSUME NEW i \in DOMAIN e PROVE new[i] \in Slice
  <2>1. e[i] \in Repair /\ LastPhase(q) + i \in Nat
    BY <1>1, LastPhaseIsNat
  <2>2. e[i].id \in SliceId /\ e[i].criteria \in Seq(Criterion)
    BY <2>1 DEF Repair
  <2>3. ToSet(e[i].criteria) \in SUBSET Criterion
    <3>1. \A k \in DOMAIN e[i].criteria : e[i].criteria[k] \in Criterion
      BY <2>2, QueueElements
    <3>2. QED
      BY <3>1 DEF ToSet
  <2>4. QED
    BY <2>1, <2>2, <2>3 DEF Slice, Status
<1>3. new \in [1 .. Len(e) -> Slice]
  BY <1>1, <1>2
<1>4. new \in Seq(Slice)
  BY <1>1, <1>3, FunctionIsSeq
<1>5. Added(new, e)
  BY <1>4 DEF Added
<1>6. AddRemediation(q, e) = q \o new
  BY DEF AddRemediation
<1> HIDE DEF new
<1>7. q \o new \in Seq(Slice) /\ IsConcat(q \o new, q, new)
  BY <1>4, ConcatElements
<1>8. QED
  BY <1>5, <1>6, <1>7

Acc == [queue : Seq(Slice), reopened : SUBSET SliceId, toAdd : Seq(Repair)]

\* What allowCriterion lets through.
LEMMA AllowedFacts ==
  ASSUME NEW q \in Seq(Slice), NEW e \in Repair
  PROVE  /\ Allowed(q, e) \in Repair
         /\ Allowed(q, e).id = e.id
         /\ \A c \in CriteriaOf(q) : e.criteria = <<c>> => Allowed(q, e) = e
<1> DEFINE I == {k \in DOMAIN e.criteria : e.criteria[k] \in CriteriaOf(q)}
<1>1. e.criteria \in Seq(Criterion) /\ e.id \in SliceId
  BY DEF Repair
<1>2. Allowed(q, e) = [e EXCEPT !.criteria = Only(e.criteria, I)]
  BY DEF Allowed
<1>3. Only(e.criteria, I) \in Seq(Criterion)
  BY <1>1, OnlyFacts
<1>4. ASSUME NEW c \in CriteriaOf(q), e.criteria = <<c>>
      PROVE  Only(e.criteria, I) = e.criteria
  <2>1. \A k \in DOMAIN e.criteria : e.criteria[k] = c
    BY <1>4
  <2>2. DOMAIN e.criteria \subseteq I
    BY <2>1
  <2>3. QED
    BY <1>1, <2>2, OnlyAll
<1> HIDE DEF I
<1>5. [e EXCEPT !.criteria = e.criteria] = e
  BY DEF Repair
<1>6. QED
  BY <1>1, <1>2, <1>3, <1>4, <1>5 DEF Repair

\* An owner of a criterion, where there is one.
LEMMA FirstOwnerFacts ==
  ASSUME NEW q \in Seq(Slice), NEW c, OwnersOf(q, c) # {}
  PROVE  \E i \in DOMAIN q : /\ FirstOwner(q, c) = q[i]
                             /\ q[i].status \in {"done", "escalated"}
                             /\ c \in q[i].criteria
<1> DEFINE O == OwnersOf(q, c)
           least == CHOOSE i \in O : \A j \in O : i <= j
<1>1. O \in SUBSET Nat
  BY QueueElements DEF OwnersOf
<1>2. \E i \in O : \A j \in O : i <= j
  BY <1>1, LeastNumber
<1>3. least \in O
  BY <1>2
<1>4. FirstOwner(q, c) = q[least]
  BY DEF FirstOwner
<1> HIDE DEF least
<1>5. QED
  BY <1>3, <1>4 DEF OwnersOf

\* What an entry does: nothing, reopen the owner of its first criterion, or wait
\* to be added.
Reopens(acc, e, new) ==
  \E i \in DOMAIN acc.queue :
    /\ acc.queue[i].status \in {"done", "escalated"}
    /\ e.criteria[1] \in acc.queue[i].criteria
    /\ new = [acc EXCEPT !.queue = Reopen(@, acc.queue[i].id),
                         !.reopened = @ \cup {acc.queue[i].id}]

\* An entry does nothing, reopens the owner of its first criterion, or is to be added.
LEMMA ApplyEntryCases ==
  ASSUME NEW acc \in Acc, NEW e \in Repair
  PROVE  \/ e.criteria = << >> /\ ApplyEntry(acc, e) = acc
         \/ e.criteria # << >> /\ Reopens(acc, e, ApplyEntry(acc, e))
         \/ e.criteria # << >> /\ ApplyEntry(acc, e) = [acc EXCEPT !.toAdd = Append(@, e)]
<1>1. acc.queue \in Seq(Slice) /\ e.criteria \in Seq(Criterion)
  BY DEF Acc, Repair
<1>2. CASE e.criteria = << >>
  BY <1>2 DEF ApplyEntry
<1>3. CASE /\ e.criteria # << >>
           /\ \A i \in DOMAIN e.criteria : OwnersOf(acc.queue, e.criteria[i]) # {}
  <2>1. 1 \in DOMAIN e.criteria
    <3>1. Len(e.criteria) \in Nat \ {0}
      BY <1>1, <1>3, EmptySeq
    <3>2. QED
      BY <1>1, <3>1
  <2>2. PICK i \in DOMAIN acc.queue :
          /\ FirstOwner(acc.queue, e.criteria[1]) = acc.queue[i]
          /\ acc.queue[i].status \in {"done", "escalated"}
          /\ e.criteria[1] \in acc.queue[i].criteria
    BY <1>1, <1>3, <2>1, FirstOwnerFacts
  <2>3. ApplyEntry(acc, e) = [acc EXCEPT !.queue = Reopen(@, acc.queue[i].id),
                                         !.reopened = @ \cup {acc.queue[i].id}]
    BY <1>3, <2>2 DEF ApplyEntry
  <2>4. QED
    BY <1>3, <2>2, <2>3 DEF Reopens
<1>4. CASE /\ e.criteria # << >>
           /\ ~\A i \in DOMAIN e.criteria : OwnersOf(acc.queue, e.criteria[i]) # {}
  BY <1>4 DEF ApplyEntry
<1>5. QED
  BY <1>2, <1>3, <1>4

InWork(q, c) == \E j \in DOMAIN q : q[j].status \notin {"done", "escalated"} /\ c \in q[j].criteria

ToBeAdded(e, c) == \E k \in DOMAIN e : c \in ToSet(e[k].criteria)

\* What holds when the first n entries have been applied to q.
RemedyTypes(acc, q) ==
  /\ acc \in Acc
  /\ SameSlices(q, acc.queue)
  /\ \A i \in DOMAIN q : acc.queue[i].requeueCount = q[i].requeueCount
  /\ \A i \in DOMAIN q :
       acc.queue[i].status = q[i].status \/ acc.queue[i].status = "ready"

RemedyIds(acc, n, entries) ==
  /\ \A k \in DOMAIN acc.toAdd : \E i \in 1 .. n : acc.toAdd[k].id = entries[i].id
  /\ (\A i, j \in DOMAIN entries : entries[i].id = entries[j].id => i = j)
       => \A k, m \in DOMAIN acc.toAdd : acc.toAdd[k].id = acc.toAdd[m].id => k = m

Remedies(acc, q, n, entries) ==
  \A i \in 1 .. n : \A c \in CriteriaOf(q) :
    entries[i].criteria = <<c>> => InWork(acc.queue, c) \/ ToBeAdded(acc.toAdd, c)

\* Rewriting twice is rewriting.
LEMMA SameSlicesTrans ==
  ASSUME NEW q, NEW r, NEW t, SameSlices(q, r), SameSlices(r, t), DOMAIN r = DOMAIN q
  PROVE  SameSlices(q, t)
BY DEF SameSlices

\* One entry keeps the types and the slices.
LEMMA RemedyTypesStep ==
  ASSUME NEW q \in Seq(Slice), NEW acc, RemedyTypes(acc, q), NEW e \in Repair
  PROVE  RemedyTypes(ApplyEntry(acc, e), q)
<1> DEFINE new == ApplyEntry(acc, e)
<1>1. /\ acc \in Acc /\ acc.queue \in Seq(Slice) /\ acc.toAdd \in Seq(Repair)
      /\ acc.reopened \in SUBSET SliceId /\ SameSlices(q, acc.queue)
      /\ DOMAIN acc.queue = DOMAIN q
  BY SameDomain DEF RemedyTypes, Acc
<1>2. CASE new = acc
  BY <1>2
<1>3. CASE Reopens(acc, e, new)
  <2>1. PICK i \in DOMAIN acc.queue :
          new = [acc EXCEPT !.queue = Reopen(@, acc.queue[i].id),
                            !.reopened = @ \cup {acc.queue[i].id}]
    BY <1>3 DEF Reopens
  <2> DEFINE r == Reopen(acc.queue, acc.queue[i].id)
  <2>2. /\ SameSlices(acc.queue, r)
        /\ \A j \in DOMAIN q : /\ r[j].requeueCount = acc.queue[j].requeueCount
                               /\ r[j].status = acc.queue[j].status \/ r[j].status = "ready"
    BY <1>1, ReopenFacts
  <2>3. SameSlices(q, r)
    BY <1>1, <2>2, SameSlicesTrans
  <2>4. acc.queue[i].id \in SliceId
    <3>1. acc.queue[i] \in Slice
      BY <1>1, QueueElements
    <3>2. QED
      BY <3>1 DEF Slice
  <2>5. r \in Seq(Slice)
    BY <2>2 DEF SameSlices
  <2> HIDE DEF r
  <2>6. new = [acc EXCEPT !.queue = r, !.reopened = acc.reopened \cup {acc.queue[i].id}]
    BY <1>1, <2>1 DEF r, Acc
  <2>7. new \in Acc /\ new.queue = r
    BY <1>1, <2>4, <2>5, <2>6 DEF Acc
  <2>8. QED
    BY <2>2, <2>3, <2>7 DEF RemedyTypes
<1>4. CASE new = [acc EXCEPT !.toAdd = Append(@, e)]
  <2>1. new = [acc EXCEPT !.toAdd = Append(acc.toAdd, e)]
    BY <1>1, <1>4 DEF Acc
  <2>2. Append(acc.toAdd, e) \in Seq(Repair)
    BY <1>1
  <2>3. new \in Acc /\ new.queue = acc.queue
    BY <1>1, <2>1, <2>2 DEF Acc
  <2>4. QED
    BY <2>3 DEF RemedyTypes
<1>5. QED
  BY <1>1, <1>2, <1>3, <1>4, ApplyEntryCases

\* What waits to be added has the ids of entries, and each once if they have.
LEMMA RemedyIdsStep ==
  ASSUME NEW q \in Seq(Slice), NEW acc, RemedyTypes(acc, q),
         NEW entries \in Seq(Repair), NEW n \in 0 .. Len(entries) - 1,
         RemedyIds(acc, n, entries), NEW e \in Repair, e.id = entries[n + 1].id
  PROVE  RemedyIds(ApplyEntry(acc, e), n + 1, entries)
<1> DEFINE new == ApplyEntry(acc, e)
           add == acc.toAdd
           len == Len(add)
<1>1. /\ acc \in Acc /\ add \in Seq(Repair) /\ len \in Nat /\ DOMAIN add = 1 .. len
      /\ Len(entries) \in Nat /\ DOMAIN entries = 1 .. Len(entries)
  BY QueueElements DEF RemedyTypes, Acc
<1>2. \A k \in DOMAIN add : \E i \in 1 .. n : add[k].id = entries[i].id
  BY DEF RemedyIds
<1>3. /\ \A i \in 1 .. n : i \in 1 .. n + 1 /\ i \in DOMAIN entries /\ i # n + 1
      /\ n + 1 \in 1 .. n + 1 /\ n + 1 \in DOMAIN entries
  BY <1>1
<1>4. CASE new.toAdd = add
  BY <1>2, <1>3, <1>4 DEF RemedyIds
<1>5. CASE new.toAdd = Append(add, e)
  <2> DEFINE u == Append(add, e)
  <2>1. /\ DOMAIN u = 1 .. len + 1
        /\ \A k \in 1 .. len : u[k] = add[k]
        /\ u[len + 1] = e
    BY <1>1
  <2> HIDE DEF u
  <2>2. \A k \in DOMAIN u : k \in 1 .. len \/ k = len + 1
    BY <1>1, <2>1
  <2>3. \A k \in DOMAIN u : \E i \in 1 .. n + 1 : u[k].id = entries[i].id
    BY <1>1, <1>2, <1>3, <2>1, <2>2
  <2>4. ASSUME \A i, j \in DOMAIN entries : entries[i].id = entries[j].id => i = j
        PROVE  \A k, m \in DOMAIN u : u[k].id = u[m].id => k = m
    <3>1. \A k \in 1 .. len : u[k].id # u[len + 1].id
      <4> SUFFICES ASSUME NEW k \in 1 .. len, u[k].id = u[len + 1].id PROVE FALSE
        OBVIOUS
      <4>1. PICK i \in 1 .. n : add[k].id = entries[i].id
        BY <1>1, <1>2
      <4>2. entries[i].id = entries[n + 1].id
        BY <2>1, <4>1
      <4>3. QED
        BY <1>3, <2>4, <4>2
    <3>2. \A k, m \in 1 .. len : u[k].id = u[m].id => k = m
      BY <1>1, <2>1, <2>4 DEF RemedyIds
    <3>3. QED
      BY <2>2, <3>1, <3>2
  <2>5. QED
    BY <1>5, <2>3, <2>4 DEF RemedyIds, u
<1>6. new.toAdd = add \/ new.toAdd = Append(add, e)
  <2>1. \A x, y : [acc EXCEPT !.queue = x, !.reopened = y].toAdd = add
    BY <1>1 DEF Acc
  <2>2. Reopens(acc, e, new) => new.toAdd = add
    BY <1>1, <2>1 DEF Reopens, Acc
  <2>3. [acc EXCEPT !.toAdd = Append(@, e)].toAdd = Append(add, e)
    BY <1>1 DEF Acc
  <2>4. QED
    BY <1>1, <2>2, <2>3, ApplyEntryCases
<1>7. QED
  BY <1>4, <1>5, <1>6

\* What is repaired stays so, and the next entry repairs its criterion.
LEMMA RemediesStep ==
  ASSUME NEW q \in Seq(Slice), NEW acc, RemedyTypes(acc, q),
         NEW entries \in Seq(Repair), NEW n \in 0 .. Len(entries) - 1,
         Remedies(acc, q, n, entries)
  PROVE  Remedies(ApplyEntry(acc, Allowed(q, entries[n + 1])), q, n + 1, entries)
<1> DEFINE e == Allowed(q, entries[n + 1])
           new == ApplyEntry(acc, e)
<1>1. /\ acc \in Acc /\ acc.queue \in Seq(Slice) /\ acc.toAdd \in Seq(Repair)
      /\ Len(entries) \in Nat /\ DOMAIN entries = 1 .. Len(entries) /\ n \in Nat
      /\ entries[n + 1] \in Repair
  BY QueueElements DEF RemedyTypes, Acc
<1>2. e \in Repair /\ \A c \in CriteriaOf(q) :
                        entries[n + 1].criteria = <<c>> => e = entries[n + 1]
  BY <1>1, AllowedFacts
<1> HIDE DEF e
<1>3. ASSUME NEW c, InWork(acc.queue, c) \/ ToBeAdded(acc.toAdd, c)
      PROVE  InWork(new.queue, c) \/ ToBeAdded(new.toAdd, c)
  <2>1. CASE new = acc
    BY <1>3, <2>1
  <2>2. CASE Reopens(acc, e, new)
    <3>1. PICK i \in DOMAIN acc.queue :
            new = [acc EXCEPT !.queue = Reopen(@, acc.queue[i].id),
                              !.reopened = @ \cup {acc.queue[i].id}]
      BY <2>2 DEF Reopens
    <3> DEFINE r == Reopen(acc.queue, acc.queue[i].id)
    <3>2. new.queue = r /\ new.toAdd = acc.toAdd
      BY <1>1, <3>1 DEF Acc
    <3>3. /\ DOMAIN r = DOMAIN acc.queue
          /\ \A j \in DOMAIN acc.queue :
               /\ r[j].criteria = acc.queue[j].criteria
               /\ r[j].status = acc.queue[j].status \/ r[j].status = "ready"
      BY <1>1, ReopenFacts, SameDomain DEF SameSlices
    <3> HIDE DEF r
    <3>4. InWork(acc.queue, c) => InWork(r, c)
      BY <3>3 DEF InWork
    <3>5. QED
      BY <1>3, <3>2, <3>4
  <2>3. CASE new = [acc EXCEPT !.toAdd = Append(@, e)]
    <3>1. new.queue = acc.queue /\ new.toAdd = Append(acc.toAdd, e)
      BY <1>1, <2>3 DEF Acc
    <3>2. \A k \in DOMAIN acc.toAdd : /\ k \in DOMAIN Append(acc.toAdd, e)
                                      /\ Append(acc.toAdd, e)[k] = acc.toAdd[k]
      BY <1>1, <1>2
    <3>3. QED
      BY <1>3, <3>1, <3>2 DEF ToBeAdded
  <2>4. QED
    BY <1>1, <1>2, <2>1, <2>2, <2>3, ApplyEntryCases
<1>4. ASSUME NEW c \in CriteriaOf(q), entries[n + 1].criteria = <<c>>
      PROVE  InWork(new.queue, c) \/ ToBeAdded(new.toAdd, c)
  <2>1. e.criteria = <<c>>
    BY <1>2, <1>4
  <2>2. <<c>> # << >> /\ <<c>>[1] = c /\ 1 \in DOMAIN <<c>>
    OBVIOUS
  <2>3. CASE Reopens(acc, e, new)
    <3>1. PICK i \in DOMAIN acc.queue :
            /\ e.criteria[1] \in acc.queue[i].criteria
            /\ new = [acc EXCEPT !.queue = Reopen(@, acc.queue[i].id),
                                 !.reopened = @ \cup {acc.queue[i].id}]
      BY <2>3 DEF Reopens
    <3> DEFINE r == Reopen(acc.queue, acc.queue[i].id)
    <3>2. new.queue = r
      BY <1>1, <3>1 DEF Acc
    <3>3. /\ DOMAIN r = DOMAIN acc.queue
          /\ r[i].criteria = acc.queue[i].criteria
          /\ r[i].status = "ready"
      BY <1>1, ReopenFacts, SameDomain DEF SameSlices
    <3> HIDE DEF r
    <3>4. InWork(r, c)
      BY <2>1, <2>2, <3>1, <3>3 DEF InWork
    <3>5. QED
      BY <3>2, <3>4
  <2>4. CASE new = [acc EXCEPT !.toAdd = Append(@, e)]
    <3> DEFINE u == Append(acc.toAdd, e)
    <3>1. new.toAdd = u
      BY <1>1, <2>4 DEF Acc
    <3>2. Len(acc.toAdd) + 1 \in DOMAIN u /\ u[Len(acc.toAdd) + 1] = e
      BY <1>1, <1>2
    <3>3. c \in ToSet(e.criteria)
      BY <2>1, <2>2 DEF ToSet
    <3>4. QED
      BY <3>1, <3>2, <3>3 DEF ToBeAdded
  <2>5. QED
    BY <1>1, <1>2, <2>1, <2>2, <2>3, <2>4, ApplyEntryCases
<1>5. SUFFICES ASSUME NEW i \in 1 .. n + 1, NEW c \in CriteriaOf(q), entries[i].criteria = <<c>>
               PROVE  InWork(new.queue, c) \/ ToBeAdded(new.toAdd, c)
  BY DEF Remedies, e
<1>6. CASE i = n + 1
  BY <1>4, <1>5, <1>6
<1>7. CASE i \in 1 .. n
  BY <1>3, <1>5, <1>7 DEF Remedies
<1>8. QED
  BY <1>1, <1>6, <1>7

AppliedInv(acc, q, n, entries) ==
  RemedyTypes(acc, q) /\ RemedyIds(acc, n, entries) /\ Remedies(acc, q, n, entries)

FirstAcc(q) == [queue |-> q, reopened |-> {}, toAdd |-> << >>]

\* What upTo of Applied has to satisfy up to n.
Applies(f, n, q, entries) ==
  f = [k \in 0 .. n |->
         IF k = 0 THEN FirstAcc(q)
         ELSE ApplyEntry(f[k - 1], Allowed(q, entries[k]))]

\* There is a function that Applied's local definition describes.
LEMMA ApplicationExists ==
  ASSUME NEW q, NEW entries, Len(entries) \in Nat
  PROVE  \E f : Applies(f, Len(entries), q, entries)
<1> DEFINE T == {n \in Nat : \E f : Applies(f, n, q, entries)}
<1>1. 0 \in T
  <2>1. Applies([k \in 0 .. 0 |-> FirstAcc(q)], 0, q, entries)
    BY DEF Applies
  <2>2. QED
    BY <2>1
<1>2. \A n \in 0 .. Len(entries) - 1 : n \in T => n + 1 \in T
  <2> SUFFICES ASSUME NEW n \in 0 .. Len(entries) - 1, n \in T PROVE n + 1 \in T
    OBVIOUS
  <2>1. PICK f : Applies(f, n, q, entries)
    OBVIOUS
  <2> DEFINE last == ApplyEntry(f[n], Allowed(q, entries[n + 1]))
             g == [k \in 0 .. n + 1 |-> IF k = n + 1 THEN last ELSE f[k]]
  <2>2. \A k \in 0 .. n : f[k] = IF k = 0 THEN FirstAcc(q)
                                 ELSE ApplyEntry(f[k - 1], Allowed(q, entries[k]))
    BY <2>1 DEF Applies
  <2>3. \A k \in 0 .. n + 1 :
          g[k] = IF k = 0 THEN FirstAcc(q)
                 ELSE ApplyEntry(g[k - 1], Allowed(q, entries[k]))
    <3> SUFFICES ASSUME NEW k \in 0 .. n + 1
                 PROVE  g[k] = IF k = 0 THEN FirstAcc(q)
                               ELSE ApplyEntry(g[k - 1], Allowed(q, entries[k]))
      OBVIOUS
    <3>1. CASE k = 0
      BY <2>2, <3>1
    <3>2. CASE k # 0
      <4>1. k - 1 \in 0 .. n /\ g[k - 1] = f[k - 1]
        BY <3>2
      <4>2. CASE k = n + 1
        BY <4>1, <4>2
      <4>3. CASE k # n + 1
        <5>1. k \in 0 .. n /\ g[k] = f[k]
          BY <4>3
        <5>2. QED
          BY <2>2, <3>2, <4>1, <5>1
      <4>4. QED
        BY <4>2, <4>3
    <3>3. QED
      BY <3>1, <3>2
  <2>4. Applies(g, n + 1, q, entries)
    BY <2>3 DEF Applies
  <2>5. QED
    BY <2>4
<1> HIDE DEF T
<1>3. Len(entries) \in T
  <2>1. \A n \in 0 .. Len(entries) : n \in T
    BY <1>1, <1>2, Induction
  <2>2. QED
    BY <2>1
<1>4. QED
  BY <1>3 DEF T

\* AppliedInv holds after all entries.
LEMMA AppliedFacts ==
  ASSUME NEW q \in Seq(Slice), NEW entries \in Seq(Repair)
  PROVE  AppliedInv(Applied(q, entries), q, Len(entries), entries)
<1>1. Len(entries) \in Nat /\ \A i \in 1 .. Len(entries) : entries[i] \in Repair
  BY QueueElements
<1> DEFINE f == CHOOSE g : Applies(g, Len(entries), q, entries)
<1>2. Applied(q, entries) = f[Len(entries)]
  BY DEF Applied, Applies, FirstAcc
<1>3. Applies(f, Len(entries), q, entries)
  BY <1>1, ApplicationExists
<1> HIDE DEF f
<1>4. \A k \in 0 .. Len(entries) :
        f[k] = IF k = 0 THEN FirstAcc(q) ELSE ApplyEntry(f[k - 1], Allowed(q, entries[k]))
  BY <1>3 DEF Applies
<1> DEFINE T == {n \in 0 .. Len(entries) : AppliedInv(f[n], q, n, entries)}
<1>5. 0 \in T
  <2>1. f[0] = FirstAcc(q) /\ 0 \in 0 .. Len(entries)
    BY <1>1, <1>4
  <2>2. FirstAcc(q) \in Acc /\ FirstAcc(q).queue = q /\ FirstAcc(q).toAdd = << >>
    BY EmptySeq DEF FirstAcc, Acc
  <2>3. RemedyTypes(FirstAcc(q), q)
    BY <2>2 DEF RemedyTypes, SameSlices
  <2>4. DOMAIN << >> = {}
    OBVIOUS
  <2>5. RemedyIds(FirstAcc(q), 0, entries)
    BY <2>2, <2>4 DEF RemedyIds
  <2>6. Remedies(FirstAcc(q), q, 0, entries)
    BY DEF Remedies
  <2>7. QED
    BY <2>1, <2>3, <2>5, <2>6 DEF AppliedInv
<1>6. \A n \in 0 .. Len(entries) - 1 : n \in T => n + 1 \in T
  <2> SUFFICES ASSUME NEW n \in 0 .. Len(entries) - 1, AppliedInv(f[n], q, n, entries)
               PROVE  AppliedInv(f[n + 1], q, n + 1, entries) /\ n + 1 \in 0 .. Len(entries)
    OBVIOUS
  <2> DEFINE e == Allowed(q, entries[n + 1])
  <2>1. n + 1 \in 0 .. Len(entries) /\ n + 1 # 0 /\ (n + 1) - 1 = n
        /\ entries[n + 1] \in Repair
    BY <1>1
  <2>2. f[n + 1] = ApplyEntry(f[n], e)
    BY <1>4, <2>1
  <2>3. e \in Repair /\ e.id = entries[n + 1].id
    BY <2>1, AllowedFacts
  <2>4. RemedyTypes(ApplyEntry(f[n], e), q)
    BY <2>3, RemedyTypesStep DEF AppliedInv
  <2>5. RemedyIds(ApplyEntry(f[n], e), n + 1, entries)
    BY <2>3, RemedyIdsStep DEF AppliedInv
  <2>6. Remedies(ApplyEntry(f[n], e), q, n + 1, entries)
    BY RemediesStep DEF AppliedInv
  <2>7. QED
    BY <2>1, <2>2, <2>4, <2>5, <2>6 DEF AppliedInv
<1> HIDE DEF T
<1>7. Len(entries) \in T
  <2>1. \A n \in 0 .. Len(entries) : n \in T
    BY <1>1, <1>5, <1>6, Induction
  <2>2. QED
    BY <1>1, <2>1
<1>8. QED
  BY <1>2, <1>7 DEF T

\* applyRemediationWithReopen: the queue with slices reopened, and the others added.
RemedyOf(r, q, p, acc, new) ==
  /\ AppliedInv(acc, q, Len(p), p)
  /\ Added(new, acc.toAdd)
  /\ IsConcat(r, acc.queue, new)

\* applyRemediationWithReopen returns a queue, made as RemedyOf says.
LEMMA ApplyRemediationFacts ==
  ASSUME NEW q \in Seq(Slice), NEW p \in Seq(Repair)
  PROVE  /\ ApplyRemediation(q, p).queue \in Seq(Slice)
         /\ \E acc, new : RemedyOf(ApplyRemediation(q, p).queue, q, p, acc, new)
<1> DEFINE acc == Applied(q, p)
           r == AddRemediation(acc.queue, acc.toAdd)
<1>1. ApplyRemediation(q, p).queue = r
  BY DEF ApplyRemediation
<1>2. AppliedInv(acc, q, Len(p), p)
  BY AppliedFacts
<1>3. acc.queue \in Seq(Slice) /\ acc.toAdd \in Seq(Repair)
  BY <1>2 DEF AppliedInv, RemedyTypes, Acc
<1> HIDE DEF acc
<1>4. r \in Seq(Slice) /\ \E new : Added(new, acc.toAdd) /\ IsConcat(r, acc.queue, new)
  BY <1>3, AddRemediationFacts
<1> HIDE DEF r
<1>5. QED
  BY <1>1, <1>2, <1>4 DEF RemedyOf

\* The slice that is taken is a ready one.
LEMMA FirstReadyFacts ==
  ASSUME NEW q \in Seq(Slice), HasReady(q)
  PROVE  \E i \in DOMAIN q : FirstReady(q) = q[i] /\ q[i].status = "ready"
<1> DEFINE R == ReadyAt(q)
           least == CHOOSE i \in R : \A j \in R : i <= j
<1>1. R \in SUBSET Nat /\ R # {}
  BY QueueElements DEF ReadyAt, HasReady
<1>2. \E i \in R : \A j \in R : i <= j
  BY <1>1, LeastNumber
<1>3. least \in R
  BY <1>2
<1>4. FirstReady(q) = q[least]
  BY DEF FirstReady
<1> HIDE DEF least
<1>5. QED
  BY <1>3, <1>4 DEF ReadyAt

-----------------------------------------------------------------------------
(***************************************************************************)
(* A queue that can be worked through: nothing in it waits for a slice     *)
(* that is gone, or for itself.                                            *)
(***************************************************************************)

\* The dependencies of the sections are sections of the design, and go back.
Resolvable(d) ==
  \E rank \in [SliceId -> Nat] :
    \A i \in DOMAIN d.slices : \A x \in d.slices[i].deps :
      x \in IdsOf(d.slices) /\ rank[x] < rank[d.slices[i].id]

\* The dependencies of the pending slices are in the queue, and go back.
Grounded(q) ==
  \E rank \in [SliceId -> Nat] :
    \A i \in DOMAIN q : q[i].status = "pending" =>
      \A x \in q[i].deps : x \in IdsOf(q) /\ rank[x] < rank[q[i].id]

NeverBlocked(q) == \A i \in DOMAIN q : q[i].status # "blocked"

Workable(q) == Grounded(q) /\ NeverBlocked(q)

\* r has the slices of q, and perhaps more; none became pending or blocked.
LEMMA AdvanceWorkable ==
  ASSUME NEW q, NEW r, Workable(q), DOMAIN q \subseteq DOMAIN r,
         \A i \in DOMAIN q : /\ r[i].id = q[i].id
                             /\ r[i].deps = q[i].deps
                             /\ r[i].status \in {"pending", "blocked"} => r[i].status = q[i].status,
         \A i \in DOMAIN r \ DOMAIN q : r[i].status \notin {"pending", "blocked"}
  PROVE  Workable(r)
<1>1. PICK rank \in [SliceId -> Nat] :
        \A i \in DOMAIN q : q[i].status = "pending" =>
          \A x \in q[i].deps : x \in IdsOf(q) /\ rank[x] < rank[q[i].id]
  BY DEF Workable, Grounded
<1>2. IdsOf(q) \subseteq IdsOf(r)
  BY DEF IdsOf
<1>3. ASSUME NEW i \in DOMAIN r, r[i].status = "pending", NEW x \in r[i].deps
      PROVE  x \in IdsOf(r) /\ rank[x] < rank[r[i].id]
  <2>1. i \in DOMAIN q /\ q[i].status = "pending" /\ x \in q[i].deps /\ r[i].id = q[i].id
    BY <1>3
  <2>2. QED
    BY <1>1, <1>2, <2>1
<1>4. NeverBlocked(r)
  BY DEF Workable, NeverBlocked
<1>5. QED
  BY <1>3, <1>4 DEF Workable, Grounded

\* A new queue is workable, ...
LEMMA NewWorkable ==
  ASSUME NEW d, IsDesign(d), Resolvable(d) PROVE Workable(ParseDesign(d))
<1> DEFINE q == ParseDesign(d)
<1>1. /\ DOMAIN q = DOMAIN d.slices
      /\ \A i \in DOMAIN d.slices : /\ q[i].id = d.slices[i].id
                                    /\ q[i].deps = d.slices[i].deps
                                    /\ q[i].status = "pending"
  BY ParseDesignFacts
<1> HIDE DEF q
<1>2. IdsOf(q) = IdsOf(d.slices)
  BY <1>1 DEF IdsOf
<1>3. PICK rank \in [SliceId -> Nat] :
        \A i \in DOMAIN d.slices : \A x \in d.slices[i].deps :
          x \in IdsOf(d.slices) /\ rank[x] < rank[d.slices[i].id]
  BY DEF Resolvable
<1>4. Grounded(q)
  BY <1>1, <1>2, <1>3 DEF Grounded
<1>5. NeverBlocked(q)
  BY <1>1 DEF NeverBlocked
<1>6. QED
  BY <1>4, <1>5 DEF Workable, q

\* ... the pending slices of a reconciled one are the new design's, whose
\* dependencies are completed or new, ...
LEMMA ReconcileWorkable ==
  ASSUME NEW q \in Seq(Slice), NEW d, IsDesign(d), Resolvable(d)
  PROVE  Workable(Reconcile(q, d))
<1> DEFINE r == Reconcile(q, d)
           new == ParseDesign(d)
<1>0. IsReconciliation(r, q, d)
  BY ReconcileFacts
<1>1. /\ \A k \in DOMAIN r : \/ \E i \in DOMAIN q : q[i].status = "done" /\ r[k] = q[i]
                             \/ \E i \in DOMAIN d.slices : r[k] = new[i]
      /\ \A i \in DOMAIN q : q[i].status = "done" => \E k \in DOMAIN r : r[k] = q[i]
      /\ \A i \in DOMAIN d.slices : d.slices[i].id \notin DoneIds(q) =>
           \E k \in DOMAIN r : r[k] = new[i]
  BY <1>0, Zenon DEF IsReconciliation
<1>2. \A i \in DOMAIN d.slices : /\ new[i].id = d.slices[i].id
                                 /\ new[i].deps = d.slices[i].deps
                                 /\ new[i].status = "pending"
  BY ParseDesignFacts
<1> HIDE DEF r, new
<1>3. DoneIds(q) \subseteq IdsOf(r)
  BY <1>1 DEF DoneIds, IdsWith, IdsOf
<1>4. IdsOf(d.slices) \subseteq IdsOf(r)
  <2> SUFFICES ASSUME NEW i \in DOMAIN d.slices PROVE d.slices[i].id \in IdsOf(r)
    BY DEF IdsOf
  <2>1. CASE d.slices[i].id \in DoneIds(q)
    BY <1>3, <2>1
  <2>2. CASE d.slices[i].id \notin DoneIds(q)
    <3>1. PICK k \in DOMAIN r : r[k] = new[i]
      BY <1>1, <2>2
    <3>2. QED
      BY <1>2, <3>1 DEF IdsOf
  <2>3. QED
    BY <2>1, <2>2
<1>5. PICK rank \in [SliceId -> Nat] :
        \A i \in DOMAIN d.slices : \A x \in d.slices[i].deps :
          x \in IdsOf(d.slices) /\ rank[x] < rank[d.slices[i].id]
  BY DEF Resolvable
<1>6. ASSUME NEW k \in DOMAIN r, r[k].status = "pending", NEW x \in r[k].deps
      PROVE  x \in IdsOf(r) /\ rank[x] < rank[r[k].id]
  <2>1. PICK i \in DOMAIN d.slices : r[k] = new[i]
    BY <1>1, <1>6
  <2>2. QED
    BY <1>2, <1>4, <1>5, <1>6, <2>1
<1>7. Grounded(r)
  BY <1>6 DEF Grounded
<1>8. NeverBlocked(r)
  BY <1>1, <1>2 DEF NeverBlocked
<1>9. QED
  BY <1>7, <1>8 DEF Workable, r

\* ... and remediation adds and reopens slices that are ready.
LEMMA RemedyWorkable ==
  ASSUME NEW q \in Seq(Slice), Workable(q), NEW p \in Seq(Repair)
  PROVE  Workable(ApplyRemediation(q, p).queue)
<1> DEFINE r == ApplyRemediation(q, p).queue
<1>1. PICK acc, new : RemedyOf(r, q, p, acc, new)
  BY ApplyRemediationFacts
<1> HIDE DEF r
<1>2. IsConcat(r, acc.queue, new) /\ RemedyTypes(acc, q) /\ Added(new, acc.toAdd)
  BY <1>1 DEF RemedyOf, AppliedInv
<1>3. DOMAIN acc.queue = DOMAIN q
  BY <1>2, SameDomain DEF RemedyTypes
<1>4. DOMAIN q \subseteq DOMAIN r
  BY <1>2, <1>3 DEF IsConcat
<1>5. ASSUME NEW i \in DOMAIN q
      PROVE  /\ r[i].id = q[i].id
             /\ r[i].deps = q[i].deps
             /\ r[i].status \in {"pending", "blocked"} => r[i].status = q[i].status
  <2>1. r[i] = acc.queue[i]
    BY <1>2, <1>3 DEF IsConcat
  <2>2. QED
    BY <1>2, <2>1 DEF RemedyTypes, SameSlices
<1>6. ASSUME NEW i \in DOMAIN r \ DOMAIN q
      PROVE  r[i].status \notin {"pending", "blocked"}
  <2>1. i - Len(acc.queue) \in DOMAIN new /\ r[i] = new[i - Len(acc.queue)]
    BY <1>2, <1>3 DEF IsConcat
  <2>2. PICK k \in DOMAIN new : r[i] = new[k]
    BY <2>1
  <2>3. k \in DOMAIN acc.toAdd
    BY <1>2 DEF Added
  <2>4. new[k].status = "ready"
    BY <1>2, <2>3 DEF Added
  <2>5. QED
    BY <2>2, <2>4
<1>7. QED
  BY <1>4, <1>5, <1>6, AdvanceWorkable DEF r

\* A rewriting that makes nothing pending or blocked.
LEMMA SameWorkable ==
  ASSUME NEW q \in Seq(Slice), Workable(q), NEW r, SameSlices(q, r),
         \A i \in DOMAIN q : r[i].status \in {"pending", "blocked"} => r[i].status = q[i].status
  PROVE  Workable(r)
<1>1. DOMAIN r = DOMAIN q
  BY SameDomain
<1>2. QED
  BY <1>1, AdvanceWorkable DEF SameSlices

\* In a workable queue, a pending slice waits for one that is being built or was
\* escalated, when none can be taken.
LEMMA WorkableNotStranded ==
  ASSUME NEW q \in Seq(Slice), Workable(q),
         IdsWith(q, {"pending"}) # {}, ~HasReady(Promote(q))
  PROVE  IdsWith(q, {"building", "escalated"}) # {}
<1>1. PICK rank \in [SliceId -> Nat] :
        \A i \in DOMAIN q : q[i].status = "pending" =>
          \A x \in q[i].deps : x \in IdsOf(q) /\ rank[x] < rank[q[i].id]
  BY DEF Workable, Grounded
<1>2. \A i \in DOMAIN q : q[i].id \in SliceId /\ q[i].status \in Status
  <2>1. \A i \in DOMAIN q : q[i] \in Slice
    BY QueueElements
  <2>2. QED
    BY <2>1 DEF Slice
<1> DEFINE P == {i \in DOMAIN q : q[i].status = "pending"}
           R == {rank[q[i].id] : i \in P}
<1>3. R \in SUBSET Nat /\ R # {}
  BY <1>2 DEF IdsWith
<1>4. PICK n \in R : \A m \in R : n <= m
  BY <1>3, LeastNumber
<1>5. PICK i \in P : n = rank[q[i].id]
  OBVIOUS
<1>6. ~DepsDone(q, q[i])
  <2>1. SameSlices(q, Promote(q)) /\ DOMAIN Promote(q) = DOMAIN q
    BY PromoteFacts, SameDomain
  <2>2. Promote(q)[i].status # "ready"
    BY <2>1 DEF HasReady, ReadyAt
  <2>3. QED
    BY <2>2, PromoteFacts
<1>7. PICK x \in q[i].deps : x \notin DoneIds(q)
  BY <1>6 DEF DepsDone
<1>8. x \in IdsOf(q) /\ rank[x] < n
  BY <1>1, <1>5, <1>7
<1>9. PICK j \in DOMAIN q : q[j].id = x
  BY <1>8 DEF IdsOf
<1>10. q[j].status # "pending"
  <2>1. rank[x] \in Nat /\ n \in Nat
    BY <1>2, <1>3, <1>9
  <2> HIDE DEF R
  <2>2. rank[x] \notin R
    BY <1>4, <1>8, <2>1
  <2> USE DEF R
  <2>3. QED
    BY <1>9, <2>2
<1>11. q[j].status # "ready"
  <2>1. DOMAIN Promote(q) = DOMAIN q
    BY PromoteFacts, SameDomain
  <2>2. Promote(q)[j].status # "ready"
    BY <2>1 DEF HasReady, ReadyAt
  <2>3. QED
    BY <2>2, PromoteFacts
<1>12. q[j].status \notin {"done", "blocked"}
  BY <1>7, <1>9 DEF DoneIds, IdsWith, Workable, NeverBlocked
<1>13. q[j].status \in {"building", "escalated"}
  BY <1>2, <1>10, <1>11, <1>12 DEF Status
<1>14. QED
  BY <1>13 DEF IdsWith
=============================================================================
