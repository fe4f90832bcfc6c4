----------------------- MODULE HooksAttachmentsProofs -----------------------
(***************************************************************************)
(* Proofs about HookBarrier, for any number of releases and rows and any   *)
(* page sizes, and about Attachments, for any attachments, contents and    *)
(* hosts, any limits and any number of requests, restarts and changes of   *)
(* the rows.  The two modules share nothing.                               *)
(*                                                                         *)
(* Hooks.  That they run after their rows (EmittedIsProjected) is          *)
(* inductive once it is known what a release may still emit (Releasable).  *)
(* That they are conserved needs the order in which a release walks the    *)
(* array: Line is what a release that works alone has yet to pass over or  *)
(* has passed over, and a batch is in it exactly as long as it has not     *)
(* been emitted (Sound).                                                   *)
(*                                                                         *)
(* Attachments.  Files are shared by entries, and removed with the last of *)
(* them that an eviction has listed; files of entries that are dropped     *)
(* otherwise, or left between two writes, are counted.  That no other entry*)
(* loses its file needs that the list is exact, and that the limit is kept *)
(* needs that it is complete, as long as the eviction lasts: no request    *)
(* stores anything meanwhile (MayRun), but rows may change (Eviction).     *)
(***************************************************************************)
EXTENDS HookBarrier, Attachments, FiniteSetTheorems, SequenceTheorems, TLAPS

(* Batches are made of new rows, so their first rows tell them apart. *)
BatchesDiffer ==
    /\ \A b \in queuedBatches : b.to <= stored
    /\ \A b, c \in queuedBatches : b.from = c.from => b = c

(* Whatever the barrier holds was enqueued. *)
HeldIsQueued ==
    /\ ToSet(pending) \subseteq queuedBatches
    /\ \A i \in Releases : /\ ToSet(release[i].kept) \subseteq queuedBatches
                           /\ ToSet(release[i].rest) \subseteq queuedBatches

(* A release only emits what has been projected; one that ended is Idle.   *)
Releasable ==
    \A i \in Releases :
        /\ release[i].active \/ release[i] = Idle
        /\ release[i].to <= watermark
        /\ \A b \in ToSet(release[i].rest) : b.to <= watermark

(* A hook that has run is that of a projected row. *)
EmittedRows == \A r \in Rows : emitted[r] > 0 => r <= watermark

Inv ==
    /\ TypeOK /\ BatchesDiffer /\ HeldIsQueued /\ Releasable /\ EmittedRows
    /\ EmittedIsProjected

-----------------------------------------------------------------------------
(* What a release at work leaves in the array when it goes on alone: of a  *)
(* range the batches kept and those still to be looked at; of all, those   *)
(* still to be emitted.                                                    *)
Line(r, q) ==
    IF r.to = 0 THEN r.rest ELSE r.kept \o SubSeq(q, r.at, Len(q))

(* The batches in line are those whose hook has not run, each once. *)
Sound(q, batches, count) ==
    /\ IsInjective(q)
    /\ \A b \in batches : count[b.from] = IF b \in ToSet(q) THEN 0 ELSE 1

Conserved ==
    contended \/
        IF Active = {} THEN Sound(pending, queuedBatches, emitted)
        ELSE \A i \in Active :
                /\ Active = {i}
                /\ release[i].to = 0 => pending = <<>>
                /\ release[i].to # 0 => release[i].at <= Len(pending) + 1
                /\ Sound(Line(release[i], pending), queuedBatches, emitted)

-----------------------------------------------------------------------------
(* The pages of a range lie in it, and start at different rows. *)
LEMMA PagesOfARange ==
    ASSUME NEW from \in Nat, NEW to \in Nat, from <= to, NEW size \in Nat \ {0}
    PROVE  /\ \A b \in Batches(from, to, size) :
                 /\ b \in [from : Nat, to : Nat]
                 /\ from <= b.from /\ b.from <= b.to /\ b.to <= to
           /\ \A b, c \in Batches(from, to, size) : b.from = c.from => b = c
<1> DEFINE start(i) == from + i * size
           page(i) == [from |-> start(i),
                       to |-> IF from + (i + 1) * size - 1 < to
                              THEN from + (i + 1) * size - 1 ELSE to]
           last == (to - from) \div size
<1>1. last \in Nat /\ last * size <= to - from
  OBVIOUS
<1>2. Batches(from, to, size) = {page(i) : i \in 0..last}
  BY DEF Batches
<1>3. ASSUME NEW i \in 0..last
      PROVE  i * size \in Nat /\ i * size <= last * size /\ (i + 1) * size = i * size + size
  BY <1>1
<1>4. ASSUME NEW i \in 0..last
      PROVE  /\ page(i) \in [from : Nat, to : Nat]
             /\ from <= page(i).from /\ page(i).from <= page(i).to /\ page(i).to <= to
  BY <1>1, <1>3
<1>5. ASSUME NEW i \in 0..last, NEW j \in 0..last, page(i).from = page(j).from
      PROVE  page(i) = page(j)
  <2>1. i * size = j * size
    BY <1>3, <1>5
  <2>2. i = j
    BY <2>1
  <2>3. QED
    BY <2>2
<1> HIDE DEF page
<1>6. QED
  BY <1>2, <1>4, <1>5

(* Batches that start at different rows are finitely many. *)
LEMMA DistinctBatchesAreFinite ==
    ASSUME NEW B \in SUBSET Batch, \A b, c \in B : b.from = c.from => b = c
    PROVE  IsFiniteSet(B)
<1> DEFINE f == [b \in B |-> b.from]
<1>1. f \in Injection(B, Rows)
  BY DEF Injection, IsInjective, Batch
<1>2. IsFiniteSet(Rows)
  BY FS_Interval, HookBarrierAssumption DEF Rows
<1>3. QED
  BY <1>1, <1>2, FS_Injection

(* A queue of distinct elements of a finite set holds all of them. *)
LEMMA SequenceOfASet ==
    ASSUME NEW B, IsFiniteSet(B), NEW q \in SetToSeqs(B)
    PROVE  q \in Seq(B) /\ ToSet(q) = B /\ IsInjective(q)
<1> DEFINE n == Cardinality(B)
<1>1. n \in Nat /\ IsFiniteSet(1..n) /\ Cardinality(1..n) = n
  BY FS_CardinalityType, FS_Interval
<1>2. q \in [1..n -> B] /\ \A i, j \in 1..n : i # j => q[i] # q[j]
  BY DEF SetToSeqs
<1>3. q \in Injection(1..n, B)
  BY <1>2 DEF Injection, IsInjective
<1>4. q \in Surjection(1..n, B)
  BY <1>1, <1>3, FS_Injection
<1>5. ToSet(q) = B
  BY <1>2, <1>4 DEF Surjection, ToSet
<1>6. q \in Seq(B)
  BY <1>1, <1>2, SeqDef
<1>7. QED
  BY <1>3, <1>5, <1>6 DEF Injection

(* enqueue adds the batches, keeps those that wait, and repeats none. *)
LEMMA EnqueueAdds ==
    ASSUME NEW new, ToSet(pending) \cup new \in SUBSET Batch,
           \A b, c \in ToSet(pending) \cup new : b.from = c.from => b = c,
           NEW q \in Enqueue(new)
    PROVE  q \in Seq(Batch) /\ ToSet(q) = ToSet(pending) \cup new /\ IsInjective(q)
<1>1. IsFiniteSet(ToSet(pending) \cup new)
  BY DistinctBatchesAreFinite
<1>2. q \in SetToSeqs(ToSet(pending) \cup new)
  BY DEF Enqueue
<1>3. q \in Seq(ToSet(pending) \cup new) /\ ToSet(q) = ToSet(pending) \cup new /\ IsInjective(q)
  BY <1>1, <1>2, SequenceOfASet
<1>4. QED
  BY <1>3, SeqMonotonic

(* The elements of sequences, of their concatenations and of their parts. *)
LEMMA ToSetOfConcat ==
    ASSUME NEW S, NEW s \in Seq(S), NEW t \in Seq(S)
    PROVE  s \o t \in Seq(S) /\ ToSet(s \o t) = ToSet(s) \cup ToSet(t)
<1>1. s \o t \in Seq(S)
  BY ConcatProperties
<1>2. Range(s \o t) = Range(s) \cup Range(t)
  BY RangeConcatenation
<1>3. QED
  BY <1>1, <1>2 DEF ToSet, Range

LEMMA PartOfASequence ==
    ASSUME NEW S, NEW s \in Seq(S), NEW m \in Nat \ {0}, NEW n \in Nat, n <= Len(s)
    PROVE  SubSeq(s, m, n) \in Seq(S) /\ ToSet(SubSeq(s, m, n)) \subseteq ToSet(s)
<1>1. \A k \in m..n : s[k] \in S /\ s[k] \in ToSet(s)
  BY LenProperties, ElementOfSeq DEF ToSet
<1>2. SubSeq(s, m, n) \in Seq(S)
  BY <1>1, SubSeqProperties
<1>3. SubSeq(s, m, n) \in Seq(ToSet(s))
  BY <1>1, SubSeqProperties
<1>4. QED
  BY <1>2, <1>3, ElementOfSeq, LenProperties DEF ToSet

(* A sequence without one of its elements. *)
LEMMA WithoutOne ==
    ASSUME NEW S, NEW s \in Seq(S), NEW t \in Seq(S), NEW e \in S,
           IsInjective(s \o (<<e>> \o t))
    PROVE  /\ IsInjective(s \o t)
           /\ ToSet(s \o t) = ToSet(s \o (<<e>> \o t)) \ {e}
<1> DEFINE a == s \o t
           b == s \o (<<e>> \o t)
           there(i) == IF i <= Len(s) THEN i ELSE i + 1
<1>1. /\ Len(s) \in Nat /\ Len(t) \in Nat
      /\ DOMAIN a = 1..(Len(s) + Len(t)) /\ DOMAIN b = 1..(Len(s) + 1 + Len(t))
  BY ConcatProperties, LenProperties
<1>2. \A i \in DOMAIN a : a[i] = IF i <= Len(s) THEN s[i] ELSE t[i - Len(s)]
  BY <1>1, ConcatProperties
<1>3. \A i \in DOMAIN b : b[i] = IF i <= Len(s) THEN s[i]
                               ELSE IF i = Len(s) + 1 THEN e ELSE t[i - Len(s) - 1]
  <2>1. <<e>> \in Seq(S) /\ Len(<<e>>) = 1 /\ <<e>>[1] = e
    OBVIOUS
  <2>2. DEFINE c == <<e>> \o t
  <2>3. /\ c \in Seq(S) /\ Len(c) = 1 + Len(t)
        /\ \A i \in 1..(1 + Len(t)) : c[i] = IF i <= 1 THEN e ELSE t[i - 1]
    BY <2>1, <1>1, ConcatProperties
  <2> HIDE DEF c
  <2>4. \A i \in 1..(Len(s) + Len(c)) : (s \o c)[i] = IF i <= Len(s) THEN s[i] ELSE c[i - Len(s)]
    BY <2>3, ConcatProperties
  <2>5. b = s \o c
    BY DEF c
  <2>6. QED
    BY <2>3, <2>4, <2>5, <1>1
<1>4. \A i \in DOMAIN a : there(i) \in DOMAIN b /\ a[i] = b[there(i)] /\ there(i) # Len(s) + 1
  BY <1>1, <1>2, <1>3
<1>5. \A i \in DOMAIN b : i = Len(s) + 1 \/ \E j \in DOMAIN a : i = there(j)
  <2> SUFFICES ASSUME NEW i \in DOMAIN b, i # Len(s) + 1
               PROVE  \E j \in DOMAIN a : i = there(j)
    OBVIOUS
  <2>1. CASE i <= Len(s)
    BY <2>1, <1>1
  <2>2. CASE i > Len(s)
    <3>1. i - 1 \in DOMAIN a /\ there(i - 1) = i
      BY <2>2, <1>1
    <3>2. QED
      BY <3>1
  <2>3. QED
    BY <2>1, <2>2, <1>1
<1>6. b[Len(s) + 1] = e /\ Len(s) + 1 \in DOMAIN b
  BY <1>1, <1>3
<1>7. \A i, j \in DOMAIN a : there(i) = there(j) => i = j
  BY <1>1
<1>8. \A i, j \in DOMAIN b : b[i] = b[j] => i = j
  BY DEF IsInjective
<1> HIDE DEF a, b, there
<1>9. IsInjective(a)
  BY <1>4, <1>7, <1>8 DEF IsInjective
<1>10. ToSet(a) = ToSet(b) \ {e}
  <2>1. ASSUME NEW i \in DOMAIN a PROVE a[i] \in ToSet(b) \ {e}
    BY <1>4, <1>6, <1>8 DEF ToSet
  <2>2. ASSUME NEW i \in DOMAIN b, b[i] # e PROVE b[i] \in ToSet(a)
    BY <2>2, <1>4, <1>5, <1>6 DEF ToSet
  <2>3. QED
    BY <2>1, <2>2 DEF ToSet
<1>11. QED
  BY <1>9, <1>10 DEF a, b

-----------------------------------------------------------------------------
(* What any turn of release i may do, when B are the batches enqueued and  *)
(* w is the watermark.                                                     *)
Effect(i, B, w) ==
    /\ pending' \in Seq(Batch) /\ ToSet(pending') \subseteq B
    /\ \E r \in ReleaseRecord :
          /\ release' = [release EXCEPT ![i] = r]
          /\ r.active \/ r = Idle
          /\ r.to <= w /\ \A b \in ToSet(r.rest) : b.to <= w
          /\ ToSet(r.kept) \subseteq B /\ ToSet(r.rest) \subseteq B
    /\ \/ emitted' = emitted
       \/ \E b \in B : b.to <= w /\ emitted' = [emitted EXCEPT ![b.from] = @ + 1]

LEMMA IdleIsARelease ==
    /\ Idle \in ReleaseRecord /\ Idle.to = 0
    /\ ToSet(Idle.kept) = {} /\ ToSet(Idle.rest) = {}
BY EmptySeq DEF Idle, ReleaseRecord, ToSet

(* The records a turn leaves behind. *)
LEMMA AwaitingType ==
    \A r \in ReleaseRecord, at \in Nat \ {0}, kept \in Seq(Batch) :
        LET t == Awaiting(r, at, kept)
        IN  /\ t \in ReleaseRecord /\ t.active
            /\ t.from = r.from /\ t.to = r.to /\ t.rest = r.rest
            /\ t.at = at /\ t.kept = kept
BY DEF ReleaseRecord, Awaiting

LEMMA AwaitingAllType ==
    ASSUME NEW rest \in Seq(Batch)
    PROVE  /\ AwaitingAll(rest) \in ReleaseRecord /\ AwaitingAll(rest).active
           /\ AwaitingAll(rest).to = 0
           /\ AwaitingAll(rest).kept = <<>> /\ AwaitingAll(rest).rest = rest
<1>1. Idle \in ReleaseRecord
  BY IdleIsARelease
<1>2. AwaitingAll(rest) \in ReleaseRecord
  BY <1>1 DEF ReleaseRecord, AwaitingAll
<1>3. QED
  BY <1>2 DEF Idle, AwaitingAll

(* The two kinds of turn: the last one, and one that awaits a hook. *)
LEMMA LastTurn ==
    ASSUME NEW i \in Releases, NEW B, NEW w \in Nat,
           pending' \in Seq(Batch), ToSet(pending') \subseteq B,
           release' = [release EXCEPT ![i] = Idle], emitted' = emitted
    PROVE  Effect(i, B, w)
<1>1. 0 <= w
  OBVIOUS
<1>2. QED
  BY <1>1, IdleIsARelease DEF Effect

LEMMA AwaitingTurn ==
    ASSUME NEW i \in Releases, NEW B, NEW w \in Nat,
           pending' \in Seq(Batch), ToSet(pending') \subseteq B,
           NEW r \in ReleaseRecord, release' = [release EXCEPT ![i] = r], r.active,
           r.to <= w, \A b \in ToSet(r.rest) : b.to <= w,
           ToSet(r.kept) \subseteq B, ToSet(r.rest) \subseteq B,
           NEW b \in B, b.to <= w, emitted' = [emitted EXCEPT ![b.from] = @ + 1]
    PROVE  Effect(i, B, w)
BY DEF Effect

LEMMA ConcatOfBatches ==
    \A s, t \in Seq(Batch) :
        s \o t \in Seq(Batch) /\ ToSet(s \o t) = ToSet(s) \cup ToSet(t)
BY ToSetOfConcat

LEMMA GroupingOfBatches ==
    \A s, t, u \in Seq(Batch) : s \o (t \o u) = (s \o t) \o u
BY ConcatAssociative

(* A part of the array, split before its element j. *)
LEMMA SplitBatches ==
    ASSUME NEW q \in Seq(Batch), NEW m \in 1..(Len(q) + 1), NEW j \in m..Len(q)
    PROVE  SubSeq(q, m, Len(q)) = SubSeq(q, m, j - 1) \o (<<q[j]>> \o SubSeq(q, j + 1, Len(q)))
<1>1. Len(q) \in Nat
  BY LenProperties
<1>2. /\ j - 1 \in (m - 1)..Len(q) /\ Len(q) \in (j - 1)..Len(q) /\ (j - 1) + 1 = j
      /\ j \in 1..Len(q) /\ Len(q) \in j..Len(q)
  BY <1>1
<1>3. SubSeq(q, m, j - 1) \o SubSeq(q, (j - 1) + 1, Len(q)) = SubSeq(q, m, Len(q))
  BY <1>2, ConcatAdjacentSubSeq
<1>4. SubSeq(q, j, Len(q)) = <<q[j]>> \o SubSeq(q, j + 1, Len(q))
  BY <1>2, SubSeqRecursiveFirst
<1>5. QED
  BY <1>2, <1>3, <1>4

LEMMA TailOfBatches ==
    ASSUME NEW s \in Seq(Batch), s # <<>>
    PROVE  /\ Tail(s) \in Seq(Batch) /\ ToSet(Tail(s)) \subseteq ToSet(s)
           /\ Head(s) \in ToSet(s)
<1>1. Len(s) \in Nat \ {0} /\ Tail(s) = SubSeq(s, 2, Len(s))
  BY EmptySeq, TailIsSubSeq
<1>2. SubSeq(s, 2, Len(s)) \in Seq(Batch) /\ ToSet(SubSeq(s, 2, Len(s))) \subseteq ToSet(s)
  BY <1>1, PartOfASequence
<1>3. Head(s) \in ToSet(s)
  BY <1>1, LenProperties DEF ToSet
<1>4. QED
  BY <1>1, <1>2, <1>3

LEMMA PassedType ==
    ASSUME NEW r \in ReleaseRecord, NEW q \in Seq(Batch),
           NEW j \in Nat \ {0}, j - 1 <= Len(q)
    PROVE  /\ Passed(r, q, j) \in Seq(Batch)
           /\ ToSet(Passed(r, q, j)) \subseteq ToSet(r.kept) \cup ToSet(q)
<1>1. r.kept \in Seq(Batch) /\ r.at \in Nat \ {0} /\ j - 1 \in Nat
  BY DEF ReleaseRecord
<1>2. /\ SubSeq(q, r.at, j - 1) \in Seq(Batch)
      /\ ToSet(SubSeq(q, r.at, j - 1)) \subseteq ToSet(q)
  BY <1>1, PartOfASequence
<1>3. /\ r.kept \o SubSeq(q, r.at, j - 1) \in Seq(Batch)
      /\ ToSet(r.kept \o SubSeq(q, r.at, j - 1))
           = ToSet(r.kept) \cup ToSet(SubSeq(q, r.at, j - 1))
  BY <1>1, <1>2, ConcatOfBatches
<1>4. QED
  BY <1>2, <1>3 DEF Passed

LEMMA TurnEffect ==
    ASSUME NEW i \in Releases, NEW r \in ReleaseRecord, NEW q \in Seq(Batch),
           NEW B, ToSet(q) \subseteq B, ToSet(r.kept) \subseteq B,
           ToSet(r.rest) \subseteq B, NEW w \in Nat,
           \A b \in ToSet(r.rest) : b.to <= w, r.to <= w, Turn(i, r, q)
    PROVE  Effect(i, B, w)
<1>1. /\ r.at \in Nat \ {0} /\ r.to \in Nat /\ Len(q) \in Nat
  BY LenProperties DEF ReleaseRecord, ToSet
<1>2. ASSUME EndOfRange(i, r, q)
      PROVE  Effect(i, B, w)
  <2>1. Len(q) + 1 \in Nat \ {0} /\ (Len(q) + 1) - 1 <= Len(q)
    BY <1>1
  <2>2. pending' \in Seq(Batch) /\ ToSet(pending') \subseteq B
    BY <1>2, <2>1, PassedType DEF EndOfRange
  <2>3. QED
    BY <1>2, <2>2, LastTurn DEF EndOfRange
<1>3. ASSUME NEW j \in Matches(r, q), EmitNext(i, r, q, j)
      PROVE  Effect(i, B, w)
  <2> DEFINE t == Awaiting(r, j + 1, Passed(r, q, j))
  <2>1. /\ j \in 1..Len(q) /\ j \in Nat \ {0} /\ j - 1 <= Len(q) /\ j + 1 \in Nat \ {0}
        /\ ContainedIn(q[j], r.from, r.to)
    BY <1>1 DEF Matches
  <2>2. Passed(r, q, j) \in Seq(Batch) /\ ToSet(Passed(r, q, j)) \subseteq B
    BY <2>1, PassedType
  <2>3. q[j] \in B /\ q[j].to \in Nat /\ q[j] \in Batch
    BY <2>1, ElementOfSeq, LenProperties DEF ToSet, Batch, Rows
  <2>4. q[j].to <= w
    BY <2>1, <2>3, <1>1 DEF ContainedIn
  <2>5. /\ t \in ReleaseRecord /\ t.active /\ t.to = r.to /\ t.rest = r.rest
        /\ t.kept = Passed(r, q, j)
    <3> DEFINE at == j + 1
               kept == Passed(r, q, j)
    <3>1. at \in Nat \ {0} /\ kept \in Seq(Batch)
      BY <2>1, <2>2
    <3> HIDE DEF at, kept
    <3>2. LET u == Awaiting(r, at, kept)
          IN  /\ u \in ReleaseRecord /\ u.active /\ u.to = r.to /\ u.rest = r.rest
              /\ u.kept = kept
      BY <3>1, AwaitingType
    <3>3. QED
      BY <3>2 DEF at, kept
  <2>6. /\ pending' = q /\ release' = [release EXCEPT ![i] = t]
        /\ emitted' = [emitted EXCEPT ![q[j].from] = @ + 1]
    BY <1>3 DEF EmitNext
  <2> HIDE DEF t
  <2>7. QED
    BY <1>1, <2>2, <2>3, <2>4, <2>5, <2>6, AwaitingTurn
<1>4. QED
  BY <1>2, <1>3 DEF Turn

LEMMA ReleaseEffect ==
    ASSUME NEW i \in Releases, release \in [Releases -> ReleaseRecord], release[i] = Idle,
           NEW from \in Nat, NEW to \in Nat, NEW q \in Seq(Batch),
           NEW B, ToSet(q) \subseteq B, to <= watermark', watermark' \in Nat,
           Release(i, from, to, q)
    PROVE  Effect(i, B, watermark')
<1> DEFINE r == [Idle EXCEPT !.from = from, !.to = to]
<1>1. r \in ReleaseRecord /\ r.to = to /\ r.kept = <<>> /\ r.rest = <<>>
  BY EmptySeq DEF Idle, ReleaseRecord
<1>2. CASE q = <<>>
  <2>1. pending' = q /\ release' = [release EXCEPT ![i] = Idle] /\ emitted' = emitted
    BY <1>2 DEF Release
  <2>2. QED
    BY <2>1, LastTurn
<1>3. CASE q # <<>>
  <2>1. Turn(i, r, q)
    BY <1>3 DEF Release
  <2>2. ToSet(r.kept) = {} /\ ToSet(r.rest) = {}
    BY <1>1 DEF ToSet
  <2> HIDE DEF r
  <2>3. QED
    BY <1>1, <2>1, <2>2, TurnEffect
<1>4. QED
  BY <1>2, <1>3

LEMMA TurnAllEffect ==
    ASSUME NEW i \in Releases, NEW rest \in Seq(Batch), NEW q \in Seq(Batch),
           NEW B, ToSet(q) \subseteq B, ToSet(rest) \subseteq B,
           NEW w \in Nat, \A b \in ToSet(rest) : b.to <= w, TurnAll(i, rest, q)
    PROVE  Effect(i, B, w)
<1>1. CASE rest = <<>>
  BY <1>1, LastTurn DEF TurnAll
<1>2. CASE rest # <<>>
  <2> DEFINE t == AwaitingAll(Tail(rest))
  <2>1. Tail(rest) \in Seq(Batch) /\ ToSet(Tail(rest)) \subseteq ToSet(rest)
    BY <1>2, TailOfBatches
  <2>2. Head(rest) \in ToSet(rest)
    BY <1>2, TailOfBatches
  <2>3. t \in ReleaseRecord /\ t.active /\ t.to = 0 /\ t.kept = <<>> /\ t.rest = Tail(rest)
    BY <2>1, AwaitingAllType
  <2>4. ToSet(t.kept) = {} /\ Head(rest).to <= w
    BY <2>2, <2>3 DEF ToSet
  <2>5. /\ pending' = q /\ release' = [release EXCEPT ![i] = t]
        /\ emitted' = [emitted EXCEPT ![Head(rest).from] = @ + 1]
    BY <1>2 DEF TurnAll
  <2> HIDE DEF t
  <2>6. /\ pending' \in Seq(Batch) /\ ToSet(pending') \subseteq B
        /\ t.to <= w /\ \A b \in ToSet(t.rest) : b.to <= w
        /\ ToSet(t.kept) \subseteq B /\ ToSet(t.rest) \subseteq B /\ Head(rest) \in B
    BY <2>1, <2>2, <2>3, <2>4, <2>5
  <2>7. QED
    BY <2>3, <2>4, <2>5, <2>6, AwaitingTurn
<1>3. QED
  BY <1>1, <1>2

-----------------------------------------------------------------------------
LEMMA InvInit == Init => Inv
<1> SUFFICES ASSUME Init PROVE Inv
  OBVIOUS
<1> USE HookBarrierAssumption, IdleIsARelease, EmptySeq DEF Init, Rows
<1>1. ToSet(pending) = {}
  BY DEF ToSet
<1>2. TypeOK
  BY DEF TypeOK
<1>3. QED
  BY <1>1, <1>2 DEF Inv, BatchesDiffer, HeldIsQueued, Releasable, EmittedRows, EmittedIsProjected

(* A turn preserves the invariant, whatever new batches were enqueued.     *)
LEMMA EffectKeepsInv ==
    ASSUME Inv, NEW i \in Releases, Effect(i, queuedBatches', watermark'),
           stored' \in 0..MaxRow, watermark' \in 0..stored', watermark <= watermark',
           stored <= stored', queuedBatches' \subseteq Batch, BatchesDiffer',
           queuedBatches \subseteq queuedBatches',
           \A b \in queuedBatches' \ queuedBatches : b.from > stored,
           deferred' \in Releases \cup {NoRelease}
    PROVE  Inv'
<1> USE HookBarrierAssumption DEF Inv
<1>1. /\ stored \in Nat /\ watermark \in Nat /\ stored' \in Nat /\ watermark' \in Nat
      /\ watermark <= stored
  BY DEF TypeOK
<1>2. \A b \in queuedBatches' : b.from \in Rows /\ b.to \in Rows /\ b.from <= b.to
  BY DEF Batch
<1>3. PICK r \in ReleaseRecord :
          /\ release' = [release EXCEPT ![i] = r]
          /\ r.active \/ r = Idle
          /\ r.to <= watermark' /\ \A b \in ToSet(r.rest) : b.to <= watermark'
          /\ ToSet(r.kept) \subseteq queuedBatches' /\ ToSet(r.rest) \subseteq queuedBatches'
  BY DEF Effect
<1>4. \A k \in Releases : release'[k] = IF k = i THEN r ELSE release[k]
  BY <1>3 DEF TypeOK
<1>5. release' \in [Releases -> ReleaseRecord]
  BY <1>3 DEF TypeOK
<1>6. emitted' \in [Rows -> Nat] /\ EmittedRows' /\ EmittedIsProjected'
  <2>1. CASE emitted' = emitted
    <3>1. emitted' \in [Rows -> Nat]
      BY <2>1 DEF TypeOK
    <3>2. EmittedRows'
      BY <1>1, <2>1 DEF EmittedRows, Rows
    <3>3. EmittedIsProjected'
      BY <1>1, <1>2, <2>1 DEF EmittedIsProjected, EmittedRows, Rows
    <3>4. QED
      BY <3>1, <3>2, <3>3
  <2>2. ASSUME NEW b \in queuedBatches', b.to <= watermark',
               emitted' = [emitted EXCEPT ![b.from] = @ + 1]
        PROVE  emitted' \in [Rows -> Nat] /\ EmittedRows' /\ EmittedIsProjected'
    <3>1. /\ emitted' \in [Rows -> Nat]
          /\ \A x \in Rows : x # b.from => emitted'[x] = emitted[x]
      BY <2>2, <1>2 DEF TypeOK
    <3>2. EmittedRows'
      BY <1>1, <1>2, <2>2, <3>1 DEF EmittedRows, Rows
    <3>3. ASSUME NEW c \in queuedBatches', emitted'[c.from] > 0
          PROVE  c.to <= watermark'
      <4>1. CASE c.from = b.from
        BY <4>1, <2>2 DEF BatchesDiffer
      <4>2. CASE c.from # b.from
        <5>1. c.from \in Rows /\ emitted[c.from] > 0
          BY <1>2, <3>1, <3>3, <4>2
        <5>2. c \in queuedBatches
          BY <1>1, <1>2, <5>1 DEF EmittedRows, Rows
        <5>3. c.to \in Nat /\ c.to <= watermark
          BY <1>2, <5>1, <5>2 DEF EmittedIsProjected, Rows
        <5>4. QED
          BY <1>1, <5>3
      <4>3. QED
        BY <4>1, <4>2
    <3>4. QED
      BY <3>1, <3>2, <3>3 DEF EmittedIsProjected
  <2>3. QED
    BY <2>1, <2>2 DEF Effect
<1>7. TypeOK'
  BY <1>5, <1>6 DEF TypeOK, Effect
<1>8. HeldIsQueued'
  BY <1>3, <1>4 DEF HeldIsQueued, Effect
<1>9. Releasable'
  <2> SUFFICES ASSUME NEW k \in Releases
               PROVE  /\ release'[k].active \/ release'[k] = Idle
                      /\ release'[k].to <= watermark'
                      /\ \A b \in ToSet(release'[k].rest) : b.to <= watermark'
    BY DEF Releasable
  <2>1. CASE k = i
    BY <1>3, <1>4, <2>1
  <2>2. CASE k # i
    <3>1. release'[k] = release[k] /\ release[k].to \in Nat
      BY <1>4, <2>2 DEF TypeOK, ReleaseRecord
    <3>2. \A b \in ToSet(release[k].rest) : b.to \in Nat /\ b.to <= watermark
      BY <1>2 DEF Releasable, HeldIsQueued, Rows
    <3>3. QED
      BY <1>1, <3>1, <3>2 DEF Releasable
  <2>3. QED
    BY <2>1, <2>2
<1>10. QED
  BY <1>6, <1>7, <1>8, <1>9

LEMMA InvIngest ==
    ASSUME Inv, NEW i \in Releases, NEW k \in Rows, NEW size \in Sizes, NEW inline \in BOOLEAN,
           Ingest(k, size, inline, i)
    PROVE  Inv' /\ Effect(i, queuedBatches', watermark')
<1> USE HookBarrierAssumption
<1>1. /\ stored \in Nat /\ watermark \in 0..stored /\ k \in Nat \ {0} /\ size \in Nat \ {0}
      /\ stored' = stored + k /\ stored + k <= MaxRow /\ release[i] = Idle
      /\ watermark' = IF inline /\ watermark = stored THEN stored + k ELSE watermark
      /\ release \in [Releases -> ReleaseRecord] /\ pending \in Seq(Batch)
  BY DEF Ingest, Rows, Inv, TypeOK, Releasable, Active
<1>0. PICK new \in SUBSET Batches(stored + 1, stored + k, size) : \E q \in Enqueue(new) :
          /\ queuedBatches' = queuedBatches \cup new
          /\ IF watermark' = stored'
             THEN Release(i, stored + 1, stored + k, q)
             ELSE pending' = q /\ UNCHANGED <<release, emitted>>
  BY DEF Ingest
<1>2. PICK q \in Enqueue(new) :
          /\ queuedBatches' = queuedBatches \cup new
          /\ IF watermark' = stored'
             THEN Release(i, stored + 1, stored + k, q)
             ELSE pending' = q /\ UNCHANGED <<release, emitted>>
  BY <1>0
<1>3. /\ stored' \in 0..MaxRow /\ watermark' \in 0..stored'
      /\ watermark <= watermark' /\ stored <= stored' /\ watermark' \in Nat
  BY <1>1
<1>4. /\ \A b \in new : /\ b \in Batch /\ b.from > stored /\ b.to <= stored'
      /\ \A b, c \in new : b.from = c.from => b = c
  <2>1. stored + 1 \in Nat /\ stored + k \in Nat /\ stored + 1 <= stored + k
    BY <1>1
  <2>2. /\ \A b \in new : /\ b \in [from : Nat, to : Nat] /\ stored + 1 <= b.from
                          /\ b.from <= b.to /\ b.to <= stored + k
        /\ \A b, c \in new : b.from = c.from => b = c
    BY <1>1, <2>1, PagesOfARange
  <2>3. QED
    BY <1>1, <2>2 DEF Batch, Rows
<1>5. /\ queuedBatches' \subseteq Batch /\ queuedBatches \subseteq queuedBatches' /\ BatchesDiffer'
      /\ \A b \in queuedBatches' \ queuedBatches : b.from > stored
  <2>1. \A b \in queuedBatches : /\ b \in Batch /\ b.from \in Nat /\ b.to \in Nat
                                 /\ b.from <= b.to /\ b.to <= stored
    BY DEF Inv, TypeOK, BatchesDiffer, Batch, Rows
  <2>2. \A b \in new : b.from \in Nat
    BY <1>4 DEF Batch, Rows
  <2>3. \A b \in queuedBatches : b.to <= stored'
    BY <1>1, <2>1
  <2>4. \A b, c \in queuedBatches' : b.from = c.from => b = c
    BY <1>1, <1>2, <1>4, <2>1, <2>2 DEF Inv, BatchesDiffer
  <2>5. QED
    BY <1>2, <1>4, <2>1, <2>3, <2>4 DEF BatchesDiffer
<1>6. q \in Seq(Batch) /\ ToSet(q) \subseteq queuedBatches'
  <2>1. ToSet(pending) \cup new \subseteq queuedBatches'
    BY <1>2 DEF Inv, HeldIsQueued
  <2>2. QED
    BY <1>2, <1>5, <2>1, EnqueueAdds DEF BatchesDiffer
<1>7. Effect(i, queuedBatches', watermark')
  <2>1. CASE watermark' = stored'
    <3>1. Release(i, stored + 1, stored + k, q)
      BY <1>2, <2>1
    <3>2. stored + 1 \in Nat /\ stored + k \in Nat /\ stored + k <= watermark'
      BY <1>1, <2>1
    <3>3. QED
      BY <1>1, <1>3, <1>6, <3>1, <3>2, ReleaseEffect
  <2>2. CASE watermark' # stored'
    <3>1. release' = [release EXCEPT ![i] = Idle] /\ emitted' = emitted /\ pending' = q
      BY <1>1, <1>2, <2>2
    <3>2. QED
      BY <1>3, <1>6, <3>1, LastTurn
  <2>3. QED
    BY <2>1, <2>2
<1>8. deferred' \in Releases \cup {NoRelease}
  BY DEF Ingest, Inv, TypeOK
<1>9. QED
  BY <1>3, <1>5, <1>7, <1>8, EffectKeepsInv

(* A step that enqueues nothing and stores nothing. *)
LEMMA InvTurn ==
    ASSUME Inv, NEW i \in Releases, Effect(i, queuedBatches, watermark'),
           UNCHANGED <<stored, queuedBatches>>,
           watermark' \in 0..stored, watermark <= watermark',
           deferred' \in Releases \cup {NoRelease}
    PROVE  Inv' /\ Effect(i, queuedBatches', watermark')
<1>1. /\ stored' \in 0..MaxRow /\ watermark' \in 0..stored' /\ stored <= stored'
      /\ queuedBatches' \subseteq Batch /\ queuedBatches \subseteq queuedBatches'
      /\ BatchesDiffer'
  BY HookBarrierAssumption DEF Inv, TypeOK, BatchesDiffer
<1>2. Effect(i, queuedBatches', watermark')
  BY Zenon
<1>3. \A b \in queuedBatches' \ queuedBatches : b.from > stored
  OBVIOUS
<1>4. QED
  BY <1>1, <1>2, <1>3, EffectKeepsInv

LEMMA InvProjectPage ==
    ASSUME Inv, NEW i \in Releases, NEW size \in Sizes, ProjectPage(size, i)
    PROVE  Inv' /\ Effect(i, queuedBatches', watermark')
<1>1. /\ stored \in Nat /\ watermark \in 0..stored /\ size \in Nat \ {0}
      /\ watermark' = IF watermark + size < stored THEN watermark + size ELSE stored
      /\ release[i] = Idle /\ release \in [Releases -> ReleaseRecord]
      /\ pending \in Seq(Batch) /\ ToSet(pending) \subseteq queuedBatches
  BY HookBarrierAssumption
     DEF ProjectPage, Inv, TypeOK, Releasable, HeldIsQueued, Active
<1>2. /\ watermark' \in 0..stored /\ watermark <= watermark' /\ watermark' \in Nat
      /\ watermark + 1 \in Nat /\ watermark' <= watermark'
  BY <1>1
<1>3. Release(i, watermark + 1, watermark', pending)
  BY DEF ProjectPage
<1>4. Effect(i, queuedBatches, watermark')
  BY <1>1, <1>2, <1>3, ReleaseEffect
<1>5. deferred' \in Releases \cup {NoRelease}
  BY DEF ProjectPage
<1>6. UNCHANGED <<stored, queuedBatches>>
  BY DEF ProjectPage
<1>7. QED
  BY <1>2, <1>4, <1>5, <1>6, InvTurn

LEMMA InvRebuildAll ==
    ASSUME Inv, NEW i \in Releases, RebuildAll(i)
    PROVE  Inv' /\ Effect(i, queuedBatches', watermark')
<1>1. /\ stored \in Nat /\ watermark \in 0..stored /\ watermark' = stored
      /\ pending \in Seq(Batch) /\ ToSet(pending) \subseteq queuedBatches
      /\ \A b \in ToSet(pending) : b.to <= stored
  BY HookBarrierAssumption DEF RebuildAll, Inv, TypeOK, BatchesDiffer, HeldIsQueued
<1>2. watermark' \in 0..stored /\ watermark <= watermark' /\ watermark' \in Nat
  BY <1>1
<1>3. TakenOut(pending) \in Seq(Batch) /\ ToSet(TakenOut(pending)) \subseteq queuedBatches
  BY EmptySeq DEF TakenOut, ToSet
<1>4. TurnAll(i, pending, TakenOut(pending))
  BY DEF RebuildAll
<1>5. Effect(i, queuedBatches, watermark')
  BY <1>1, <1>2, <1>3, <1>4, TurnAllEffect
<1>6. deferred' \in Releases \cup {NoRelease}
  BY DEF RebuildAll
<1>7. UNCHANGED <<stored, queuedBatches>>
  BY DEF RebuildAll
<1>8. QED
  BY <1>2, <1>5, <1>6, <1>7, InvTurn

LEMMA InvResume ==
    ASSUME Inv, NEW i \in Releases, Resume(i)
    PROVE  Inv' /\ Effect(i, queuedBatches', watermark')
<1> DEFINE r == release[i]
<1>1. /\ stored \in Nat /\ watermark \in 0..stored /\ watermark' = watermark
      /\ r \in ReleaseRecord /\ r.to <= watermark
      /\ \A b \in ToSet(r.rest) : b.to <= watermark
      /\ ToSet(r.kept) \subseteq queuedBatches /\ ToSet(r.rest) \subseteq queuedBatches
      /\ pending \in Seq(Batch) /\ ToSet(pending) \subseteq queuedBatches
  BY HookBarrierAssumption DEF Resume, Inv, TypeOK, Releasable, HeldIsQueued
<1>2. watermark' \in 0..stored /\ watermark <= watermark' /\ watermark' \in Nat
  BY <1>1
<1>3. Effect(i, queuedBatches, watermark')
  <2>1. CASE r.to # 0
    <3>1. Turn(i, r, pending)
      BY <2>1 DEF Resume
    <3> HIDE DEF r
    <3>2. QED
      BY <1>1, <1>2, <3>1, TurnEffect
  <2>2. CASE r.to = 0
    <3>1. TurnAll(i, r.rest, pending) /\ r.rest \in Seq(Batch)
      BY <1>1, <2>2 DEF Resume, ReleaseRecord
    <3> HIDE DEF r
    <3>2. QED
      BY <1>1, <1>2, <3>1, TurnAllEffect
  <2>3. QED
    BY <2>1, <2>2
<1>4. deferred' \in Releases \cup {NoRelease}
  BY DEF Resume, Inv, TypeOK
<1>5. UNCHANGED <<stored, queuedBatches>>
  BY DEF Resume
<1>6. QED
  BY <1>2, <1>3, <1>4, <1>5, InvTurn

LEMMA InvStep == Inv /\ [Next]_vars => Inv'
<1> SUFFICES ASSUME Inv, [Next]_vars PROVE Inv'
  OBVIOUS
<1>1. CASE UNCHANGED vars
  BY <1>1 DEF vars, Inv, TypeOK, BatchesDiffer, HeldIsQueued, Releasable, EmittedRows,
              EmittedIsProjected
<1>2. CASE Next
  BY <1>2, InvIngest, InvProjectPage, InvRebuildAll, InvResume DEF Next
<1>3. QED
  BY <1>1, <1>2

LEMMA Invariance == Spec => []Inv
BY InvInit, InvStep, PTL DEF Spec

(* The barrier, its batches and its releases keep their shape. *)
THEOREM HooksTypeCorrect == Spec => []TypeOK
<1>1. Inv => TypeOK
  BY DEF Inv
<1>2. QED
  BY Invariance, <1>1, PTL

(* Whichever projection releases a hook, and whatever is stored, enqueued  *)
(* or released while other hooks run, no hook runs before all rows of its  *)
(* batch have been projected.                                              *)
THEOREM EmittedAfterProjection == Spec => []EmittedIsProjected
<1>1. Inv => EmittedIsProjected
  BY DEF Inv
<1>2. QED
  BY Invariance, <1>1, PTL

-----------------------------------------------------------------------------
(* The turn that runs the hook of e takes e out of the line. *)
LEMMA EmitKeepsSound ==
    ASSUME NEW B \in SUBSET Batch, \A b, c \in B : b.from = c.from => b = c,
           NEW count \in [Rows -> Nat], NEW e \in B,
           NEW s \in Seq(Batch), NEW t \in Seq(Batch),
           Sound(s \o (<<e>> \o t), B, count)
    PROVE  Sound(s \o t, B, [count EXCEPT ![e.from] = @ + 1])
<1> DEFINE a == s \o t
           b == s \o (<<e>> \o t)
           new == [count EXCEPT ![e.from] = @ + 1]
<1>1. IsInjective(a) /\ ToSet(a) = ToSet(b) \ {e}
  BY WithoutOne DEF Sound
<1>2. e \in ToSet(b)
  <2>1. <<e>> \in Seq(Batch) /\ e \in ToSet(<<e>>)
    BY DEF ToSet
  <2>2. <<e>> \o t \in Seq(Batch) /\ ToSet(<<e>> \o t) = ToSet(<<e>>) \cup ToSet(t)
    BY <2>1, ConcatOfBatches
  <2>3. ToSet(b) = ToSet(s) \cup ToSet(<<e>> \o t)
    BY <2>2, ConcatOfBatches
  <2>4. QED
    BY <2>1, <2>2, <2>3
<1>3. \A x \in B : count[x.from] = IF x \in ToSet(b) THEN 0 ELSE 1
  BY DEF Sound
<1>4. \A x \in B : x.from \in Rows /\ (x # e => x.from # e.from)
  BY DEF Batch
<1> HIDE DEF a, b
<1>5. \A x \in B : new[x.from] = IF x \in ToSet(a) THEN 0 ELSE 1
  BY <1>1, <1>2, <1>3, <1>4
<1>6. QED
  BY <1>1, <1>5 DEF Sound, a

(* What a turn of a release that works alone leaves behind. *)
SoundAfter(i, B) ==
    IF release'[i].active
    THEN /\ release'[i].to = 0 => pending' = <<>>
         /\ release'[i].to # 0 => release'[i].at <= Len(pending') + 1
         /\ Sound(Line(release'[i], pending'), B, emitted')
    ELSE Sound(pending', B, emitted')

LEMMA TurnKeepsSound ==
    ASSUME NEW i \in Releases, release \in [Releases -> ReleaseRecord],
           emitted \in [Rows -> Nat],
           NEW B \in SUBSET Batch, \A b, c \in B : b.from = c.from => b = c,
           NEW r \in ReleaseRecord, NEW q \in Seq(Batch), ToSet(q) \subseteq B,
           r.to # 0, r.at <= Len(q) + 1, Sound(Line(r, q), B, emitted), Turn(i, r, q)
    PROVE  SoundAfter(i, B)
<1>0. r.at \in Nat \ {0} /\ r.kept \in Seq(Batch)
  BY DEF ReleaseRecord
<1>1. /\ r.at \in 1..(Len(q) + 1) /\ Len(q) \in Nat /\ r.kept \in Seq(Batch)
      /\ Line(r, q) = r.kept \o SubSeq(q, r.at, Len(q))
  <2>1. Len(q) \in Nat
    BY LenProperties
  <2>2. Line(r, q) = r.kept \o SubSeq(q, r.at, Len(q))
    BY DEF Line
  <2>3. QED
    BY <1>0, <2>1, <2>2
<1>2. ASSUME EndOfRange(i, r, q)
      PROVE  SoundAfter(i, B)
  <2>1. (Len(q) + 1) - 1 = Len(q)
    BY <1>1
  <2>2. pending' = Line(r, q)
    BY <1>1, <1>2, <2>1 DEF EndOfRange, Passed
  <2>3. release'[i] = Idle /\ emitted' = emitted /\ ~Idle.active
    BY <1>2 DEF EndOfRange, Idle
  <2>4. QED
    BY <2>2, <2>3 DEF SoundAfter
<1>3. ASSUME NEW j \in Matches(r, q), EmitNext(i, r, q, j)
      PROVE  SoundAfter(i, B)
  <2> DEFINE at == j + 1
             kept == Passed(r, q, j)
             before == SubSeq(q, r.at, j - 1)
             after == SubSeq(q, at, Len(q))
             t == Awaiting(r, at, kept)
  <2>1. /\ j \in 1..Len(q) /\ j \in Nat \ {0} /\ j - 1 \in (r.at - 1)..Len(q)
        /\ at \in Nat \ {0} /\ at <= Len(q) + 1 /\ j - 1 <= Len(q)
        /\ Len(q) \in (j - 1)..Len(q) /\ Len(q) \in j..Len(q) /\ (j - 1) + 1 = j
    BY <1>1 DEF Matches
  <2>2. kept \in Seq(Batch) /\ kept = r.kept \o before
    BY <2>1, PassedType DEF Passed
  <2>3. before \in Seq(Batch) /\ after \in Seq(Batch)
    <3>1. r.at \in Nat \ {0} /\ j - 1 \in Nat /\ Len(q) <= Len(q)
      BY <1>1, <2>1
    <3>2. QED
      BY <1>1, <2>1, <3>1, PartOfASequence
  <2>4. q[j] \in B /\ q[j] \in Batch
    BY <2>1, LenProperties DEF ToSet
  <2>5. SubSeq(q, r.at, Len(q)) = before \o (<<q[j]>> \o after)
    BY <1>1, SplitBatches DEF Matches
  <2> HIDE DEF before, after, kept
  <2>6. Line(r, q) = kept \o (<<q[j]>> \o after)
    <3>1. <<q[j]>> \in Seq(Batch)
      BY <2>4
    <3>2. <<q[j]>> \o after \in Seq(Batch)
      BY <2>3, <3>1, ConcatOfBatches
    <3>3. r.kept \o (before \o (<<q[j]>> \o after)) = (r.kept \o before) \o (<<q[j]>> \o after)
      BY <1>1, <2>3, <3>2, GroupingOfBatches
    <3>4. QED
      BY <1>1, <2>2, <2>5, <3>3
  <2>7. emitted' = [emitted EXCEPT ![q[j].from] = @ + 1] /\ pending' = q
    BY <1>3 DEF EmitNext
  <2>8. Sound(kept \o after, B, emitted')
    <3>1. Sound(kept \o (<<q[j]>> \o after), B, emitted)
      BY <2>6
    <3>2. Sound(kept \o after, B, [emitted EXCEPT ![q[j].from] = @ + 1])
      BY <2>2, <2>3, <2>4, <3>1, EmitKeepsSound
    <3>3. QED
      BY <2>7, <3>2
  <2> HIDE DEF at
  <2>9. /\ t.active /\ t.to = r.to /\ t.at = at /\ t.kept = kept
    <3>1. at \in Nat \ {0} /\ kept \in Seq(Batch)
      BY <2>1, <2>2
    <3>2. QED
      BY <3>1, AwaitingType
  <2>10. release'[i] = t
    BY <1>3 DEF EmitNext, at, kept
  <2>11. Line(t, q) = kept \o after
    BY <2>9 DEF Line, after
  <2> HIDE DEF t
  <2>12. QED
    BY <2>1, <2>7, <2>8, <2>9, <2>10, <2>11 DEF SoundAfter
<1>4. QED
  BY <1>2, <1>3 DEF Turn

LEMMA ReleaseKeepsSound ==
    ASSUME NEW i \in Releases, release \in [Releases -> ReleaseRecord], release[i] = Idle,
           emitted \in [Rows -> Nat],
           NEW B \in SUBSET Batch, \A b, c \in B : b.from = c.from => b = c,
           NEW from \in Nat, NEW to \in Nat \ {0}, NEW q \in Seq(Batch), ToSet(q) \subseteq B,
           Sound(q, B, emitted), Release(i, from, to, q)
    PROVE  SoundAfter(i, B)
<1> DEFINE r == [Idle EXCEPT !.from = from, !.to = to]
<1>1. CASE q = <<>>
  <2>1. pending' = q /\ release'[i] = Idle /\ emitted' = emitted /\ ~Idle.active
    BY <1>1 DEF Release, Idle
  <2>2. QED
    BY <2>1 DEF SoundAfter
<1>2. CASE q # <<>>
  <2>1. r \in ReleaseRecord /\ r.to = to /\ r.at = 1 /\ r.kept = <<>>
    BY EmptySeq DEF Idle, ReleaseRecord
  <2>2. Turn(i, r, q)
    BY <1>2 DEF Release
  <2> HIDE DEF r
  <2>3. Line(r, q) = <<>> \o SubSeq(q, 1, Len(q))
    BY <2>1 DEF Line
  <2>4. Line(r, q) = q
    BY <2>3, SubSeqFull, ConcatEmptySeq
  <2>5. r.to # 0 /\ r.at <= Len(q) + 1
    BY <2>1, LenProperties
  <2>6. QED
    BY <2>1, <2>2, <2>4, <2>5, TurnKeepsSound
<1>3. QED
  BY <1>1, <1>2

LEMMA TurnAllKeepsSound ==
    ASSUME NEW i \in Releases, release \in [Releases -> ReleaseRecord],
           emitted \in [Rows -> Nat],
           NEW B \in SUBSET Batch, \A b, c \in B : b.from = c.from => b = c,
           NEW rest \in Seq(Batch), ToSet(rest) \subseteq B,
           Sound(rest, B, emitted), TurnAll(i, rest, <<>>)
    PROVE  SoundAfter(i, B)
<1>1. CASE rest = <<>>
  <2>1. pending' = rest /\ release'[i] = Idle /\ emitted' = emitted /\ ~Idle.active
    BY <1>1 DEF TurnAll, Idle
  <2>2. QED
    BY <2>1 DEF SoundAfter
<1>2. CASE rest # <<>>
  <2> DEFINE e == Head(rest)
             tail == Tail(rest)
             t == AwaitingAll(tail)
  <2>1. e \in B /\ tail \in Seq(Batch)
    BY <1>2, TailOfBatches
  <2>2. pending' = <<>> /\ release'[i] = t /\ emitted' = [emitted EXCEPT ![e.from] = @ + 1]
    BY <1>2 DEF TurnAll
  <2>3. t.active /\ t.to = 0 /\ t.rest = tail
    BY <2>1, AwaitingAllType
  <2>4. rest = <<e>> \o tail
    <3>1. Len(rest) \in Nat \ {0} /\ SubSeq(rest, 1, Len(rest)) = rest
      BY <1>2, EmptySeq, SubSeqFull
    <3>2. 1 \in 1..Len(rest) /\ Len(rest) \in 1..Len(rest) /\ 1 + 1 = 2
      BY <3>1
    <3>3. SubSeq(rest, 1, Len(rest)) = <<rest[1]>> \o SubSeq(rest, 2, Len(rest))
      BY <3>2, SubSeqRecursiveFirst
    <3>4. tail = SubSeq(rest, 2, Len(rest)) /\ e = rest[1]
      BY <1>2, TailIsSubSeq
    <3>5. QED
      BY <3>1, <3>3, <3>4
  <2> HIDE DEF e, tail, t
  <2>5. <<>> \o (<<e>> \o tail) = rest /\ <<>> \o tail = tail
    BY <2>1, <2>4, ConcatEmptySeq
  <2>6. Sound(tail, B, emitted')
    <3>1. Sound(<<>> \o (<<e>> \o tail), B, emitted) /\ <<>> \in Seq(Batch)
      BY <2>5, EmptySeq
    <3>2. Sound(<<>> \o tail, B, [emitted EXCEPT ![e.from] = @ + 1])
      BY <2>1, <3>1, EmitKeepsSound
    <3>3. QED
      BY <2>2, <2>5, <3>2
  <2>7. Line(t, <<>>) = tail
    BY <2>3 DEF Line
  <2>8. QED
    BY <2>2, <2>3, <2>6, <2>7 DEF SoundAfter
<1>3. QED
  BY <1>1, <1>2

-----------------------------------------------------------------------------
LEMMA ConservedInit == Init => Conserved
<1> SUFFICES ASSUME Init PROVE Conserved
  OBVIOUS
<1>1. Active = {} /\ pending = <<>> /\ queuedBatches = {}
  BY DEF Init, Active, Idle
<1>2. Sound(pending, queuedBatches, emitted)
  BY <1>1 DEF Sound, IsInjective
<1>3. QED
  BY <1>1, <1>2 DEF Conserved

(* Only release i was at work, if any, and it leaves the rest sound. *)
LEMMA AloneKeepsConserved ==
    ASSUME Inv, NEW i \in Releases, Effect(i, queuedBatches', watermark'),
           Active \subseteq {i}, SoundAfter(i, queuedBatches')
    PROVE  Conserved'
<1>1. \A k \in Releases : k # i => release'[k] = release[k]
  BY DEF Effect, Inv, TypeOK
<1>2. Active' = IF release'[i].active THEN {i} ELSE {}
  BY <1>1 DEF Active
<1>3. CASE release'[i].active
  BY <1>2, <1>3 DEF Conserved, SoundAfter
<1>4. CASE ~release'[i].active
  BY <1>2, <1>4 DEF Conserved, SoundAfter
<1>5. QED
  BY <1>3, <1>4

LEMMA ConservedIngest ==
    ASSUME Inv, Inv', Conserved, NEW i \in Releases, NEW k \in Rows, NEW size \in Sizes,
           NEW inline \in BOOLEAN, Ingest(k, size, inline, i)
    PROVE  Conserved'
<1> SUFFICES ASSUME ~contended' PROVE Conserved'
  BY DEF Conserved
<1>1. ~contended /\ Active = {}
  BY DEF Ingest
<1>2. Sound(pending, queuedBatches, emitted)
  BY <1>1 DEF Conserved
<1>3. /\ stored \in Nat /\ watermark \in 0..stored /\ k \in Nat \ {0} /\ size \in Nat \ {0}
      /\ stored' = stored + k /\ stored + k <= MaxRow /\ release[i] = Idle
      /\ release \in [Releases -> ReleaseRecord] /\ pending \in Seq(Batch)
      /\ emitted \in [Rows -> Nat]
  BY HookBarrierAssumption DEF Ingest, Rows, Inv, TypeOK, Releasable, Active
<1>0. PICK new \in SUBSET Batches(stored + 1, stored + k, size) : \E q \in Enqueue(new) :
          /\ queuedBatches' = queuedBatches \cup new
          /\ IF watermark' = stored'
             THEN Release(i, stored + 1, stored + k, q)
             ELSE pending' = q /\ UNCHANGED <<release, emitted>>
  BY DEF Ingest
<1>4. PICK q \in Enqueue(new) :
          /\ queuedBatches' = queuedBatches \cup new
          /\ IF watermark' = stored'
             THEN Release(i, stored + 1, stored + k, q)
             ELSE pending' = q /\ UNCHANGED <<release, emitted>>
  BY <1>0
<1>5. /\ queuedBatches' \in SUBSET Batch
      /\ \A b, c \in queuedBatches' : b.from = c.from => b = c
      /\ ToSet(pending) \cup new \subseteq queuedBatches'
      /\ ToSet(pending) \subseteq queuedBatches
  BY <1>4 DEF Inv, TypeOK, BatchesDiffer, HeldIsQueued
<1>6. q \in Seq(Batch) /\ ToSet(q) = ToSet(pending) \cup new /\ IsInjective(q)
  BY <1>5, EnqueueAdds
<1>7. \A b \in new : b \in queuedBatches' /\ b.from \in Rows /\ b.from > watermark
  <2>1. stored + 1 \in Nat /\ stored + k \in Nat /\ stored + 1 <= stored + k
    BY <1>3
  <2>2. \A b \in new : b \in [from : Nat, to : Nat] /\ stored + 1 <= b.from
    BY <1>3, <2>1, PagesOfARange
  <2>3. QED
    BY <1>3, <1>5, <2>2 DEF Batch, Rows
<1>8. \A b \in new : emitted[b.from] = 0
  BY <1>3, <1>7 DEF Inv, EmittedRows, Rows
<1>9. Sound(q, queuedBatches', emitted)
  <2>1. ASSUME NEW b \in queuedBatches'
        PROVE  emitted[b.from] = IF b \in ToSet(q) THEN 0 ELSE 1
    <3>1. CASE b \in new
      BY <1>6, <1>8, <3>1
    <3>2. CASE b \notin new
      BY <1>2, <1>4, <1>6, <2>1, <3>2 DEF Sound
    <3>3. QED
      BY <3>1, <3>2
  <2>2. QED
    BY <1>6, <2>1 DEF Sound
<1>10. SoundAfter(i, queuedBatches')
  <2>1. CASE watermark' = stored'
    <3>1. Release(i, stored + 1, stored + k, q)
      BY <1>4, <2>1
    <3>2. stored + 1 \in Nat /\ stored + k \in Nat \ {0} /\ ToSet(q) \subseteq queuedBatches'
      BY <1>3, <1>5, <1>6
    <3>3. QED
      BY <1>3, <1>5, <1>6, <1>9, <3>1, <3>2, ReleaseKeepsSound
  <2>2. CASE watermark' # stored'
    <3>1. release'[i] = Idle /\ ~Idle.active /\ emitted' = emitted /\ pending' = q
      BY <1>3, <1>4, <2>2 DEF Idle
    <3>2. QED
      BY <1>9, <3>1 DEF SoundAfter
  <2>3. QED
    BY <2>1, <2>2
<1>11. Effect(i, queuedBatches', watermark')
  BY InvIngest
<1>12. QED
  BY <1>1, <1>10, <1>11, AloneKeepsConserved

LEMMA ConservedProjectPage ==
    ASSUME Inv, Inv', Conserved, NEW i \in Releases, NEW size \in Sizes, ProjectPage(size, i)
    PROVE  Conserved'
<1> SUFFICES ASSUME ~contended' PROVE Conserved'
  BY DEF Conserved
<1>1. ~contended /\ Active = {}
  BY DEF ProjectPage
<1>2. Sound(pending, queuedBatches, emitted) /\ queuedBatches' = queuedBatches
  BY <1>1 DEF Conserved, ProjectPage
<1>3. /\ stored \in Nat /\ watermark \in 0..stored /\ watermark < stored /\ size \in Nat \ {0}
      /\ watermark' = IF watermark + size < stored THEN watermark + size ELSE stored
      /\ release[i] = Idle /\ release \in [Releases -> ReleaseRecord]
      /\ pending \in Seq(Batch) /\ emitted \in [Rows -> Nat]
  BY HookBarrierAssumption DEF ProjectPage, Inv, TypeOK, Releasable, Active
<1>4. /\ queuedBatches \in SUBSET Batch /\ ToSet(pending) \subseteq queuedBatches
      /\ \A b, c \in queuedBatches : b.from = c.from => b = c
  BY DEF Inv, TypeOK, BatchesDiffer, HeldIsQueued
<1>5. watermark + 1 \in Nat /\ watermark' \in Nat \ {0}
  BY <1>3
<1>6. Release(i, watermark + 1, watermark', pending)
  BY DEF ProjectPage
<1>7. SoundAfter(i, queuedBatches')
  BY <1>2, <1>3, <1>4, <1>5, <1>6, ReleaseKeepsSound
<1>8. QED
  BY <1>1, <1>7, InvProjectPage, AloneKeepsConserved

LEMMA ConservedRebuildAll ==
    ASSUME Inv, Inv', Conserved, NEW i \in Releases, RebuildAll(i)
    PROVE  Conserved'
<1> SUFFICES ASSUME ~contended' PROVE Conserved'
  BY DEF Conserved
<1>1. ~contended /\ Active = {}
  BY DEF RebuildAll
<1>2. Sound(pending, queuedBatches, emitted) /\ queuedBatches' = queuedBatches
  BY <1>1 DEF Conserved, RebuildAll
<1>3. /\ release \in [Releases -> ReleaseRecord] /\ emitted \in [Rows -> Nat]
      /\ pending \in Seq(Batch) /\ ToSet(pending) \subseteq queuedBatches
      /\ queuedBatches \in SUBSET Batch
      /\ \A b, c \in queuedBatches : b.from = c.from => b = c
  BY DEF Inv, TypeOK, BatchesDiffer, HeldIsQueued
<1>4. TurnAll(i, pending, <<>>)
  BY DEF RebuildAll, TakenOut
<1>5. SoundAfter(i, queuedBatches')
  BY <1>2, <1>3, <1>4, TurnAllKeepsSound
<1>6. QED
  BY <1>1, <1>5, InvRebuildAll, AloneKeepsConserved

LEMMA ConservedResume ==
    ASSUME Inv, Inv', Conserved, NEW i \in Releases, Resume(i)
    PROVE  Conserved'
<1> SUFFICES ASSUME ~contended' PROVE Conserved'
  BY DEF Conserved
<1> DEFINE r == release[i]
<1>1. ~contended /\ i \in Active
  BY DEF Resume, Active
<1>2. /\ Active = {i} /\ (r.to = 0 => pending = <<>>)
      /\ (r.to # 0 => r.at <= Len(pending) + 1)
      /\ Sound(Line(r, pending), queuedBatches, emitted) /\ queuedBatches' = queuedBatches
  BY <1>1 DEF Conserved, Resume
<1>3. /\ release \in [Releases -> ReleaseRecord] /\ r \in ReleaseRecord
      /\ emitted \in [Rows -> Nat]
      /\ pending \in Seq(Batch) /\ ToSet(pending) \subseteq queuedBatches
      /\ ToSet(r.rest) \subseteq queuedBatches /\ queuedBatches \in SUBSET Batch
      /\ \A b, c \in queuedBatches : b.from = c.from => b = c
  BY DEF Inv, TypeOK, BatchesDiffer, HeldIsQueued
<1>4. CASE r.to # 0
  <2>1. Turn(i, r, pending)
    BY <1>4 DEF Resume
  <2> HIDE DEF r
  <2>2. SoundAfter(i, queuedBatches')
    BY <1>2, <1>3, <1>4, <2>1, TurnKeepsSound
  <2>3. QED
    BY <1>2, <2>2, InvResume, AloneKeepsConserved
<1>5. CASE r.to = 0
  <2>1. TurnAll(i, r.rest, <<>>) /\ Line(r, pending) = r.rest
    BY <1>2, <1>5 DEF Resume, Line
  <2>2. r.rest \in Seq(Batch)
    BY <1>3 DEF ReleaseRecord
  <2> HIDE DEF r
  <2>3. SoundAfter(i, queuedBatches')
    BY <1>2, <1>3, <2>1, <2>2, TurnAllKeepsSound
  <2>4. QED
    BY <1>2, <2>3, InvResume, AloneKeepsConserved
<1>6. QED
  BY <1>4, <1>5

LEMMA ConservedStep == Inv /\ Inv' /\ Conserved /\ [Next]_vars => Conserved'
<1> SUFFICES ASSUME Inv, Inv', Conserved, [Next]_vars PROVE Conserved'
  OBVIOUS
<1>1. CASE UNCHANGED vars
  <2>1. Active' = Active
    BY <1>1 DEF vars, Active
  <2>2. QED
    BY <1>1, <2>1 DEF vars, Conserved, Sound
<1>2. CASE Next
  BY <1>2, ConservedIngest, ConservedProjectPage, ConservedRebuildAll, ConservedResume DEF Next
<1>3. QED
  BY <1>1, <1>2

LEMMA ConservedHolds == Inv /\ Conserved => ConservedWhenAlone
<1> SUFFICES ASSUME Inv, Conserved, ~contended, NEW b \in queuedBatches
             PROVE  emitted[b.from] <= 1 /\ (emitted[b.from] = 0 => Held(b))
  BY DEF ConservedWhenAlone
<1>1. CASE Active = {}
  <2>1. emitted[b.from] = IF b \in ToSet(pending) THEN 0 ELSE 1
    BY <1>1 DEF Conserved, Sound
  <2>2. QED
    BY <2>1 DEF Held
<1>2. CASE Active # {}
  <2>1. PICK i \in Releases : i \in Active
    BY <1>2 DEF Active
  <2> DEFINE r == release[i]
  <2>2. emitted[b.from] = IF b \in ToSet(Line(r, pending)) THEN 0 ELSE 1
    BY <1>2, <2>1 DEF Conserved, Sound
  <2>3. r \in ReleaseRecord /\ pending \in Seq(Batch)
    BY DEF Inv, TypeOK
  <2>4. /\ r.at \in Nat \ {0} /\ r.kept \in Seq(Batch)
    BY <2>3 DEF ReleaseRecord
  <2>5. ToSet(Line(r, pending)) \subseteq ToSet(r.kept) \cup ToSet(r.rest) \cup ToSet(pending)
    <3>1. CASE r.to = 0
      BY <3>1 DEF Line
    <3>2. CASE r.to # 0
      <4>1. Len(pending) \in Nat /\ Len(pending) <= Len(pending)
        BY <2>3, LenProperties
      <4>2. /\ SubSeq(pending, r.at, Len(pending)) \in Seq(Batch)
            /\ ToSet(SubSeq(pending, r.at, Len(pending))) \subseteq ToSet(pending)
        BY <2>3, <2>4, <4>1, PartOfASequence
      <4>3. ToSet(r.kept \o SubSeq(pending, r.at, Len(pending)))
              = ToSet(r.kept) \cup ToSet(SubSeq(pending, r.at, Len(pending)))
        BY <2>4, <4>2, ConcatOfBatches
      <4>4. Line(r, pending) = r.kept \o SubSeq(pending, r.at, Len(pending))
        BY <3>2 DEF Line
      <4>5. QED
        BY <4>2, <4>3, <4>4
    <3>3. QED
      BY <3>1, <3>2
  <2>6. b \in ToSet(Line(r, pending)) => Held(b)
    BY <2>5 DEF Held
  <2>7. QED
    BY <2>2, <2>6
<1>3. QED
  BY <1>1, <1>2

(* As long as nothing else uses the barrier while a release awaits a hook, *)
(* every hook that was queued is run exactly once or still held: the walk  *)
(* of the live array, and its replacement at the end, lose and repeat none.*)
THEOREM HooksConserved == Spec => []ConservedWhenAlone
<1>1. Init => Inv /\ Conserved
  BY InvInit, ConservedInit
<1>2. (Inv /\ Conserved) /\ [Next]_vars => (Inv /\ Conserved)'
  BY InvStep, ConservedStep
<1>3. Inv /\ Conserved => ConservedWhenAlone
  BY ConservedHolds
<1>4. QED
  BY <1>1, <1>2, <1>3, PTL DEF Spec
-----------------------------------------------------------------------------
(* Attachments. *)
(* A request that is asking was allowed to ask that host, and carries      *)
(* credentials only under the policy of a platform that has some.          *)
Allowed(r) ==
    r.pc = "asking" =>
        /\ MayAsk(Policy(r.what.attachment), r.whom.host)
        /\ r.whom.sends # "nothing" => Policy(r.what.attachment) \in Credentialed

AsksAreAllowed == \A f \in Fetches : Allowed(fetch[f])

Entries == [Attachments -> [status : EntryStatuses, object : Objects \cup {NoObject}]]

(* An entry that is ready names an object. *)
WellFormed(e) ==
    /\ e \in Entries
    /\ \A a \in Attachments : e[a].status = "ready" => e[a].object # NoObject

Rooted(e, rs) == \A a \in Attachments : e[a].status # "none" => a \in rs

-----------------------------------------------------------------------------
(* What a request at work looks like. *)
LEMMA WorkingRecord ==
  ASSUME NEW r \in FetchRecords, r.pc # "idle"
  PROVE  r.pc \in Working /\ r.what \in Wanted /\ r.whom \in Asked
  <1>1. r # NoFetch
    BY DEF NoFetch
  <1>2. r \in [pc : Working, what : Wanted, whom : Asked]
    BY <1>1 DEF FetchRecords
  <1> QED
    BY <1>2

LEMMA IdleRecord == NoFetch \in FetchRecords /\ Allowed(NoFetch)
  BY DEF NoFetch, FetchRecords, Allowed

LEMMA AtRecord ==
  ASSUME NEW pc \in Working, NEW what \in Wanted, NEW whom \in Asked
  PROVE  /\ At(pc, what, whom) \in FetchRecords
         /\ pc # "asking" => Allowed(At(pc, what, whom))
  <1>1. At(pc, what, whom) \in [pc : Working, what : Wanted, whom : Asked]
    BY DEF At
  <1>2. At(pc, what, whom).pc = pc
    BY DEF At
  <1> QED
    BY <1>1, <1>2 DEF FetchRecords, Allowed

LEMMA NotDownloadingAsked == NotDownloading \in Asked
  BY AttachmentsAssumption DEF NotDownloading, Asked

LEMMA ForWanted == ASSUME NEW a \in Attachments PROVE For(a) \in Wanted
  BY DEF For, Wanted

LEMMA FailingRecord ==
  ASSUME NEW what \in Wanted
  PROVE  Failing(what) \in FetchRecords /\ Allowed(Failing(what))
  <1>1. what.attachment \in Attachments
    BY DEF Wanted
  <1>2. "failing" \in Working
    BY DEF Working
  <1> QED
    BY <1>1, <1>2, ForWanted, NotDownloadingAsked, AtRecord DEF Failing

(* A request is made only where it may be, whatever was asked before. *)
LEMMA AskingRecord ==
  ASSUME NEW what \in Wanted, NEW host \in Hosts, NEW hops \in 0..MaxRedirects,
         NEW sends \in {"nothing", "token", "token and cookie", "cookie"},
         sends # "nothing" => Policy(what.attachment) \in Credentialed
  PROVE  /\ Asking(what, host, hops, sends) \in FetchRecords
         /\ Allowed(Asking(what, host, hops, sends))
  <1> DEFINE whom == [host |-> host, hops |-> hops, sends |-> sends]
             r == At("asking", what, whom)
  <1>1. CASE ~MayAsk(Policy(what.attachment), host)
    BY <1>1, FailingRecord DEF Asking
  <1>2. CASE MayAsk(Policy(what.attachment), host)
    <2>1. Asking(what, host, hops, sends) = r
      BY <1>2 DEF Asking
    <2>2. whom \in Asked /\ "asking" \in Working
      BY DEF Asked, Working
    <2>3. r \in FetchRecords
      BY <2>2, AtRecord
    <2>4. r.what = what /\ r.whom.host = host /\ r.whom.sends = sends
      BY DEF At
    <2> HIDE DEF r
    <2>5. Allowed(r)
      BY <1>2, <2>4 DEF Allowed
    <2> QED
      BY <2>1, <2>3, <2>5
  <1> QED
    BY <1>1, <1>2

(* Whichever way a payload is acquired, the request starts as it may. *)
LEMMA AcquiringRecord ==
  ASSUME NEW what \in Wanted, NEW r \in Acquiring(what)
  PROVE  r \in FetchRecords /\ Allowed(r)
  <1> DEFINE a == what.attachment
  <1>1. a \in Attachments
    BY DEF Wanted
  <1>2. CASE AccessKind(a) \in {"local_path", "provider_fetch"}
    <2>1. r = At("acquiring", what, NotDownloading)
      BY <1>2 DEF Acquiring
    <2>2. "acquiring" \in Working
      BY DEF Working
    <2> QED
      BY <2>1, <2>2, NotDownloadingAsked, AtRecord
  <1>3. CASE AccessKind(a) = "remote_url"
    <2>1. Described[a].url \in Hosts
      BY <1>1, <1>3, AttachmentsAssumption DEF AccessKind
    <2>2. \/ \E sends \in FirstSends(a) : r = Asking(what, Described[a].url, 0, sends)
          \/ r = Failing(what)
      BY <1>3 DEF Acquiring
    <2>3. 0 \in 0..MaxRedirects
      BY AttachmentsAssumption
    <2>4. ASSUME NEW sends \in FirstSends(a)
          PROVE  /\ sends \in {"nothing", "token", "token and cookie", "cookie"}
                 /\ sends # "nothing" => Policy(a) \in Credentialed
      BY DEF FirstSends, Credentialed
    <2> QED
      BY <2>1, <2>2, <2>3, <2>4, AskingRecord, FailingRecord
  <1>4. CASE AccessKind(a) = "none"
    <2>1. r = Failing(what)
      BY <1>4 DEF Acquiring
    <2> QED
      BY <2>1, FailingRecord
  <1> QED
    BY <1>2, <1>3, <1>4 DEF AccessKind

-----------------------------------------------------------------------------
(* Entries and files. *)

LEMMA HeldAreObjects ==
  ASSUME NEW e, WellFormed(e)
  PROVE  Named(e) \subseteq Objects
  BY DEF WellFormed, Entries, Named, Ready

Marked(e, a, status, object) == [e EXCEPT ![a] = [status |-> status, object |-> object]]

(* An entry that is made to hold no object leaves those of the others.     *)
LEMMA EntryEmptied ==
  ASSUME NEW e, WellFormed(e), NEW a \in Attachments,
         NEW status \in EntryStatuses \ {"ready"}
  PROVE  /\ WellFormed(Marked(e, a, status, NoObject))
         /\ \A b \in Attachments : Marked(e, a, status, NoObject)[b] =
                IF b = a THEN [status |-> status, object |-> NoObject] ELSE e[b]
  <1> DEFINE d == Marked(e, a, status, NoObject)
  <1>1. [status |-> status, object |-> NoObject] \in
            [status : EntryStatuses, object : Objects \cup {NoObject}]
    OBVIOUS
  <1>2. d \in Entries
    BY <1>1 DEF WellFormed, Entries, Marked
  <1>3. \A b \in Attachments : d[b] = IF b = a THEN [status |-> status, object |-> NoObject] ELSE e[b]
    BY DEF WellFormed, Entries, Marked
  <1>4. WellFormed(d)
    BY <1>2, <1>3 DEF WellFormed
  <1> QED
    BY <1>3, <1>4

LEMMA EntryReady ==
  ASSUME NEW e, WellFormed(e), NEW a \in Attachments, NEW object \in Objects
  PROVE  /\ WellFormed(Marked(e, a, "ready", object))
         /\ Named(Marked(e, a, "ready", object)) \subseteq Named(e) \cup {object}
         /\ object \in Named(Marked(e, a, "ready", object))
  <1> DEFINE d == Marked(e, a, "ready", object)
  <1>1. [status |-> "ready", object |-> object] \in
            [status : EntryStatuses, object : Objects \cup {NoObject}]
    BY DEF EntryStatuses
  <1>2. d \in Entries
    BY <1>1 DEF WellFormed, Entries, Marked
  <1>3. \A b \in Attachments : d[b] = IF b = a THEN [status |-> "ready", object |-> object] ELSE e[b]
    BY DEF WellFormed, Entries, Marked
  <1>4. WellFormed(d)
    BY <1>2, <1>3, AttachmentsAssumption DEF WellFormed
  <1> HIDE DEF d
  <1>5. Named(d) \subseteq Named(e) \cup {object} /\ object \in Named(d)
    BY <1>3 DEF Named, Ready
  <1> QED
    BY <1>4, <1>5 DEF d

-----------------------------------------------------------------------------
(* Requests. *)

RequestsOK == fetch \in [Fetches -> FetchRecords] /\ AsksAreAllowed

LEMMA RequestReplaced ==
  ASSUME RequestsOK, NEW f \in Fetches, NEW r \in FetchRecords, Allowed(r),
         fetch' = [fetch EXCEPT ![f] = r]
  PROVE  RequestsOK'
  <1>1. fetch' \in [Fetches -> FetchRecords]
    BY DEF RequestsOK
  <1>2. \A g \in Fetches : fetch'[g] = IF g = f THEN r ELSE fetch[g]
    BY DEF RequestsOK
  <1>3. \A g \in Fetches : Allowed(fetch'[g])
    BY <1>2 DEF RequestsOK, AsksAreAllowed
  <1> QED
    BY <1>1, <1>3 DEF RequestsOK, AsksAreAllowed

LEMMA RequestReturns ==
  ASSUME RequestsOK, NEW f \in Fetches, Returns(f)
  PROVE  RequestsOK'
  BY IdleRecord, RequestReplaced DEF Returns

(* No step makes a request that was not allowed: a redirect and a second   *)
(* attempt are looked at like the first request.                           *)
LEMMA RequestSteps ==
  ASSUME RequestsOK, [AttachmentsNext]_attachmentsVars
  PROVE  RequestsOK'
  <1>1. ASSUME UNCHANGED fetch PROVE RequestsOK'
    BY <1>1 DEF RequestsOK, AsksAreAllowed
  <1>2. ASSUME NEW f \in Fetches, NEW a \in Attachments, Hit(f, a) PROVE RequestsOK'
    <2>1. "rereading" \in Working
      BY DEF Working
    <2> QED
      BY <1>2, <2>1, ForWanted, NotDownloadingAsked, AtRecord, RequestReplaced DEF Hit
  <1>3. ASSUME NEW f \in Fetches, NEW a \in Attachments, Miss(f, a) PROVE RequestsOK'
    <2>1. PICK r \in Acquiring(For(a)) : fetch' = [fetch EXCEPT ![f] = r]
      BY <1>3 DEF Miss
    <2> QED
      BY <2>1, ForWanted, AcquiringRecord, RequestReplaced
  <1>4. ASSUME NEW f \in Fetches, fetch[f].pc = "asking"
        PROVE  /\ fetch[f].what \in Wanted
               /\ fetch[f].whom.hops \in 0..MaxRedirects
               /\ fetch[f].whom.sends \in {"nothing", "token", "token and cookie", "cookie"}
               /\ fetch[f].whom.sends # "nothing" =>
                      Policy(fetch[f].what.attachment) \in Credentialed
    <2>1. fetch[f] \in FetchRecords /\ Allowed(fetch[f])
      BY DEF RequestsOK, AsksAreAllowed
    <2>2. fetch[f].what \in Wanted /\ fetch[f].whom \in Asked
      BY <1>4, <2>1, WorkingRecord
    <2> QED
      BY <1>4, <2>1, <2>2 DEF Asked, Allowed
  <1>5. ASSUME NEW f \in Fetches, NEW host \in Hosts, Redirect(f, host) PROVE RequestsOK'
    <2> DEFINE r == fetch[f]
               more == Asking(r.what, host, r.whom.hops + 1, r.whom.sends)
    <2>1. r.pc = "asking"
      BY <1>5 DEF Redirect
    <2>2. CASE r.whom.hops < MaxRedirects
      <3>1. r.whom.hops + 1 \in 0..MaxRedirects
        <4>1. r.whom.hops \in 0..MaxRedirects
          BY <1>4, <2>1
        <4>2. MaxRedirects \in Nat
          BY AttachmentsAssumption
        <4> HIDE DEF r
        <4> QED
          BY <2>2, <4>1, <4>2
      <3>2. more \in FetchRecords /\ Allowed(more)
        BY <1>4, <2>1, <3>1, AskingRecord
      <3>3. fetch' = [fetch EXCEPT ![f] = more]
        BY <1>5, <2>2 DEF Redirect
      <3> QED
        BY <3>2, <3>3, RequestReplaced
    <2>3. CASE ~(r.whom.hops < MaxRedirects)
      <3>1. fetch' = [fetch EXCEPT ![f] = Failing(r.what)]
        BY <1>5, <2>3 DEF Redirect
      <3> QED
        BY <1>4, <2>1, <3>1, FailingRecord, RequestReplaced
    <2> QED
      BY <2>2, <2>3
  <1>6. ASSUME NEW f \in Fetches, Refuse(f) PROVE RequestsOK'
    <2> DEFINE r == fetch[f]
               again == Asking(r.what, Described[r.what.attachment].url, 0, "cookie")
    <2>1. r.pc = "asking"
      BY <1>6 DEF Refuse
    <2>2. CASE r.whom.sends = "token and cookie"
      <3>1. Policy(r.what.attachment) \in Credentialed
        BY <1>4, <2>1, <2>2
      <3>2. r.what.attachment \in Attachments
        BY <1>4, <2>1 DEF Wanted
      <3>3. Described[r.what.attachment].url \in Hosts
        <4>1. Described[r.what.attachment].url \in
                  PlatformHosts[Described[r.what.attachment].platform]
          BY <3>1 DEF Policy, Credentialed
        <4>2. Described[r.what.attachment].platform \in Platforms
          BY <3>2, AttachmentsAssumption
        <4> QED
          BY <4>1, <4>2, AttachmentsAssumption
      <3>4. 0 \in 0..MaxRedirects
        BY AttachmentsAssumption
      <3>5. again \in FetchRecords /\ Allowed(again)
        BY <1>4, <2>1, <3>1, <3>3, <3>4, AskingRecord
      <3>6. fetch' = [fetch EXCEPT ![f] = again]
        BY <1>6, <2>2 DEF Refuse
      <3> QED
        BY <3>5, <3>6, RequestReplaced
    <2>3. CASE r.whom.sends # "token and cookie"
      <3>1. fetch' = [fetch EXCEPT ![f] = Failing(r.what)]
        BY <1>6, <2>3 DEF Refuse
      <3> QED
        BY <1>4, <2>1, <3>1, FailingRecord, RequestReplaced
    <2> QED
      BY <2>2, <2>3
  <1>7. ASSUME NEW f \in Fetches, fetch[f].pc # "idle", NEW object \in Objects \cup {NoObject},
               NEW pc \in Working, pc # "asking",
               fetch' = [fetch EXCEPT ![f] =
                   At(pc, [attachment |-> fetch[f].what.attachment, object |-> object], NotDownloading)]
        PROVE  RequestsOK'
    <2>1. fetch[f].what.attachment \in Attachments
      BY <1>7, WorkingRecord DEF RequestsOK, Wanted
    <2>2. [attachment |-> fetch[f].what.attachment, object |-> object] \in Wanted
      BY <2>1 DEF Wanted
    <2> QED
      BY <1>7, <2>2, NotDownloadingAsked, AtRecord, RequestReplaced
  <1>8. CASE RestartFetches
    <2>1. fetch' = [f \in Fetches |-> NoFetch]
      BY <1>8 DEF RestartFetches
    <2> QED
      BY <2>1, IdleRecord DEF RequestsOK, AsksAreAllowed
  <1>9. CASE Projects
    BY <1>1, <1>9 DEF Projects, RemoveRow, AddRow, Join, Replay
  <1>10. ASSUME NEW f \in Fetches, Fetching(f) PROVE RequestsOK'
    <2>1. CASE EndHit(f) \/ Fail(f) \/ End(f)
      BY <2>1, RequestReturns DEF EndHit, Fail, End
    <2>2. ASSUME NEW object \in Objects, Place(f, object) PROVE RequestsOK'
      BY <1>7, <2>2 DEF Place, Working, Synchronous
    <2>3. ASSUME NEW text \in BOOLEAN, MarkReady(f, text) PROVE RequestsOK'
      BY <1>7, <2>3 DEF MarkReady, Working, Synchronous, For
    <2>4. CASE KeepText(f) \/ ListReady(f)
      BY <1>7, <2>4 DEF KeepText, ListReady, Working, Synchronous, For
    <2>5. ASSUME NEW a \in Attachments, Unlink(f, a) \/ MarkEvicted(f, a) PROVE RequestsOK'
      BY <1>1, <2>5 DEF Unlink, MarkEvicted
    <2> QED
      BY <1>2, <1>3, <1>5, <1>6, <1>10, <2>1, <2>2, <2>3, <2>4, <2>5 DEF Fetching
  <1>11. CASE UNCHANGED attachmentsVars
    BY <1>1, <1>11 DEF attachmentsVars
  <1> QED
    BY <1>8, <1>9, <1>10, <1>11 DEF AttachmentsNext

(* CredentialsStay: a request that carries a platform's credentials is     *)
(* made to that platform's hosts, over https, after redirects as before.   *)
THEOREM CredentialsKept == AttachmentsSpec => []CredentialsStay
<1>1. AttachmentsInit => RequestsOK
  BY IdleRecord DEF AttachmentsInit, RequestsOK, AsksAreAllowed
<1>2. RequestsOK /\ [AttachmentsNext]_attachmentsVars => RequestsOK'
  BY RequestSteps
<1>3. RequestsOK => CredentialsStay
  <2> SUFFICES ASSUME RequestsOK, NEW f \in Fetches, fetch[f].pc = "asking",
                      fetch[f].whom.sends # "nothing"
               PROVE  fetch[f].whom.host \in
                        PlatformHosts[Described[fetch[f].what.attachment].platform] \cap Encrypted
    BY DEF CredentialsStay
  <2> DEFINE a == fetch[f].what.attachment
  <2>1. MayAsk(Policy(a), fetch[f].whom.host) /\ Policy(a) \in Credentialed
    BY DEF RequestsOK, AsksAreAllowed, Allowed
  <2>2. Policy(a) = Described[a].platform /\ Policy(a) # "external"
    BY <2>1 DEF Policy, Credentialed
  <2> QED
    BY <2>1, <2>2 DEF MayAsk
<1> QED
  BY <1>1, <1>2, <1>3, PTL DEF AttachmentsSpec

-----------------------------------------------------------------------------
(* The cache.  The rest of the type invariant, then what a step does to it.*)

Shape ==
    /\ rows \subseteq Attachments
    /\ extracted \subseteq rows
    /\ searchable \subseteq Attachments
    /\ objects \subseteq Objects
    /\ changes \in 0..MaxChanges
    /\ listed \in [Attachments -> Objects \cup {NoObject}]
    /\ victim \subseteq Attachments
    /\ abandoned \subseteq Objects
    /\ owed \subseteq Attachments
    /\ cut \subseteq Objects

(* What an eviction has listed is all it must know: no file that an entry  *)
(* names is missing from the list, and no entry names a listed file but    *)
(* those it is listed with, and those that were moved since.               *)
ListIsComplete == Named(entry) \cap objects \subseteq {listed[a] : a \in Remaining}
ListIsExact == \A a \in Ready(entry) : entry[a].object \in cut \/ listed[a] = entry[a].object

Eviction ==
    /\ Evicting => ListIsComplete /\ ListIsExact
    /\ ~Evicting => listed = NoneListed /\ victim = {}
    /\ victim \subseteq Remaining
    /\ \A a, b \in victim : a = b
    /\ Gone \cap objects = {}

Files == ReadyHasFile /\ FilesAreCounted /\ Placed \subseteq objects
Stored == Shape /\ WellFormed(entry) /\ Rooted(entry, rows) /\ Eviction /\ Files
Cached == RequestsOK /\ Stored

LEMMA Counts == Shape /\ Change => changes' \in 0..MaxChanges
  <1> SUFFICES ASSUME Shape, Change PROVE changes' \in 0..MaxChanges
    OBVIOUS
  <1>1. MaxChanges \in Nat
    BY AttachmentsAssumption
  <1> QED
    BY <1>1 DEF Shape, Change

LEMMA AtWork ==
  ASSUME RequestsOK, NEW f \in Fetches, fetch[f].pc # "idle"
  PROVE  /\ fetch[f].what.attachment \in Attachments
         /\ fetch[f].what.object \in Objects \cup {NoObject}
         /\ fetch[f].pc \in Working
  <1>1. fetch[f] \in FetchRecords
    BY DEF RequestsOK
  <1> QED
    BY <1>1, WorkingRecord DEF Wanted

LEMMA LateAreAttachments == RequestsOK /\ Shape => Late \subseteq Attachments
  <1> SUFFICES ASSUME RequestsOK, Shape, NEW f \in Fetches, fetch[f].pc \in Unlimited
               PROVE  fetch[f].what.attachment \in Attachments
    BY DEF Late, Shape
  <1> QED
    BY AtWork DEF Unlimited

(* A request that may go on is the only one that stores or evicts.         *)
LEMMA Alone ==
  ASSUME RequestsOK, NEW f \in Fetches, MayRun(f), NEW r, fetch' = [fetch EXCEPT ![f] = r]
  PROVE  /\ Placed = PlacedBy(f)
         /\ r.pc = "storing" => Placed' = {r.what.object}
         /\ r.pc # "storing" => Placed' = {}
         /\ Evicting <=> fetch[f].pc = "evicting"
         /\ Evicting' <=> r.pc = "evicting"
  <1>1. \A g \in Fetches : fetch'[g] = IF g = f THEN r ELSE fetch[g]
    BY DEF RequestsOK
  <1>2. \A g \in Fetches \ {f} : fetch[g].pc # "storing" /\ fetch[g].pc # "evicting"
    BY DEF MayRun, Synchronous
  <1>3. \A g \in Fetches \ {f} : PlacedBy(g) = {} /\ PlacedBy(g)' = {}
    BY <1>1, <1>2 DEF PlacedBy
  <1>4. /\ r.pc = "storing" => PlacedBy(f)' = {r.what.object}
        /\ r.pc # "storing" => PlacedBy(f)' = {}
    BY <1>1 DEF PlacedBy
  <1>5. Placed = PlacedBy(f) /\ Placed' = PlacedBy(f)'
    BY <1>3 DEF Placed
  <1> QED
    BY <1>1, <1>2, <1>4, <1>5 DEF Evicting

(* A step of f that neither stores nor evicts, before or after.            *)
LEMMA Calm ==
  ASSUME RequestsOK, NEW f \in Fetches, MayRun(f), NEW r, fetch' = [fetch EXCEPT ![f] = r],
         fetch[f].pc \notin {"storing", "evicting"}, r.pc \notin {"storing", "evicting"}
  PROVE  Placed = {} /\ Placed' = {} /\ ~Evicting /\ ~Evicting'
  BY Alone DEF PlacedBy

(* Without an eviction the rest of its state is as it should be.           *)
LEMMA NoEviction ==
  ASSUME listed' = NoneListed, victim' = {}, ~Evicting'
  PROVE  Eviction' /\ Gone' = {}
  BY DEF Eviction, Gone

(* Steps that leave entries, files and an eviction alone. *)
LEMMA QuietKeeps ==
  ASSUME Stored, UNCHANGED <<rows, entry, objects, evictionVars, abandoned>>,
         extracted' \subseteq rows, searchable' \subseteq Attachments,
         changes' \in 0..MaxChanges, owed' \subseteq Attachments,
         Placed' = Placed, Evicting' <=> Evicting
  PROVE  Stored'
  <1>1. Named(entry)' = Named(entry) /\ Ready(entry)' = Ready(entry)
    BY DEF Named, Ready
  <1>2. Remaining' = Remaining /\ Gone' = Gone
    BY DEF evictionVars, Remaining, Gone, Unlinked, Shared
  <1>3. Eviction'
    BY <1>1, <1>2 DEF evictionVars, Stored, Eviction, ListIsComplete, ListIsExact, NoneListed
  <1>4. Files'
    BY <1>1, <1>2 DEF evictionVars, Stored, Files, ReadyHasFile, FilesAreCounted
  <1>5. Shape' /\ WellFormed(entry') /\ Rooted(entry', rows')
    BY DEF evictionVars, Stored, Shape, Rooted
  <1> QED
    BY <1>3, <1>4, <1>5 DEF Stored

(* Entries may be given up at any time, as long as what they held is named *)
(* abandoned.                                                              *)
LEMMA DropKeeps ==
  ASSUME Stored, UNCHANGED <<objects, listed, victim>>, cut \subseteq cut', cut' \subseteq Objects,
         WellFormed(entry'),
         \A a \in Ready(entry') :
            \/ a \in Ready(entry) /\ entry'[a].object = entry[a].object
            \/ /\ entry'[a].object \in Named(entry)
               /\ Evicting => entry'[a].object \in cut',
         abandoned' = Dropped(entry', Named(entry)),
         Placed' = Placed, Evicting' <=> Evicting
  PROVE  Eviction' /\ Files' /\ abandoned' \subseteq Objects
  <1>1. Named(entry) \subseteq Objects
    BY HeldAreObjects DEF Stored
  <1>2. Named(entry') \subseteq Named(entry)
    BY DEF Named
  <1>3. Remaining' = Remaining /\ Gone' = Gone
    BY DEF Remaining, Gone, Unlinked, Shared
  <1>4. Files'
    BY <1>2, <1>3 DEF Stored, Files, ReadyHasFile, FilesAreCounted, Dropped
  <1>5. ListIsComplete => ListIsComplete'
    BY <1>2, <1>3 DEF ListIsComplete
  <1>6. Evicting /\ ListIsExact => ListIsExact'
    BY DEF ListIsExact
  <1>7. Eviction'
    BY <1>3, <1>5, <1>6 DEF Stored, Eviction, NoneListed
  <1> QED
    BY <1>1, <1>4, <1>7 DEF Dropped, Stored, Shape

LEMMA StoreTextKeeps ==
  ASSUME Shape, NEW a \in Attachments, Stands(a), StoreText(a), UNCHANGED rows
  PROVE  extracted' \subseteq rows' /\ searchable' \subseteq Attachments
  BY DEF Shape, Stands, StoreText, ExtractText

-----------------------------------------------------------------------------
(* The steps of a request. *)

LEMMA MissKeeps ==
  ASSUME Cached, NEW f \in Fetches, NEW a \in Attachments, MayRun(f), Miss(f, a), NEW r,
         fetch' = [fetch EXCEPT ![f] = r], r.pc \notin {"storing", "evicting"}
  PROVE  Stored'
  <1>1. /\ a \in rows /\ entry' = [entry EXCEPT ![a].status = "fetching"]
        /\ abandoned' = Dropped(entry', Named(entry))
        /\ fetch[f].pc \notin {"storing", "evicting"}
        /\ UNCHANGED <<rows, extracted, searchable, objects, changes, listed, victim, cut, owed>>
    BY DEF Miss, Listed, evictionVars
  <1>2. entry[a] \in [status : EntryStatuses, object : Objects \cup {NoObject}]
    BY DEF Cached, Stored, WellFormed, Entries
  <1>3. \A b \in Attachments : entry'[b] =
            IF b = a THEN [status |-> "fetching", object |-> entry[a].object] ELSE entry[b]
    BY <1>1, <1>2 DEF Cached, Stored, WellFormed, Entries
  <1>4. entry' \in Entries
    <2>1. [status |-> "fetching", object |-> entry[a].object] \in
              [status : EntryStatuses, object : Objects \cup {NoObject}]
      BY <1>2 DEF EntryStatuses
    <2>2. entry' = [b \in Attachments |-> entry'[b]]
      BY <1>1 DEF Cached, Stored, WellFormed, Entries
    <2>3. \A b \in Attachments : entry'[b] \in [status : EntryStatuses, object : Objects \cup {NoObject}]
      BY <1>3, <2>1 DEF Cached, Stored, WellFormed, Entries
    <2> QED
      BY <2>2, <2>3 DEF Entries
  <1>5. WellFormed(entry')
    BY <1>3, <1>4 DEF Cached, Stored, WellFormed
  <1>6. \A b \in Ready(entry') : b \in Ready(entry) /\ entry'[b].object = entry[b].object
    BY <1>3 DEF Ready
  <1>7. Placed' = Placed /\ (Evicting' <=> Evicting)
    BY <1>1, Calm DEF Cached
  <1>8. Eviction' /\ Files' /\ abandoned' \subseteq Objects
    BY <1>1, <1>5, <1>6, <1>7, DropKeeps DEF Cached, Stored, Shape
  <1>9. Rooted(entry', rows')
    BY <1>1, <1>3 DEF Cached, Stored, Rooted
  <1> QED
    BY <1>1, <1>5, <1>8, <1>9 DEF Cached, Stored, Shape

LEMMA PlaceKeeps ==
  ASSUME Cached, NEW f \in Fetches, NEW object \in Objects, MayRun(f), Place(f, object)
  PROVE  Stored'
  <1> DEFINE r == At("storing", [attachment |-> fetch[f].what.attachment, object |-> object],
                     NotDownloading)
  <1>1. /\ objects' = objects \cup {object} /\ cut' = cut \ {object}
        /\ fetch' = [fetch EXCEPT ![f] = r]
        /\ owed' \subseteq owed \cup Ready(entry)
        /\ fetch[f].pc \notin {"storing", "evicting"}
        /\ UNCHANGED <<rows, entry, extracted, searchable, changes, listed, victim, abandoned>>
    BY DEF Place
  <1>2. r.pc = "storing" /\ r.what.object = object
    BY DEF At
  <1> HIDE DEF r
  <1>3. Placed = {} /\ Placed' = {object} /\ ~Evicting /\ ~Evicting'
    BY <1>1, <1>2, Alone DEF Cached, PlacedBy
  <1>4. listed' = NoneListed /\ victim' = {}
    BY <1>1, <1>3 DEF Cached, Stored, Eviction
  <1>5. Eviction' /\ Gone' = {}
    BY <1>3, <1>4, NoEviction
  <1>6. Gone = {}
    BY <1>3 DEF Cached, Stored, Eviction, Gone
  <1>7. Named(entry)' = Named(entry)
    BY <1>1 DEF Named, Ready
  <1>8. Files'
    BY <1>1, <1>3, <1>5, <1>6, <1>7 DEF Cached, Stored, Files, ReadyHasFile, FilesAreCounted
  <1>9. Shape' /\ WellFormed(entry') /\ Rooted(entry', rows')
    BY <1>1 DEF Cached, Stored, Shape, Rooted, Ready
  <1> QED
    BY <1>5, <1>8, <1>9 DEF Stored

LEMMA MarkReadyKeeps ==
  ASSUME Cached, NEW f \in Fetches, NEW text \in BOOLEAN, MayRun(f), MarkReady(f, text)
  PROVE  Stored'
  <1> DEFINE a == fetch[f].what.attachment
             object == fetch[f].what.object
             r == At(IF text THEN "extracting" ELSE "limiting", For(a), NotDownloading)
  <1>1. /\ a \in rows
        /\ entry' = [entry EXCEPT ![a] = [status |-> "ready", object |-> object]]
        /\ abandoned' = Dropped(entry', Named(entry))
        /\ fetch' = [fetch EXCEPT ![f] = r]
        /\ fetch[f].pc = "storing"
        /\ UNCHANGED <<rows, extracted, searchable, objects, changes, listed, victim, cut, owed>>
    BY DEF MarkReady, Stands, evictionVars
  <1>2. r.pc \in {"extracting", "limiting"}
    BY DEF At
  <1>3. a \in Attachments
    BY <1>1, AtWork DEF Cached
  <1> HIDE DEF r
  <1>4. Placed = {object} /\ Placed' = {} /\ ~Evicting /\ ~Evicting'
    BY <1>1, <1>2, Alone DEF Cached, PlacedBy
  <1>5. object \in objects /\ object \in Objects
    BY <1>4 DEF Cached, Stored, Files, Shape
  <1> HIDE DEF a, object
  <1>6. WellFormed(entry') /\ Named(entry') \subseteq Named(entry) \cup {object} /\ object \in Named(entry')
    <2>1. WellFormed(entry) /\ entry' = Marked(entry, a, "ready", object)
      BY <1>1 DEF Cached, Stored, Marked
    <2> QED
      BY <1>3, <1>5, <2>1, EntryReady
  <1>7. Eviction' /\ Gone' = {} /\ Gone = {}
    BY <1>1, <1>4, NoEviction DEF Cached, Stored, Eviction, Gone
  <1>8. Files'
    BY <1>1, <1>4, <1>5, <1>6, <1>7
       DEF Cached, Stored, Files, ReadyHasFile, FilesAreCounted, Dropped
  <1>9. Rooted(entry', rows')
    BY <1>1, <1>3 DEF Cached, Stored, Rooted, WellFormed, Entries
  <1>10. abandoned' \subseteq Objects
    BY <1>1, HeldAreObjects DEF Cached, Stored, Dropped, Shape
  <1> QED
    BY <1>1, <1>6, <1>7, <1>8, <1>9, <1>10 DEF Cached, Stored, Shape

(* ensureWithinLimit starts from what the entries say. *)
LEMMA ListReadyKeeps ==
  ASSUME Cached, NEW f \in Fetches, MayRun(f), ListReady(f)
  PROVE  Stored'
  <1> DEFINE r == At("evicting", For(fetch[f].what.attachment), NotDownloading)
  <1>1. /\ fetch' = [fetch EXCEPT ![f] = r]
        /\ fetch[f].pc = "limiting"
        /\ UNCHANGED <<rows, entry, extracted, searchable, objects, changes, victim, cut, abandoned, owed>>
    BY DEF ListReady, cacheVars
  <1>2. r.pc = "evicting"
    BY DEF At
  <1> HIDE DEF r
  <1>3. Placed = {} /\ Placed' = {} /\ ~Evicting /\ Evicting'
    BY <1>1, <1>2, Alone DEF Cached, PlacedBy
  <1>4. \A a \in Attachments :
            listed'[a] = IF entry[a].status = "ready" THEN entry[a].object ELSE NoObject
    BY DEF ListReady
  <1>5. Ready(entry)' = Ready(entry) /\ Named(entry)' = Named(entry)
    BY <1>1 DEF Ready, Named
  <1>6. Remaining' = Ready(entry)
    BY <1>4 DEF Remaining, Ready, Cached, Stored, WellFormed
  <1>7. ListIsComplete' /\ ListIsExact'
    BY <1>1, <1>4, <1>5, <1>6 DEF ListIsComplete, ListIsExact, Ready, Named
  <1>8. victim' = {} /\ Gone' = {} /\ Gone = {}
    BY <1>1, <1>3 DEF Cached, Stored, Eviction, Gone
  <1>9. Eviction'
    BY <1>3, <1>7, <1>8 DEF Eviction
  <1>10. Files'
    BY <1>1, <1>3, <1>5, <1>8 DEF Cached, Stored, Files, ReadyHasFile, FilesAreCounted
  <1>11. listed' \in [Attachments -> Objects \cup {NoObject}]
    BY DEF ListReady, Cached, Stored, WellFormed, Entries
  <1> QED
    BY <1>1, <1>9, <1>10, <1>11 DEF Cached, Stored, Shape, Rooted

(* A file is removed; its entry is the next to be marked. *)
LEMMA UnlinkKeeps ==
  ASSUME Cached, NEW f \in Fetches, NEW a \in Attachments, MayRun(f), Unlink(f, a)
  PROVE  Stored'
  <1>1. /\ victim = {} /\ victim' = {a} /\ a \in Remaining
        /\ objects' = objects \ Unlinked(a)
        /\ UNCHANGED <<rows, entry, extracted, searchable, fetch, changes, listed, cut, abandoned, owed>>
    BY DEF Unlink
  <1>2. Evicting /\ Evicting' /\ Placed = {} /\ Placed' = {}
    <2>1. \A g \in Fetches : PlacedBy(g) = {}
      BY DEF Unlink, MayRun, Synchronous, PlacedBy
    <2>2. Placed = {} /\ Evicting
      BY <2>1 DEF Placed, Unlink, Evicting
    <2> QED
      BY <1>1, <2>2 DEF Placed, PlacedBy, Evicting
  <1>3. Remaining' = Remaining /\ Gone = {} /\ Gone' = Unlinked(a)
    BY <1>1 DEF Remaining, Gone, Unlinked, Shared
  <1>4. Ready(entry)' = Ready(entry) /\ Named(entry)' = Named(entry)
    BY <1>1 DEF Ready, Named
  <1>5. ListIsComplete' /\ ListIsExact'
    BY <1>1, <1>2, <1>3, <1>4 DEF Cached, Stored, Eviction, ListIsComplete, ListIsExact
  <1>6. Eviction'
    BY <1>1, <1>2, <1>3, <1>5 DEF Eviction
  <1>7. Files'
    BY <1>1, <1>2, <1>3, <1>4 DEF Cached, Stored, Files, ReadyHasFile, FilesAreCounted
  <1> QED
    BY <1>1, <1>6, <1>7 DEF Cached, Stored, Shape, Rooted

(* No entry loses its file without being marked: those that were listed    *)
(* with it had been marked before, and others were known to be cut off.    *)
LEMMA MarkEvictedKeeps ==
  ASSUME Cached, NEW f \in Fetches, NEW a \in Attachments, MayRun(f), MarkEvicted(f, a)
  PROVE  Stored'
  <1>1. /\ a \in victim /\ a \in rows /\ victim' = {}
        /\ entry' = Marked(entry, a, "evicted", NoObject)
        /\ listed' = [listed EXCEPT ![a] = NoObject]
        /\ UNCHANGED <<rows, extracted, searchable, objects, fetch, changes, owed, cut>>
    BY DEF MarkEvicted, Stands, Marked
  <1> DEFINE spared == IF Shared(a) THEN {listed[a]} ELSE {}
  <1>2. abandoned' = Dropped(entry', (Named(entry) \ {listed[a]}) \cup spared)
    BY DEF MarkEvicted
  <1>3. Evicting /\ Evicting' /\ Placed = {} /\ Placed' = {}
    <2>1. \A g \in Fetches : PlacedBy(g) = {}
      BY DEF MarkEvicted, MayRun, Synchronous, PlacedBy
    <2>2. Placed = {} /\ Evicting
      BY <2>1 DEF Placed, MarkEvicted, Evicting
    <2> QED
      BY <1>1, <2>2 DEF Placed, PlacedBy, Evicting
  <1>4. /\ WellFormed(entry')
        /\ \A b \in Attachments : entry'[b] =
              IF b = a THEN [status |-> "evicted", object |-> NoObject] ELSE entry[b]
    <2>1. "evicted" \in EntryStatuses \ {"ready"} /\ WellFormed(entry)
      BY DEF EntryStatuses, Cached, Stored
    <2> QED
      BY <1>1, <2>1, EntryEmptied
  <1>5. /\ Ready(entry') = Ready(entry) \ {a}
        /\ \A b \in Ready(entry') : entry'[b] = entry[b]
    BY <1>4 DEF Ready
  <1>6. /\ listed' \in [Attachments -> Objects \cup {NoObject}]
        /\ \A b \in Attachments : listed'[b] = IF b = a THEN NoObject ELSE listed[b]
    BY <1>1 DEF Cached, Stored, Shape
  <1>7. Remaining' = Remaining \ {a} /\ a \in Remaining
    BY <1>1, <1>6 DEF Remaining, Cached, Stored, Eviction
  <1>8. Gone = Unlinked(a) /\ Gone' = {} /\ listed[a] \in Objects
    BY <1>1, <1>7 DEF Cached, Stored, Shape, Eviction, Gone, Remaining
  <1>9. ListIsExact /\ ListIsComplete /\ Gone \cap objects = {}
    BY <1>3 DEF Cached, Stored, Eviction
  <1>10. ListIsExact'
    BY <1>1, <1>5, <1>6, <1>9 DEF ListIsExact, Ready
  <1>11. ListIsComplete'
    <2> SUFFICES ASSUME NEW b \in Ready(entry'), entry'[b].object \in objects
                 PROVE  \E c \in Remaining' : listed'[c] = entry'[b].object
      BY <1>1 DEF ListIsComplete, Named
    <2>1. b \in Ready(entry) /\ b # a /\ entry'[b].object = entry[b].object
      BY <1>5
    <2>2. PICK c \in Remaining : listed[c] = entry[b].object
      BY <1>9, <2>1 DEF ListIsComplete, Named
    <2>3. CASE c # a
      BY <1>6, <1>7, <2>1, <2>2, <2>3 DEF Remaining
    <2>4. CASE c = a
      <3>1. Shared(a)
        BY <1>8, <1>9, <2>1, <2>2, <2>4 DEF Unlinked
      <3>2. PICK d \in Remaining \ {a} : listed[d] = listed[a]
        BY <3>1 DEF Shared
      <3> QED
        BY <1>6, <1>7, <2>1, <2>2, <2>4, <3>2 DEF Remaining
    <2> QED
      BY <2>3, <2>4
  <1>12. Eviction'
    BY <1>1, <1>3, <1>8, <1>10, <1>11 DEF Eviction
  <1>13. ReadyHasFile'
    <2> SUFFICES ASSUME NEW b \in Ready(entry'), entry'[b].object \notin objects
                 PROVE  entry'[b].object \in cut
      BY <1>1 DEF ReadyHasFile, Named
    <2>1. b \in Ready(entry) /\ b # a /\ entry'[b].object = entry[b].object
      BY <1>5
    <2>2. entry[b].object \in cut \cup Gone
      BY <2>1 DEF Cached, Stored, Files, ReadyHasFile, Named
    <2>3. CASE entry[b].object \in Gone
      <3>1. ~Shared(a) /\ entry[b].object = listed[a]
        BY <1>8, <2>3 DEF Unlinked
      <3>2. b \in Attachments /\ listed[b] # entry[b].object
        BY <1>8, <2>1, <3>1 DEF Shared, Remaining, Ready, Cached, Stored, WellFormed
      <3> QED
        BY <1>9, <2>1, <3>2 DEF ListIsExact
    <2> QED
      BY <2>1, <2>2, <2>3
  <1>14. FilesAreCounted'
    <2> SUFFICES ASSUME NEW o \in objects, o \notin Named(entry') PROVE o \in abandoned'
      BY <1>1, <1>3 DEF FilesAreCounted
    <2>1. o \in Named(entry) \cup abandoned
      BY <1>3 DEF Cached, Stored, Files, FilesAreCounted
    <2>2. o = listed[a] => Shared(a)
      BY <1>8, <1>9 DEF Unlinked
    <2> QED
      BY <1>2, <2>1, <2>2 DEF Dropped
  <1>15. abandoned' \subseteq Objects
    BY <1>2, <1>8, HeldAreObjects DEF Dropped, Cached, Stored, Shape
  <1>16. Rooted(entry', rows')
    BY <1>1, <1>4 DEF Cached, Stored, Rooted
  <1>17. Files'
    BY <1>1, <1>3, <1>13, <1>14 DEF Files
  <1> QED
    BY <1>1, <1>4, <1>6, <1>12, <1>15, <1>16, <1>17 DEF Cached, Stored, Shape

(* However an eviction ends, what it removed without marking it is known.  *)
LEMMA OverKeeps ==
  ASSUME Stored, listed' = NoneListed, victim' = {}, UNCHANGED objects,
         ~Evicting', Placed' = {},
         (cut \cup Gone) \ objects \subseteq cut', cut' \subseteq Objects,
         WellFormed(entry'), Named(entry') \subseteq Named(entry),
         Named(entry) \cup abandoned \cup Placed \subseteq Named(entry') \cup abandoned',
         abandoned' \subseteq Objects
  PROVE  Eviction' /\ Files'
  <1>1. Eviction' /\ Gone' = {}
    BY NoEviction
  <1>2. ReadyHasFile'
    BY <1>1 DEF Stored, Files, ReadyHasFile
  <1>3. FilesAreCounted'
    BY DEF Stored, Files, FilesAreCounted
  <1> QED
    BY <1>1, <1>2, <1>3 DEF Files

LEMMA GoneAreObjects == Stored => Gone \subseteq Objects
  <1> SUFFICES ASSUME Stored PROVE Gone \subseteq Objects
    OBVIOUS
  <1>1. \A a \in victim : listed[a] \in Objects
    BY DEF Stored, Shape, Eviction, Remaining
  <1> QED
    BY <1>1 DEF Gone, Unlinked

LEMMA EndKeeps ==
  ASSUME Cached, NEW f \in Fetches, MayRun(f), End(f)
  PROVE  Stored'
  <1>1. /\ listed' = NoneListed /\ victim' = {} /\ cut' = (cut \cup Gone) \ objects
        /\ fetch' = [fetch EXCEPT ![f] = NoFetch]
        /\ fetch[f].pc = "evicting"
        /\ owed' = {}
        /\ UNCHANGED <<rows, entry, extracted, searchable, objects, changes, abandoned>>
    BY DEF End, EvictionOver, Returns, cacheVars
  <1>2. NoFetch.pc = "idle"
    BY DEF NoFetch
  <1>3. Placed = {} /\ Placed' = {} /\ ~Evicting'
    BY <1>1, <1>2, Alone DEF Cached, PlacedBy
  <1>4. Named(entry)' = Named(entry) /\ cut' \subseteq Objects
    BY <1>1, GoneAreObjects DEF Named, Ready, Cached, Stored, Shape
  <1>5. WellFormed(entry') /\ abandoned' \subseteq Objects
    BY <1>1 DEF Cached, Stored, Shape
  <1>6. Eviction' /\ Files'
    BY <1>1, <1>3, <1>4, <1>5, OverKeeps DEF Cached
  <1>7. listed' \in [Attachments -> Objects \cup {NoObject}]
    BY <1>1 DEF NoneListed
  <1> QED
    BY <1>1, <1>4, <1>5, <1>6, <1>7 DEF Cached, Stored, Shape, Rooted

(* The catch leaves a file without an entry when there was one in its      *)
(* place, and it may leave a ready entry without its file.                 *)
LEMMA FailKeeps ==
  ASSUME Cached, NEW f \in Fetches, MayRun(f), Fail(f)
  PROVE  Stored'
  <1> DEFINE a == fetch[f].what.attachment
  <1>1. /\ fetch' = [fetch EXCEPT ![f] = NoFetch]
        /\ fetch[f].pc # "idle"
        /\ abandoned' = Dropped(entry', Named(entry) \cup PlacedBy(f))
        /\ UNCHANGED <<rows, extracted, searchable, objects>>
    BY DEF Fail, Returns, Working, Synchronous
  <1>2. a \in Attachments
    BY <1>1, AtWork DEF Cached
  <1> HIDE DEF a
  <1>3. \/ Stands(a) /\ entry' = Marked(entry, a, "failed", NoObject) /\ UNCHANGED <<owed, changes>>
        \/ Change /\ owed' \subseteq owed \cup {a} /\ UNCHANGED entry
        \/ UNCHANGED <<entry, owed, changes>>
    BY DEF Fail, Marked, a
  <1>4. NoFetch.pc = "idle"
    BY DEF NoFetch
  <1>5. Placed = PlacedBy(f) /\ Placed' = {} /\ ~Evicting' /\ (Evicting <=> fetch[f].pc = "evicting")
    BY <1>1, <1>4, Alone DEF Cached
  <1>6. listed' = NoneListed /\ victim' = {} /\ (cut \cup Gone) \ objects \subseteq cut' /\ cut' \subseteq Objects
    <2>1. CASE fetch[f].pc = "evicting"
      BY <2>1, GoneAreObjects DEF Fail, EvictionOver, Cached, Stored, Shape
    <2>2. CASE fetch[f].pc # "evicting"
      <3>1. listed = NoneListed /\ victim = {} /\ Gone = {}
        BY <1>5, <2>2 DEF Cached, Stored, Eviction, Gone
      <3> QED
        BY <2>2, <3>1 DEF Fail, evictionVars, Cached, Stored, Shape
    <2> QED
      BY <2>1, <2>2
  <1>7. /\ WellFormed(entry') /\ Named(entry') \subseteq Named(entry)
        /\ Rooted(entry', rows')
    <2>1. WellFormed(entry) /\ Rooted(entry, rows)
      BY DEF Cached, Stored
    <2>2. CASE Stands(a) /\ entry' = Marked(entry, a, "failed", NoObject)
      <3>1. "failed" \in EntryStatuses \ {"ready"}
        BY DEF EntryStatuses
      <3>2. /\ WellFormed(entry')
            /\ \A b \in Attachments : entry'[b] =
                  IF b = a THEN [status |-> "failed", object |-> NoObject] ELSE entry[b]
        BY <1>2, <2>1, <2>2, <3>1, EntryEmptied
      <3> QED
        BY <1>1, <2>1, <2>2, <3>2 DEF Named, Ready, Rooted, Stands
    <2>3. CASE UNCHANGED entry
      BY <1>1, <2>1, <2>3 DEF Named, Ready, Rooted
    <2> QED
      BY <1>3, <2>2, <2>3
  <1>8. /\ abandoned' \subseteq Objects
        /\ Named(entry) \cup abandoned \cup Placed \subseteq Named(entry') \cup abandoned'
    BY <1>1, <1>5, HeldAreObjects DEF Dropped, Cached, Stored, Files, Shape
  <1>9. Eviction' /\ Files'
    BY <1>1, <1>5, <1>6, <1>7, <1>8, OverKeeps DEF Cached
  <1>10. changes' \in 0..MaxChanges /\ owed' \subseteq Attachments
    BY <1>2, <1>3, Counts DEF Cached, Stored, Shape
  <1>11. listed' \in [Attachments -> Objects \cup {NoObject}]
    BY <1>6 DEF NoneListed
  <1> QED
    BY <1>1, <1>6, <1>7, <1>8, <1>9, <1>10, <1>11 DEF Cached, Stored, Shape

(* A death between two writes does what a failure between them does. *)
LEMMA RestartKeeps ==
  ASSUME Cached, RestartFetches
  PROVE  Stored'
  <1>1. /\ listed' = NoneListed /\ victim' = {} /\ cut' = (cut \cup Gone) \ objects
        /\ fetch' = [f \in Fetches |-> NoFetch]
        /\ abandoned' = Dropped(entry, Placed)
        /\ owed' = Late
        /\ Change
        /\ UNCHANGED <<rows, entry, extracted, searchable, objects>>
    BY DEF RestartFetches, EvictionOver, cacheVars
  <1>2. Placed' = {} /\ ~Evicting'
    <2>1. \A f \in Fetches : fetch'[f].pc = "idle"
      BY <1>1 DEF NoFetch
    <2> QED
      BY <2>1 DEF Placed, PlacedBy, Evicting
  <1>3. Named(entry)' = Named(entry) /\ cut' \subseteq Objects
    BY <1>1, GoneAreObjects DEF Named, Ready, Cached, Stored, Shape
  <1>4. /\ WellFormed(entry')
        /\ abandoned' \subseteq Objects
        /\ Named(entry) \cup abandoned \cup Placed \subseteq Named(entry') \cup abandoned'
    BY <1>1 DEF Dropped, Cached, Stored, Files, Shape
  <1>5. Eviction' /\ Files'
    BY <1>1, <1>2, <1>3, <1>4, OverKeeps DEF Cached
  <1>6. listed' \in [Attachments -> Objects \cup {NoObject}]
    BY <1>1 DEF NoneListed
  <1>7. changes' \in 0..MaxChanges /\ owed' \subseteq Attachments
    BY <1>1, Counts, LateAreAttachments DEF Cached, Stored
  <1> QED
    BY <1>1, <1>3, <1>4, <1>5, <1>6, <1>7 DEF Cached, Stored, Shape, Rooted

-----------------------------------------------------------------------------
(* The steps of the projector. *)

LEMMA SameRequests ==
  ASSUME UNCHANGED fetch PROVE Placed' = Placed /\ (Evicting' <=> Evicting)
  BY DEF Placed, PlacedBy, Evicting

LEMMA RemoveKeeps ==
  ASSUME Cached, NEW a \in Attachments, RemoveRow(a)
  PROVE  Stored'
  <1>1. /\ rows' = rows \ {a}
        /\ entry' = Marked(entry, a, "none", NoObject)
        /\ extracted' = extracted \ {a} /\ searchable' = searchable \ {a}
        /\ abandoned' = Dropped(entry', Named(entry))
        /\ UNCHANGED <<objects, fetch, listed, victim, cut, owed>>
    BY DEF RemoveRow, NoEntry, Marked, evictionVars
  <1>2. "none" \in EntryStatuses \ {"ready"} /\ WellFormed(entry)
    BY DEF EntryStatuses, Cached, Stored
  <1>3. /\ WellFormed(entry')
        /\ \A b \in Attachments : entry'[b] =
              IF b = a THEN [status |-> "none", object |-> NoObject] ELSE entry[b]
    BY <1>1, <1>2, EntryEmptied
  <1>4. \A b \in Ready(entry') : b \in Ready(entry) /\ entry'[b].object = entry[b].object
    BY <1>3 DEF Ready
  <1>5. Eviction' /\ Files' /\ abandoned' \subseteq Objects
    BY <1>1, <1>3, <1>4, SameRequests, DropKeeps DEF Cached, Stored, Shape
  <1>6. Rooted(entry', rows')
    BY <1>1, <1>3 DEF Cached, Stored, Rooted
  <1>7. changes' \in 0..MaxChanges
    BY Counts DEF RemoveRow, Cached, Stored
  <1> QED
    BY <1>1, <1>3, <1>5, <1>6, <1>7 DEF Cached, Stored, Shape

LEMMA ReplayKeeps ==
  ASSUME Cached, Replay
  PROVE  Stored'
  <1>1. /\ rows' \subseteq Attachments
        /\ entry' = [a \in Attachments |-> NoEntry]
        /\ extracted' = {}
        /\ abandoned' = Dropped(entry', Named(entry))
        /\ UNCHANGED <<searchable, objects, fetch, listed, victim, cut, owed>>
    BY DEF Replay, evictionVars
  <1>2. NoEntry \in [status : EntryStatuses, object : Objects \cup {NoObject}]
    BY DEF NoEntry, EntryStatuses
  <1>3. \A a \in Attachments : entry'[a].status = "none"
    BY <1>1 DEF NoEntry
  <1>4. WellFormed(entry') /\ Ready(entry') = {} /\ Rooted(entry', rows')
    BY <1>1, <1>2, <1>3 DEF WellFormed, Entries, Ready, Rooted
  <1>5. Eviction' /\ Files' /\ abandoned' \subseteq Objects
    BY <1>1, <1>4, SameRequests, DropKeeps DEF Cached, Stored, Shape
  <1>6. changes' \in 0..MaxChanges
    BY Counts DEF Replay, Cached, Stored
  <1> QED
    BY <1>1, <1>4, <1>5, <1>6 DEF Cached, Stored, Shape

(* A moved entry's object may be evicted by who does not know that it has. *)
LEMMA JoinKeeps ==
  ASSUME Cached, NEW a \in Attachments, NEW b \in Attachments, Join(a, b)
  PROVE  Stored'
  <1>1. /\ {a, b} \subseteq rows /\ a # b /\ rows' = rows \ {a}
        /\ extracted' \subseteq (extracted \cup {b}) \ {a}
        /\ searchable' \subseteq searchable \cup {b}
        /\ abandoned' = Dropped(entry', Named(entry))
        /\ owed' \subseteq owed \cup {b}
        /\ UNCHANGED <<objects, fetch, listed, victim>>
    BY DEF Join
  <1>2. entry' = [entry EXCEPT ![a] = NoEntry,
                               ![b] = IF entry[b].status = "none" THEN entry[a] ELSE entry[b]]
    <2>1. entry' = [entry EXCEPT ![a] = NoEntry, ![b] = IF entry[b].status = "none" THEN entry[a] ELSE @]
      BY DEF Join
    <2> QED
      BY <1>1, <2>1 DEF Cached, Stored, WellFormed, Entries
  <1>3. NoEntry \in [status : EntryStatuses, object : Objects \cup {NoObject}]
    BY DEF NoEntry, EntryStatuses
  <1>4. entry' \in Entries
    BY <1>2, <1>3 DEF Cached, Stored, WellFormed, Entries
  <1>5. \A x \in Attachments : entry'[x] =
            IF x = b THEN (IF entry[b].status = "none" THEN entry[a] ELSE entry[b])
            ELSE IF x = a THEN NoEntry ELSE entry[x]
    BY <1>2 DEF Cached, Stored, WellFormed, Entries
  <1>6. WellFormed(entry')
    BY <1>4, <1>5 DEF Cached, Stored, WellFormed, NoEntry
  <1>7. /\ cut \subseteq cut' /\ cut' \subseteq cut \cup Named(entry)
        /\ entry[b].status = "none" /\ Evicting /\ a \in Ready(entry) => entry[a].object \in cut'
    BY DEF Join, Named
  <1>8. cut' \subseteq Objects
    BY <1>7, HeldAreObjects DEF Cached, Stored, Shape
  <1>9. \A x \in Ready(entry') :
            \/ x \in Ready(entry) /\ entry'[x].object = entry[x].object
            \/ /\ entry'[x].object \in Named(entry)
               /\ Evicting => entry'[x].object \in cut'
    BY <1>5, <1>7 DEF Ready, Named, NoEntry
  <1>10. Eviction' /\ Files' /\ abandoned' \subseteq Objects
    BY <1>1, <1>6, <1>7, <1>8, <1>9, SameRequests, DropKeeps DEF Cached
  <1>11. Rooted(entry', rows')
    BY <1>1, <1>5 DEF Cached, Stored, Rooted, NoEntry
  <1>12. changes' \in 0..MaxChanges
    BY Counts DEF Join, Cached, Stored
  <1> QED
    BY <1>1, <1>6, <1>8, <1>10, <1>11, <1>12 DEF Cached, Stored, Shape

LEMMA AddKeeps ==
  ASSUME Cached, NEW a \in Attachments, AddRow(a)
  PROVE  Stored'
  <1>1. /\ rows' = rows \cup {a}
        /\ UNCHANGED <<entry, extracted, searchable, objects, fetch, listed, victim, cut, abandoned, owed>>
    BY DEF AddRow, evictionVars
  <1>2. changes' \in 0..MaxChanges
    BY Counts DEF AddRow, Cached, Stored
  <1>3. Placed' = Placed /\ (Evicting' <=> Evicting)
    BY <1>1, SameRequests
  <1>4. Named(entry)' = Named(entry) /\ Ready(entry)' = Ready(entry) /\ Remaining' = Remaining /\ Gone' = Gone
    BY <1>1 DEF Named, Ready, Remaining, Gone, Unlinked, Shared
  <1>5. Eviction'
    BY <1>1, <1>3, <1>4 DEF Cached, Stored, Eviction, ListIsComplete, ListIsExact, NoneListed
  <1>6. Files'
    BY <1>1, <1>3, <1>4 DEF Cached, Stored, Files, ReadyHasFile, FilesAreCounted
  <1> QED
    BY <1>1, <1>2, <1>5, <1>6 DEF Cached, Stored, Shape, Rooted

-----------------------------------------------------------------------------
LEMMA FetchingKeeps ==
  ASSUME Cached, NEW f \in Fetches, Fetching(f)
  PROVE  Stored'
  <1>0. MayRun(f)
    BY DEF Fetching
  <1>1. ASSUME NEW r, fetch' = [fetch EXCEPT ![f] = r],
               fetch[f].pc \notin {"storing", "evicting"}, r.pc \notin {"storing", "evicting"},
               UNCHANGED <<rows, entry, objects, evictionVars, changes, abandoned, owed>>,
               extracted' \subseteq rows, searchable' \subseteq Attachments
        PROVE  Stored'
    <2>1. Placed' = Placed /\ (Evicting' <=> Evicting)
      BY <1>0, <1>1, Calm DEF Cached
    <2> QED
      BY <1>1, <2>1, QuietKeeps DEF Cached, Stored, Shape
  <1>2. \A what, whom : At("failing", what, whom).pc = "failing" /\ At("asking", what, whom).pc = "asking"
    BY DEF At
  <1>3. \A what, host, hops, sends : Asking(what, host, hops, sends).pc \in {"asking", "failing"}
    BY <1>2 DEF Asking, Failing
  <1>4. ASSUME NEW a \in Attachments, Hit(f, a) PROVE Stored'
    <2> DEFINE r == At("rereading", For(a), NotDownloading)
    <2>1. /\ fetch' = [fetch EXCEPT ![f] = r] /\ fetch[f].pc = "idle"
          /\ UNCHANGED <<rows, entry, objects, evictionVars, changes, abandoned, owed>>
          /\ UNCHANGED <<extracted, searchable>>
      BY <1>4 DEF Hit, cacheVars
    <2>2. r.pc = "rereading"
      BY DEF At
    <2> HIDE DEF r
    <2> QED
      BY <1>1, <2>1, <2>2 DEF Cached, Stored, Shape
  <1>5. ASSUME NEW host \in Hosts, Redirect(f, host) PROVE Stored'
    <2> DEFINE r == IF fetch[f].whom.hops < MaxRedirects
                      THEN Asking(fetch[f].what, host, fetch[f].whom.hops + 1, fetch[f].whom.sends)
                      ELSE Failing(fetch[f].what)
    <2>1. /\ fetch' = [fetch EXCEPT ![f] = r] /\ fetch[f].pc = "asking"
          /\ UNCHANGED <<rows, entry, objects, evictionVars, changes, abandoned, owed>>
          /\ UNCHANGED <<extracted, searchable>>
      BY <1>5 DEF Redirect, cacheVars
    <2>2. r.pc \in {"asking", "failing"}
      BY <1>2, <1>3 DEF Failing
    <2> HIDE DEF r
    <2> QED
      BY <1>1, <2>1, <2>2 DEF Cached, Stored, Shape
  <1>6. CASE Refuse(f)
    <2> DEFINE r == IF fetch[f].whom.sends = "token and cookie"
                      THEN Asking(fetch[f].what, Described[fetch[f].what.attachment].url, 0, "cookie")
                      ELSE Failing(fetch[f].what)
    <2>1. /\ fetch' = [fetch EXCEPT ![f] = r] /\ fetch[f].pc = "asking"
          /\ UNCHANGED <<rows, entry, objects, evictionVars, changes, abandoned, owed>>
          /\ UNCHANGED <<extracted, searchable>>
      BY <1>6 DEF Refuse, cacheVars
    <2>2. r.pc \in {"asking", "failing"}
      BY <1>2, <1>3 DEF Failing
    <2> HIDE DEF r
    <2> QED
      BY <1>1, <2>1, <2>2 DEF Cached, Stored, Shape
  <1>7. CASE EndHit(f)
    <2>1. /\ fetch' = [fetch EXCEPT ![f] = NoFetch] /\ fetch[f].pc = "rereading"
          /\ UNCHANGED <<rows, entry, objects, evictionVars, changes, abandoned, owed>>
      BY <1>7 DEF EndHit, Returns
    <2>2. NoFetch.pc = "idle" /\ fetch[f].what.attachment \in Attachments
      BY <2>1, AtWork DEF NoFetch, Cached
    <2>3. extracted' \subseteq rows /\ searchable' \subseteq Attachments
      BY <1>7, <2>1, <2>2, StoreTextKeeps DEF EndHit, Cached, Stored, Shape
    <2> QED
      BY <1>1, <2>1, <2>2, <2>3
  <1>8. ASSUME NEW a \in Attachments, Miss(f, a) PROVE Stored'
    <2>1. PICK r \in Acquiring(For(a)) : fetch' = [fetch EXCEPT ![f] = r]
      BY <1>8 DEF Miss
    <2>2. \A what : At("acquiring", what, NotDownloading).pc = "acquiring"
      BY DEF At
    <2>3. r.pc \in {"asking", "failing", "acquiring"}
      BY <1>2, <1>3, <2>1, <2>2 DEF Acquiring, Failing
    <2> QED
      BY <1>0, <1>8, <2>1, <2>3, MissKeeps
  <1>9. CASE KeepText(f)
    <2> DEFINE r == At("limiting", For(fetch[f].what.attachment), NotDownloading)
    <2>1. /\ fetch' = [fetch EXCEPT ![f] = r] /\ fetch[f].pc = "extracting"
          /\ UNCHANGED <<rows, entry, objects, evictionVars, changes, abandoned, owed>>
      BY <1>9 DEF KeepText
    <2>2. r.pc = "limiting" /\ fetch[f].what.attachment \in Attachments
      BY <2>1, AtWork DEF At, Cached
    <2>3. extracted' \subseteq rows /\ searchable' \subseteq Attachments
      BY <1>9, <2>1, <2>2, StoreTextKeeps DEF KeepText, Cached, Stored, Shape
    <2> HIDE DEF r
    <2> QED
      BY <1>1, <2>1, <2>2, <2>3
  <1>10. ASSUME NEW object \in Objects, Place(f, object) PROVE Stored'
    BY <1>0, <1>10, PlaceKeeps
  <1>11. ASSUME NEW text \in BOOLEAN, MarkReady(f, text) PROVE Stored'
    BY <1>0, <1>11, MarkReadyKeeps
  <1>12. CASE ListReady(f)
    BY <1>0, <1>12, ListReadyKeeps
  <1>13. ASSUME NEW a \in Attachments, Unlink(f, a) \/ MarkEvicted(f, a) PROVE Stored'
    BY <1>0, <1>13, UnlinkKeeps, MarkEvictedKeeps
  <1>14. CASE End(f)
    BY <1>0, <1>14, EndKeeps
  <1>15. CASE Fail(f)
    BY <1>0, <1>15, FailKeeps
  <1> QED
    BY <1>4, <1>5, <1>6, <1>7, <1>8, <1>9, <1>10, <1>11, <1>12, <1>13, <1>14, <1>15 DEF Fetching

LEMMA CacheSteps == Cached /\ [AttachmentsNext]_attachmentsVars => Cached'
  <1> SUFFICES ASSUME Cached, [AttachmentsNext]_attachmentsVars
               PROVE  Cached'
    OBVIOUS
  <1>1. RequestsOK'
    BY RequestSteps DEF Cached
  <1>2. Stored'
    <2>1. CASE Projects
      BY <2>1, RemoveKeeps, AddKeeps, JoinKeeps, ReplayKeeps DEF Projects
    <2>2. CASE RestartFetches
      BY <2>2, RestartKeeps
    <2>3. CASE \E f \in Fetches : Fetching(f)
      BY <2>3, FetchingKeeps
    <2>4. CASE UNCHANGED attachmentsVars
      <3>1. UNCHANGED <<rows, entry, extracted, searchable, objects, fetch, changes,
                        evictionVars, abandoned, owed>>
        BY <2>4 DEF attachmentsVars, cacheVars
      <3>2. Placed' = Placed /\ (Evicting' <=> Evicting)
        BY <3>1, SameRequests
      <3> QED
        BY <3>1, <3>2, QuietKeeps DEF Cached, Stored, Shape
    <2> QED
      BY <2>1, <2>2, <2>3, <2>4 DEF AttachmentsNext
  <1> QED
    BY <1>1, <1>2 DEF Cached

LEMMA CacheStarts == AttachmentsInit => Cached
  <1> SUFFICES ASSUME AttachmentsInit PROVE Cached
    OBVIOUS
  <1>1. NoEntry \in [status : EntryStatuses, object : Objects \cup {NoObject}]
    BY DEF NoEntry, EntryStatuses
  <1>2. \A a \in Attachments : entry[a].status = "none"
    BY DEF AttachmentsInit, NoEntry
  <1>3. WellFormed(entry) /\ Named(entry) = {} /\ Rooted(entry, rows)
    BY <1>1, <1>2 DEF AttachmentsInit, WellFormed, Entries, Named, Ready, Rooted
  <1>4. RequestsOK
    BY IdleRecord DEF AttachmentsInit, RequestsOK, AsksAreAllowed
  <1>5. Placed = {} /\ ~Evicting /\ Gone = {}
    <2>1. \A f \in Fetches : fetch[f].pc = "idle"
      BY DEF AttachmentsInit, NoFetch
    <2> QED
      BY <2>1 DEF AttachmentsInit, Placed, PlacedBy, Evicting, Gone
  <1>6. 0 \in 0..MaxChanges /\ listed \in [Attachments -> Objects \cup {NoObject}]
    BY AttachmentsAssumption DEF AttachmentsInit, NoneListed
  <1>7. Eviction /\ Files
    BY <1>3, <1>5 DEF AttachmentsInit, Eviction, Files, ReadyHasFile, FilesAreCounted
  <1> QED
    BY <1>3, <1>4, <1>6, <1>7 DEF AttachmentsInit, Cached, Stored, Shape

LEMMA CacheInvariant == AttachmentsSpec => []Cached
  BY CacheStarts, CacheSteps, PTL DEF AttachmentsSpec

-----------------------------------------------------------------------------
(* The variables keep their types, and an entry that is ready names an     *)
(* object.                                                                 *)
THEOREM AttachmentsTypeCorrect == AttachmentsSpec => []AttachmentsTypeOK
<1>1. Cached => AttachmentsTypeOK
  BY DEF Cached, Stored, Shape, WellFormed, Entries, RequestsOK, AttachmentsTypeOK
<1> QED
  BY <1>1, CacheInvariant, PTL

(* ReadyHasFile: an entry that says ready has its file, whatever is        *)
(* evicted, joined or fetched between any two writes, but for an eviction's*)
(* victim, and for those that a failure or a death in an eviction, or a    *)
(* join during one, has left without.                                      *)
THEOREM ReadyHasItsFile == AttachmentsSpec => []ReadyHasFile
<1>1. Cached => ReadyHasFile
  BY DEF Cached, Stored, Files
<1> QED
  BY <1>1, CacheInvariant, PTL

(* FilesAreCounted: every file is one that ready entries refer to, and the *)
(* limit counts; one that has just been put in its place; or one that was  *)
(* left when its last entry was dropped, but not by an eviction, or when a *)
(* request failed or died between the file and its entry.                  *)
THEOREM FilesCounted == AttachmentsSpec => []FilesAreCounted
<1>1. Cached => FilesAreCounted
  BY DEF Cached, Stored, Files
<1> QED
  BY <1>1, CacheInvariant, PTL

(* EntriesHaveRows: no entry outlives the row of its attachment, not even  *)
(* one that a request writes after the row is gone.                        *)
THEOREM EntriesAreRooted == AttachmentsSpec => []EntriesHaveRows
<1>1. Cached => EntriesHaveRows
  BY DEF Cached, Stored, Rooted, EntriesHaveRows
<1> QED
  BY <1>1, CacheInvariant, PTL

-----------------------------------------------------------------------------
(* Sums.  The size of the cache is an operator of the community modules, a *)
(* function on the parts of a set that is defined in terms of itself.  That*)
(* there is one, and what it adds up to, follows by induction on the parts *)
(* of a finite set: a set of them that lacks one lacks a least one.        *)

(* An element of s, always the same. *)
First(s) == CHOOSE x \in s : TRUE

(* g adds up what F says of the members of each part of S. *)
Added(F, s, g) == IF s = {} THEN 0 ELSE F[First(s)] + g[s \ {First(s)}]
Adds(F, S, g) == g = [s \in SUBSET S |-> Added(F, s, g)]

Sum(F, S) == LET g == CHOOSE g : Adds(F, S, g) IN g[S]

LEMMA FirstIn == \A s : s # {} => First(s) \in s
  BY DEF First

(* A set of finite sets has one no other of which is a part of. *)
LEMMA LeastPart ==
  ASSUME NEW S, IsFiniteSet(S), NEW N, N \subseteq SUBSET S, N # {}
  PROVE  \E T \in N : \A U \in N : U \subseteq T => U = T
  <1>1. IsWellFoundedOn(StrictSubsetOrdering(S), FiniteSubsetsOf(S))
    BY FS_StrictSubsetOrderingWellFounded, Zenon
  <1>2. FiniteSubsetsOf(S) = SUBSET S
    BY FS_FiniteSubsetsOfFinite, Zenon
  <1>3. PICK T \in N : \A U \in N : ~(<<U, T>> \in StrictSubsetOrdering(S))
    BY <1>1, <1>2, WFMin, Zenon
  <1> QED
    BY <1>3 DEF StrictSubsetOrdering

(* What holds of a finite set if it holds of all its proper parts holds of *)
(* every part of a finite set.                                             *)
LEMMA InductionOnParts ==
  ASSUME NEW S, IsFiniteSet(S), NEW Q,
         \A T \in SUBSET S : (\A U \in SUBSET T : U # T => U \in Q) => T \in Q
  PROVE  SUBSET S \subseteq Q
  <1> SUFFICES ASSUME (SUBSET S) \ Q # {} PROVE FALSE
    OBVIOUS
  <1>1. PICK T \in (SUBSET S) \ Q : \A U \in (SUBSET S) \ Q : U \subseteq T => U = T
    <2> DEFINE N == (SUBSET S) \ Q
    <2>1. N \subseteq SUBSET S /\ N # {}
      OBVIOUS
    <2> HIDE DEF N
    <2>2. \E T \in N : \A U \in N : U \subseteq T => U = T
      BY <2>1, LeastPart
    <2> QED
      BY <2>2 DEF N
  <1> QED
    BY <1>1

LEMMA AddsOf ==
  ASSUME NEW F, NEW S, NEW g, Adds(F, S, g), NEW s \in SUBSET S
  PROVE  g[s] = Added(F, s, g)
  BY DEF Adds

(* Two that add up the same agree where both are defined. *)
LEMMA AddsAgree ==
  ASSUME NEW S, IsFiniteSet(S), NEW T, S \subseteq T, NEW F, NEW G,
         \A x \in S : F[x] = G[x], NEW g, Adds(F, S, g), NEW h, Adds(G, T, h)
  PROVE  \A s \in SUBSET S : g[s] = h[s]
  <1>a. \A s \in SUBSET S : g[s] = Added(F, s, g)
    BY AddsOf
  <1>b. \A s \in SUBSET T : h[s] = Added(G, s, h)
    BY AddsOf
  <1> DEFINE Q == {s \in SUBSET S : g[s] = h[s]}
  <1>1. ASSUME NEW s \in SUBSET S, \A u \in SUBSET s : u # s => u \in Q
        PROVE  s \in Q
    <2>2. CASE s = {}
      BY <1>a, <1>b, <2>2 DEF Added
    <2>3. CASE s # {}
      <3>1. First(s) \in s
        BY <2>3, FirstIn
      <3>2. g[s \ {First(s)}] = h[s \ {First(s)}]
        BY <1>1, <3>1
      <3>3. F[First(s)] = G[First(s)]
        BY <3>1
      <3> QED
        BY <1>a, <1>b, <2>3, <3>2, <3>3 DEF Added
    <2> QED
      BY <2>2, <2>3
  <1> HIDE DEF Q
  <1>3. SUBSET S \subseteq Q
    BY <1>1, InductionOnParts
  <1> QED
    BY <1>3 DEF Q

(* Something adds them up. *)
LEMMA AddsExists ==
  ASSUME NEW S, IsFiniteSet(S), NEW F
  PROVE  \E g : Adds(F, S, g)
  <1> DEFINE Q == {s \in SUBSET S : \E g : Adds(F, s, g)}
  <1>1. ASSUME NEW s \in SUBSET S, \A u \in SUBSET s : u # s => u \in Q
        PROVE  s \in Q
    <2> DEFINE f(t) == IF t = {} THEN 0 ELSE F[First(t)] + Sum(F, t \ {First(t)})
               h == [t \in SUBSET s |-> f(t)]
    <2>0. ASSUME NEW u \in SUBSET s, u # s
          PROVE  Adds(F, u, CHOOSE g : Adds(F, u, g))
      BY <1>1, <2>0
    <2>1. ASSUME NEW u \in SUBSET s, u # s
          PROVE  Sum(F, u) = f(u)
      <3> DEFINE k == CHOOSE g : Adds(F, u, g)
      <3>1. Adds(F, u, k)
        BY <2>0, <2>1
      <3>2. Sum(F, u) = k[u]
        BY DEF Sum
      <3> HIDE DEF k
      <3>3. k[u] = Added(F, u, k)
        BY <3>1, AddsOf
      <3>4. CASE u = {}
        BY <3>2, <3>3, <3>4 DEF Added
      <3>5. CASE u # {}
        <4> DEFINE v == u \ {First(u)}
                   l == CHOOSE g : Adds(F, v, g)
        <4>1. First(u) \in u
          BY <3>5, FirstIn
        <4>2. v \in SUBSET s /\ v # s
          BY <2>1, <4>1
        <4>3. Adds(F, v, l)
          BY <2>0, <4>2
        <4>4. Sum(F, v) = l[v]
          BY DEF Sum
        <4>5. IsFiniteSet(v) /\ v \subseteq u
          BY <4>2, FS_Subset
        <4> HIDE DEF v, l
        <4>6. l[v] = k[v]
          BY <3>1, <4>3, <4>5, AddsAgree
        <4> QED
          BY <3>2, <3>3, <3>5, <4>4, <4>6 DEF v, Added
      <3> QED
        BY <3>4, <3>5
    <2>2. \A t \in SUBSET s : h[t] = f(t)
      OBVIOUS
    <2>3. ASSUME NEW t \in SUBSET s
          PROVE  f(t) = Added(F, t, h)
      <3>1. CASE t = {}
        BY <3>1 DEF Added
      <3>2. CASE t # {}
        <4>1. First(t) \in t
          BY <3>2, FirstIn
        <4>2. t \ {First(t)} \in SUBSET s /\ t \ {First(t)} # s
          BY <4>1
        <4>3. Sum(F, t \ {First(t)}) = h[t \ {First(t)}]
          BY <2>1, <2>2, <4>2
        <4> HIDE DEF h
        <4> QED
          BY <3>2, <4>3 DEF Added
      <3> QED
        BY <3>1, <3>2
    <2>4. Adds(F, s, h)
      <3> HIDE DEF f
      <3>1. h = [t \in SUBSET s |-> Added(F, t, h)]
        BY <2>3
      <3> HIDE DEF h
      <3> QED
        BY <3>1 DEF Adds
    <2> QED
      BY <2>4
  <1> HIDE DEF Q
  <1>3. SUBSET S \subseteq Q
    BY <1>1, InductionOnParts
  <1> QED
    BY <1>3 DEF Q

LEMMA SumAdds ==
  ASSUME NEW F, NEW S, IsFiniteSet(S)
  PROVE  \E g : Adds(F, S, g) /\ Sum(F, S) = g[S]
  <1> DEFINE k == CHOOSE g : Adds(F, S, g)
  <1>1. Adds(F, S, k)
    BY AddsExists
  <1>2. Sum(F, S) = k[S]
    BY DEF Sum
  <1> HIDE DEF k
  <1> QED
    BY <1>1, <1>2

LEMMA SumAgrees ==
  ASSUME NEW S, IsFiniteSet(S), NEW F, NEW G, \A x \in S : F[x] = G[x]
  PROVE  Sum(F, S) = Sum(G, S)
  <1>1. PICK g : Adds(F, S, g) /\ Sum(F, S) = g[S]
    BY SumAdds
  <1>2. PICK h : Adds(G, S, h) /\ Sum(G, S) = h[S]
    BY SumAdds
  <1>3. g[S] = h[S]
    BY <1>1, <1>2, AddsAgree
  <1> QED
    BY <1>1, <1>2, <1>3

LEMMA SumOfNone == ASSUME NEW F PROVE Sum(F, {}) = 0
  <1>1. PICK g : Adds(F, {}, g) /\ Sum(F, {}) = g[{}]
    BY SumAdds, FS_EmptySet
  <1>2. g[{}] = Added(F, {}, g)
    BY <1>1, AddsOf
  <1> QED
    BY <1>1, <1>2 DEF Added

LEMMA SumOfSome ==
  ASSUME NEW F, NEW S, IsFiniteSet(S), S # {}
  PROVE  First(S) \in S /\ Sum(F, S) = F[First(S)] + Sum(F, S \ {First(S)})
  <1> DEFINE T == S \ {First(S)}
  <1>1. First(S) \in S
    BY FirstIn
  <1>2. IsFiniteSet(T) /\ T \subseteq S
    BY FS_Subset
  <1>3. PICK g : Adds(F, S, g) /\ Sum(F, S) = g[S]
    BY SumAdds
  <1>4. PICK h : Adds(F, T, h) /\ Sum(F, T) = h[T]
    BY <1>2, SumAdds
  <1>5. g[S] = Added(F, S, g)
    BY <1>3, AddsOf
  <1>6. h[T] = g[T]
    BY <1>2, <1>3, <1>4, AddsAgree
  <1> QED
    BY <1>1, <1>3, <1>4, <1>5, <1>6 DEF Added

LEMMA SumIsNat ==
  ASSUME NEW S, IsFiniteSet(S), NEW F, \A x \in S : F[x] \in Nat
  PROVE  \A T \in SUBSET S : Sum(F, T) \in Nat
  <1> DEFINE Q == {T \in SUBSET S : Sum(F, T) \in Nat}
  <1>1. ASSUME NEW T \in SUBSET S, \A U \in SUBSET T : U # T => U \in Q
        PROVE  T \in Q
    <2>1. CASE T = {}
      BY <2>1, SumOfNone
    <2>2. CASE T # {}
      <3>1. IsFiniteSet(T)
        BY FS_Subset
      <3>2. First(T) \in T /\ Sum(F, T) = F[First(T)] + Sum(F, T \ {First(T)})
        BY <2>2, <3>1, SumOfSome
      <3>3. F[First(T)] \in Nat
        BY <3>2
      <3>4. Sum(F, T \ {First(T)}) \in Nat
        BY <1>1, <3>2
      <3> QED
        BY <3>2, <3>3, <3>4
    <2> QED
      BY <2>1, <2>2
  <1> HIDE DEF Q
  <1>2. SUBSET S \subseteq Q
    BY <1>1, InductionOnParts
  <1> QED
    BY <1>2 DEF Q

(* Whichever is taken first. *)
LEMMA SumTakesAny ==
  ASSUME NEW S, IsFiniteSet(S), NEW F, \A x \in S : F[x] \in Nat
  PROVE  \A x \in S : Sum(F, S) = F[x] + Sum(F, S \ {x})
  <1> DEFINE Q == {T \in SUBSET S : \A x \in T : Sum(F, T) = F[x] + Sum(F, T \ {x})}
  <1>1. ASSUME NEW T \in SUBSET S, \A U \in SUBSET T : U # T => U \in Q
        PROVE  T \in Q
    <2> SUFFICES ASSUME NEW x \in T
                 PROVE  Sum(F, T) = F[x] + Sum(F, T \ {x})
      OBVIOUS
    <2> DEFINE c == First(T)
    <2>1. IsFiniteSet(T)
      BY FS_Subset
    <2>2. c \in T /\ Sum(F, T) = F[c] + Sum(F, T \ {c})
      BY <2>1, SumOfSome
    <2> HIDE DEF c
    <2>3. CASE x = c
      BY <2>2, <2>3
    <2>4. CASE x # c
      <3>1. Sum(F, T \ {c}) = F[x] + Sum(F, (T \ {c}) \ {x})
        <4>1. T \ {c} \in Q
          BY <1>1, <2>2
        <4> QED
          BY <2>4, <4>1
      <3>2. Sum(F, T \ {x}) = F[c] + Sum(F, (T \ {x}) \ {c})
        <4>1. T \ {x} \in Q
          BY <1>1
        <4> QED
          BY <2>2, <2>4, <4>1
      <3>3. (T \ {c}) \ {x} = (T \ {x}) \ {c}
        OBVIOUS
      <3>4. F[x] \in Nat /\ F[c] \in Nat /\ Sum(F, (T \ {x}) \ {c}) \in Nat
        BY <2>2, SumIsNat
      <3> DEFINE rest == Sum(F, (T \ {x}) \ {c})
      <3>5. Sum(F, T \ {c}) = F[x] + rest
        BY <3>1, <3>3
      <3> HIDE DEF rest
      <3>6. Sum(F, T) = F[c] + (F[x] + rest) /\ Sum(F, T \ {x}) = F[c] + rest
        BY <2>2, <3>2, <3>5 DEF rest
      <3>7. rest \in Nat
        BY <3>4 DEF rest
      <3> QED
        BY <3>4, <3>6, <3>7
    <2> QED
      BY <2>3, <2>4
  <1> HIDE DEF Q
  <1>2. S \in Q
    BY <1>1, InductionOnParts
  <1> QED
    BY <1>2 DEF Q

LEMMA SumOfPart ==
  ASSUME NEW S, IsFiniteSet(S), NEW F, \A x \in S : F[x] \in Nat, NEW P \in SUBSET S
  PROVE  Sum(F, P) <= Sum(F, S)
  <1> DEFINE Q == {T \in SUBSET S : P \subseteq T => Sum(F, P) <= Sum(F, T)}
  <1>1. ASSUME NEW T \in SUBSET S, \A U \in SUBSET T : U # T => U \in Q
        PROVE  T \in Q
    <2> SUFFICES ASSUME P \subseteq T
                 PROVE  Sum(F, P) <= Sum(F, T)
      OBVIOUS
    <2>1. Sum(F, T) \in Nat /\ Sum(F, P) \in Nat
      BY SumIsNat
    <2>2. CASE T = P
      BY <2>1, <2>2
    <2>3. CASE T # P
      <3>1. PICK x \in T : x \notin P
        BY <2>3
      <3>2. IsFiniteSet(T)
        BY FS_Subset
      <3>3. Sum(F, T) = F[x] + Sum(F, T \ {x})
        BY <3>2, SumTakesAny
      <3>4. T \ {x} \in Q
        BY <1>1
      <3>5. Sum(F, P) <= Sum(F, T \ {x})
        BY <3>1, <3>4
      <3>6. F[x] \in Nat /\ Sum(F, T \ {x}) \in Nat
        BY SumIsNat
      <3> QED
        BY <2>1, <3>3, <3>5, <3>6
    <2> QED
      BY <2>2, <2>3
  <1> HIDE DEF Q
  <1>2. S \in Q
    BY <1>1, InductionOnParts
  <1> QED
    BY <1>2 DEF Q

LEMMA ImageIsFinite ==
  ASSUME NEW S, IsFiniteSet(S), NEW m
  PROVE  IsFiniteSet({m[x] : x \in S})
  <1> DEFINE T == {m[x] : x \in S}
             f == [x \in S |-> m[x]]
  <1>1. f \in Surjection(S, T)
    BY DEF Surjection
  <1> HIDE DEF f, T
  <1>2. IsFiniteSet(T)
    BY <1>1, FS_Surjection
  <1> QED
    BY <1>2 DEF T

(* What several have in common is counted once on the left. *)
LEMMA SumOfImage ==
  ASSUME NEW S, IsFiniteSet(S), NEW m, NEW F, NEW G,
         \A x \in S : F[m[x]] \in Nat /\ G[x] = F[m[x]]
  PROVE  Sum(F, {m[x] : x \in S}) <= Sum(G, S)
  <1> DEFINE image(T) == {m[x] : x \in T}
             Q == {T \in SUBSET S : Sum(F, image(T)) <= Sum(G, T)}
  <1>1. ASSUME NEW T \in SUBSET S, \A U \in SUBSET T : U # T => U \in Q
        PROVE  T \in Q
    <2>1. IsFiniteSet(T)
      BY FS_Subset
    <2>2. CASE T = {}
      <3>1. image(T) = {}
        BY <2>2
      <3> QED
        BY <2>2, <3>1, SumOfNone
    <2>3. CASE T # {}
      <3> DEFINE c == First(T)
                 U == T \ {c}
      <3>1. c \in T /\ Sum(G, T) = G[c] + Sum(G, U)
        BY <2>1, <2>3, SumOfSome
      <3> HIDE DEF c
      <3>2. U \in SUBSET T /\ U # T
        BY <3>1
      <3>3. Sum(F, image(U)) <= Sum(G, U)
        BY <1>1, <3>2
      <3>4. IsFiniteSet(image(T))
        BY <2>1, ImageIsFinite
      <3>5. \A o \in image(T) : F[o] \in Nat
        OBVIOUS
      <3>6. image(U) \in SUBSET image(T) /\ m[c] \in image(T)
        BY <3>1
      <3>7. Sum(F, image(T)) \in Nat /\ Sum(F, image(U)) \in Nat
        BY <3>4, <3>5, <3>6, SumIsNat
      <3>8. Sum(G, U) \in Nat /\ G[c] \in Nat /\ G[c] = F[m[c]]
        <4>1. \A x \in S : G[x] \in Nat
          OBVIOUS
        <4> QED
          BY <3>1, <4>1, SumIsNat
      <3>9. CASE m[c] \in image(U)
        <4>1. image(T) = image(U)
          BY <3>1, <3>9
        <4> HIDE DEF image
        <4>2. Sum(F, image(T)) <= Sum(G, T)
          BY <3>1, <3>3, <3>7, <3>8, <4>1
        <4> QED
          BY <4>2
      <3>10. CASE m[c] \notin image(U)
        <4>1. image(T) \ {m[c]} = image(U)
          BY <3>1, <3>10
        <4>2. Sum(F, image(T)) = F[m[c]] + Sum(F, image(T) \ {m[c]})
          BY <3>4, <3>5, <3>6, SumTakesAny
        <4> HIDE DEF image, U
        <4>3. Sum(F, image(T)) <= Sum(G, T)
          BY <3>1, <3>3, <3>7, <3>8, <4>1, <4>2
        <4> QED
          BY <4>3
      <3> QED
        BY <3>9, <3>10
    <2> QED
      BY <2>2, <2>3
  <1> HIDE DEF Q
  <1>2. S \in Q
    BY <1>1, InductionOnParts
  <1> QED
    BY <1>2 DEF Q

-----------------------------------------------------------------------------
(* The limit of the cache. *)

(* What an eviction has not given up is added up by Sum. *)
LEMMA TotalIsSum ==
  ASSUME IsFiniteSet(Remaining)
  PROVE  Total = Sum([a \in Remaining |-> Bytes[listed[a]]], Remaining)
  <1> DEFINE T == Remaining
             w == [a \in T |-> Bytes[listed[a]]]
             B(s, k) == IF s = {} THEN 0 ELSE Bytes[listed[First(s)]] + k[s \ {First(s)}]
             P(k) == k = [s \in SUBSET T |-> B(s, k)]
             total == CHOOSE k : P(k)
  <1>1. Total = total[T]
    BY DEF Total, MapThenSumSet, MapThenFoldSet, First
  <1> HIDE DEF T
  <1>2. PICK g : Adds(w, T, g) /\ Sum(w, T) = g[T]
    BY SumAdds DEF T
  <1>3. \A s \in SUBSET T : \A k : Added(w, s, k) = B(s, k)
    BY FirstIn DEF Added
  <1> HIDE DEF w, B
  <1>4. \A k : P(k) <=> Adds(w, T, k)
    BY <1>3 DEF Adds
  <1> HIDE DEF P
  <1>5. P(total)
    BY <1>2, <1>4
  <1>6. Adds(w, T, total)
    BY <1>4, <1>5
  <1>7. g[T] = total[T]
    BY <1>2, <1>6, AddsAgree DEF T
  <1> QED
    BY <1>1, <1>2, <1>7 DEF w, T

LEMMA AttachmentSets == \A T \in SUBSET Attachments : IsFiniteSet(T)
  BY AttachmentsAssumption, FS_Subset

(* Entries whose requests have looked at the limit, and their files. *)
Looked == Ready(entry) \ Late
InHand == {o \in objects : \E a \in Looked : entry[a].object = o}

Fits(S) == Sum(Bytes, S) <= CacheLimit \/ Cardinality(S) <= 1
Bounded == Fits(InHand)

LEMMA KeptIsHeld == Cached => Kept = InHand
  BY DEF Cached, Stored, Files, FilesAreCounted, Kept, InHand, Looked, Named

(* Fewer objects fit. *)
LEMMA FewerFit ==
  ASSUME NEW S \in SUBSET Objects, IsFiniteSet(S), NEW T \in SUBSET S, Fits(S)
  PROVE  Fits(T)
  <1>1. \A o \in S : Bytes[o] \in Nat
    BY AttachmentsAssumption
  <1>2. Sum(Bytes, T) <= Sum(Bytes, S) /\ Sum(Bytes, T) \in Nat /\ Sum(Bytes, S) \in Nat
    BY <1>1, SumOfPart, SumIsNat
  <1>3. /\ IsFiniteSet(T) /\ Cardinality(T) <= Cardinality(S)
        /\ Cardinality(T) \in Nat /\ Cardinality(S) \in Nat
    BY FS_Subset, FS_CardinalityType
  <1> QED
    BY <1>2, <1>3, AttachmentsAssumption DEF Fits

LEMMA HeldAreFinite == Cached => InHand \in SUBSET Objects /\ IsFiniteSet(InHand)
  <1> SUFFICES ASSUME Cached PROVE InHand \in SUBSET Objects /\ IsFiniteSet(InHand)
    OBVIOUS
  <1> DEFINE m == [a \in Attachments |-> entry[a].object]
             I == {m[a] : a \in Attachments}
  <1>1. InHand \subseteq I
    BY DEF InHand, Looked, Ready
  <1> HIDE DEF m
  <1>2. IsFiniteSet(I)
    <2>1. IsFiniteSet(Attachments)
      BY AttachmentsAssumption
    <2> QED
      BY <2>1, ImageIsFinite
  <1> HIDE DEF I
  <1>3. IsFiniteSet(InHand)
    BY <1>1, <1>2, FS_Subset
  <1> QED
    BY <1>3 DEF InHand, Cached, Stored, Shape

LEMMA LessIsBounded ==
  ASSUME Cached, Bounded, InHand' \subseteq InHand
  PROVE  Bounded'
  <1> DEFINE S == InHand
             T == InHand'
  <1>1. S \in SUBSET Objects /\ IsFiniteSet(S) /\ Fits(S)
    BY HeldAreFinite DEF Bounded
  <1>2. T \in SUBSET S
    OBVIOUS
  <1> HIDE DEF S, T
  <1>3. Fits(T)
    BY <1>1, <1>2, FewerFit
  <1> QED
    BY <1>3 DEF T, Bounded, Fits

(* No entry that was late, or was not there, counts afterwards. *)
LEMMA NoneNewIsBounded ==
  ASSUME Cached, Bounded, objects' \subseteq objects,
         \A x \in Looked' : \E y \in Looked : entry[y].object = entry'[x].object
  PROVE  Bounded'
  <1>1. InHand' \subseteq InHand
    BY DEF InHand
  <1> QED
    BY <1>1, LessIsBounded

(* Late only lacks afterwards whom an ending request is for. *)
LEMMA LateStays ==
  ASSUME RequestsOK, NEW f \in Fetches, NEW r, fetch' = [fetch EXCEPT ![f] = r],
         owed \subseteq owed'
  PROVE  /\ \A a \in Late \ Late' : fetch[f].pc \in Unlimited /\ a = fetch[f].what.attachment
         /\ r.pc \in Unlimited => r.what.attachment \in Late'
  <1>1. \A g \in Fetches : fetch'[g] = IF g = f THEN r ELSE fetch[g]
    BY DEF RequestsOK
  <1> QED
    BY <1>1 DEF Late

LEMMA LateSame ==
  ASSUME UNCHANGED fetch, owed \subseteq owed'
  PROVE  Late \subseteq Late'
  BY DEF Late

(* Steps after which nothing is less late, and no entry is ready that was  *)
(* not, and had another file.                                              *)
LEMMA NoneReadyIsBounded ==
  ASSUME Cached, Bounded, objects' \subseteq objects,
         \A x \in Ready(entry') : /\ x \in Late => x \in Late'
                                  /\ \/ x \in Ready(entry) /\ entry'[x].object = entry[x].object
                                     \/ x \in Late'
  PROVE  Bounded'
  <1>1. \A x \in Looked' : x \in Looked /\ entry[x].object = entry'[x].object
    BY DEF Looked
  <1> QED
    BY <1>1, NoneNewIsBounded

-----------------------------------------------------------------------------
LEMMA JoinIsBounded ==
  ASSUME Cached, Bounded, NEW a \in Attachments, NEW b \in Attachments, Join(a, b)
  PROVE  Bounded'
  <1>1. /\ a # b /\ UNCHANGED <<objects, fetch>> /\ owed \subseteq owed'
        /\ entry[b].status = "none" /\ a \in Late => b \in owed'
    BY DEF Join
  <1>2. entry' = [entry EXCEPT ![a] = NoEntry,
                               ![b] = IF entry[b].status = "none" THEN entry[a] ELSE entry[b]]
    <2>1. entry' = [entry EXCEPT ![a] = NoEntry, ![b] = IF entry[b].status = "none" THEN entry[a] ELSE @]
      BY DEF Join
    <2> QED
      BY <1>1, <2>1 DEF Cached, Stored, WellFormed, Entries
  <1>3. \A x \in Attachments : entry'[x] =
            IF x = b THEN (IF entry[b].status = "none" THEN entry[a] ELSE entry[b])
            ELSE IF x = a THEN NoEntry ELSE entry[x]
    BY <1>2 DEF Cached, Stored, WellFormed, Entries
  <1>4. Late \subseteq Late' /\ owed' \subseteq Late'
    BY <1>1, LateSame DEF Late
  <1>5. ASSUME NEW x \in Looked'
        PROVE  \E y \in Looked : entry[y].object = entry'[x].object
    <2>1. x \in Attachments /\ entry'[x].status = "ready" /\ x \notin Late'
      BY DEF Looked, Ready
    <2>2. CASE x = b /\ entry[b].status = "none"
      <3>1. a \in Looked /\ entry[a].object = entry'[x].object
        BY <1>1, <1>3, <1>4, <2>1, <2>2 DEF Looked, Ready
      <3> QED
        BY <3>1
    <2>3. CASE ~(x = b /\ entry[b].status = "none")
      <3>1. x \in Looked /\ entry[x].object = entry'[x].object
        BY <1>3, <1>4, <2>1, <2>3 DEF Looked, Ready, NoEntry
      <3> QED
        BY <3>1
    <2> QED
      BY <2>2, <2>3
  <1> QED
    BY <1>1, <1>5, NoneNewIsBounded

(* The other changes of rows, and a death, drop entries or leave them. *)
LEMMA ProjectsIsBounded ==
  ASSUME Cached, Bounded, Projects \/ RestartFetches \/ UNCHANGED attachmentsVars
  PROVE  Bounded'
  <1>1. ASSUME objects' \subseteq objects, Late \subseteq Late',
               \A x \in Attachments : entry'[x] = entry[x] \/ entry'[x] = NoEntry
        PROVE  Bounded'
    BY <1>1, NoneReadyIsBounded DEF Ready, NoEntry
  <1>2. ASSUME NEW a \in Attachments, RemoveRow(a) PROVE Bounded'
    <2>1. UNCHANGED <<objects, fetch, owed>> /\ entry' = [entry EXCEPT ![a] = NoEntry]
      BY <1>2 DEF RemoveRow
    <2> QED
      BY <1>1, <2>1, LateSame DEF Cached, Stored, WellFormed, Entries
  <1>3. ASSUME NEW a \in Attachments, AddRow(a) PROVE Bounded'
    <2>1. UNCHANGED <<objects, fetch, owed, entry>>
      BY <1>3 DEF AddRow
    <2> QED
      BY <1>1, <2>1, LateSame
  <1>4. CASE Replay
    <2>1. UNCHANGED <<objects, fetch, owed>> /\ entry' = [a \in Attachments |-> NoEntry]
      BY <1>4 DEF Replay
    <2> QED
      BY <1>1, <2>1, LateSame
  <1>5. CASE RestartFetches
    <2>1. UNCHANGED <<objects, entry>> /\ owed' = Late
      BY <1>5 DEF RestartFetches, cacheVars
    <2> QED
      BY <1>1, <2>1 DEF Late
  <1>6. CASE UNCHANGED attachmentsVars
    <2>1. UNCHANGED <<objects, fetch, owed, entry>>
      BY <1>6 DEF attachmentsVars, cacheVars
    <2> QED
      BY <1>1, <2>1, LateSame
  <1> QED
    BY <1>2, <1>3, <1>4, <1>5, <1>6, JoinIsBounded DEF Projects

(* A file that is back counts again when a request has looked. *)
LEMMA PlaceIsBounded ==
  ASSUME Cached, Bounded, NEW f \in Fetches, NEW object \in Objects, Place(f, object)
  PROVE  Bounded'
  <1> DEFINE back == {x \in Ready(entry) : entry[x].object = object /\ object \notin objects}
             r == At("storing", [attachment |-> fetch[f].what.attachment, object |-> object],
                     NotDownloading)
  <1>1. /\ objects' = objects \cup {object}
        /\ fetch' = [fetch EXCEPT ![f] = r]
        /\ owed' = owed \cup back
        /\ fetch[f].pc \notin Unlimited
        /\ entry' = entry
    BY DEF Place, Unlimited
  <1> HIDE DEF r
  <1>2. Late \subseteq Late'
    BY <1>1, LateStays DEF Cached
  <1>3. back \subseteq Late'
    BY <1>1 DEF Late
  <1>4. InHand' \subseteq InHand
    BY <1>1, <1>2, <1>3 DEF InHand, Looked, Ready
  <1> QED
    BY <1>4, LessIsBounded

(* An entry is late from when it is marked until its request has looked.   *)
LEMMA MarkReadyIsBounded ==
  ASSUME Cached, Bounded, NEW f \in Fetches, NEW text \in BOOLEAN, MarkReady(f, text)
  PROVE  Bounded'
  <1> DEFINE a == fetch[f].what.attachment
             r == At(IF text THEN "extracting" ELSE "limiting", For(a), NotDownloading)
  <1>1. /\ fetch' = [fetch EXCEPT ![f] = r]
        /\ entry' = [entry EXCEPT ![a] = [status |-> "ready", object |-> fetch[f].what.object]]
        /\ fetch[f].pc \notin Unlimited
        /\ UNCHANGED <<objects, owed>>
    BY DEF MarkReady, Unlimited
  <1>2. r.pc \in Unlimited /\ r.what.attachment = a
    BY DEF At, Unlimited, For
  <1>3. \A x \in Attachments : x # a => entry'[x] = entry[x]
    BY <1>1 DEF Cached, Stored, WellFormed, Entries
  <1> HIDE DEF r, a
  <1>4. Late \subseteq Late' /\ a \in Late'
    BY <1>1, <1>2, LateStays DEF Cached
  <1> QED
    BY <1>1, <1>3, <1>4, NoneReadyIsBounded DEF Ready

(* An entry whose request fails is not ready, or late until another looks. *)
LEMMA FailIsBounded ==
  ASSUME Cached, Bounded, NEW f \in Fetches, Fail(f)
  PROVE  Bounded'
  <1> DEFINE a == fetch[f].what.attachment
  <1>1. fetch' = [fetch EXCEPT ![f] = NoFetch] /\ UNCHANGED objects /\ owed \subseteq owed'
    BY DEF Fail, Returns
  <1>2. \A x \in Late \ Late' : fetch[f].pc \in Unlimited /\ x = a
    BY <1>1, LateStays DEF Cached
  <1>3. fetch[f].pc # "idle"
    BY DEF Fail, Working, Synchronous
  <1>4. a \in Attachments
    BY <1>3, AtWork DEF Cached
  <1>5. \A x \in Attachments : entry'[x] = entry[x] \/ entry'[x].status = "failed"
    <2>1. CASE UNCHANGED entry
      BY <2>1
    <2>2. CASE entry' = [entry EXCEPT ![a] = [status |-> "failed", object |-> NoObject]]
      BY <2>2 DEF Cached, Stored, WellFormed, Entries
    <2> QED
      BY <2>1, <2>2 DEF Fail
  <1>6. fetch[f].pc \in Unlimited => entry'[a].status # "ready" \/ a \in Late'
    <2>1. CASE entry' = [entry EXCEPT ![a] = [status |-> "failed", object |-> NoObject]]
      BY <1>4, <2>1 DEF Cached, Stored, WellFormed, Entries
    <2>2. CASE owed' = owed \cup {x \in {a} : fetch[f].pc \in Unlimited}
      BY <2>2 DEF Late
    <2>3. CASE ~Stands(a) /\ UNCHANGED entry
      BY <1>4, <2>3 DEF Stands, Cached, Stored, Rooted
    <2> QED
      BY <2>1, <2>2, <2>3 DEF Fail
  <1> HIDE DEF a
  <1> QED
    BY <1>1, <1>2, <1>5, <1>6, NoneReadyIsBounded DEF Ready

(* Whoever has looked to the end has listed every file that entries name.  *)
LEMMA EndIsBounded ==
  ASSUME Cached, Cached', NEW f \in Fetches, End(f)
  PROVE  Bounded'
  <1> DEFINE spared == fetch[f].what.attachment
             R == Remaining
             m == [a \in R |-> listed[a]]
             w == [a \in R |-> Bytes[listed[a]]]
             I == {m[a] : a \in R}
             H == InHand'
  <1>1. /\ Evicting /\ UNCHANGED <<entry, objects>>
        /\ Total <= CacheLimit \/ R \subseteq {spared}
    <2>1. Evicting /\ UNCHANGED <<entry, objects>> /\ ~OverLimit(spared)
      BY DEF End, Evicting, cacheVars
    <2> HIDE DEF spared
    <2>2. Total <= CacheLimit \/ R \subseteq {spared} \/ ~(Total > CacheLimit)
      BY <2>1 DEF OverLimit
    <2>3. Total \in Nat
      <3>1. IsFiniteSet(R) /\ R \in SUBSET Attachments
        BY AttachmentSets DEF Remaining
      <3>2. \A a \in R : w[a] \in Nat
        BY AttachmentsAssumption DEF Remaining, Cached, Stored, Shape
      <3>3. Total = Sum(w, R)
        BY <3>1, TotalIsSum
      <3> HIDE DEF R, w
      <3> QED
        BY <3>1, <3>2, <3>3, SumIsNat
    <2> QED
      BY <2>1, <2>2, <2>3, AttachmentsAssumption
  <1>2. H \subseteq I
    <2>1. {listed[a] : a \in R} = I
      OBVIOUS
    <2>2. Named(entry) \cap objects \subseteq {listed[a] : a \in R}
      BY <1>1 DEF Cached, Stored, Eviction, ListIsComplete
    <2>3. H \subseteq Named(entry) \cap objects
      BY <1>1 DEF InHand, Looked, Named, Ready
    <2> QED
      BY <2>1, <2>2, <2>3
  <1>3. R \in SUBSET Attachments /\ IsFiniteSet(R)
    BY AttachmentSets DEF Remaining
  <1>4. \A a \in R : Bytes[m[a]] \in Nat /\ w[a] = Bytes[m[a]]
    BY AttachmentsAssumption DEF Remaining, Cached, Stored, Shape
  <1>5. Total = Sum(w, R)
    BY <1>3, TotalIsSum
  <1>6. CASE Total <= CacheLimit
    <2> HIDE DEF R, m, w, H
    <2>1. Sum(Bytes, I) <= Sum(w, R)
      BY <1>3, <1>4, SumOfImage
    <2>2. IsFiniteSet(I)
      BY <1>3, ImageIsFinite
    <2>3. \A o \in I : Bytes[o] \in Nat
      BY <1>4
    <2>4. \A a \in R : w[a] \in Nat
      BY <1>4
    <2>5. H \in SUBSET I
      BY <1>2
    <2> HIDE DEF I
    <2>6. Sum(Bytes, H) <= Sum(Bytes, I)
      BY <2>2, <2>3, <2>5, SumOfPart
    <2>7. Sum(Bytes, H) \in Nat /\ Sum(Bytes, I) \in Nat /\ Sum(w, R) \in Nat
      BY <1>3, <2>2, <2>3, <2>4, <2>5, SumIsNat
    <2>8. Fits(H)
      BY <1>5, <1>6, <2>1, <2>6, <2>7, AttachmentsAssumption DEF Fits
    <2> QED
      BY <2>8 DEF H, Bounded, Fits
  <1>7. CASE R \subseteq {spared}
    <2>1. H \subseteq {listed[spared]}
      BY <1>2, <1>7
    <2>2. IsFiniteSet({listed[spared]}) /\ Cardinality({listed[spared]}) = 1
      BY FS_Singleton
    <2> HIDE DEF H
    <2>3. Cardinality(H) <= 1
      BY <2>1, <2>2, FS_Subset
    <2>4. Fits(H)
      BY <2>3 DEF Fits
    <2> QED
      BY <2>4 DEF H, Bounded, Fits
  <1> QED
    BY <1>1, <1>6, <1>7

LEMMA FetchingIsBounded ==
  ASSUME Cached, Cached', Bounded, NEW f \in Fetches, Fetching(f)
  PROVE  Bounded'
  <1>1. ASSUME NEW r, fetch' = [fetch EXCEPT ![f] = r], UNCHANGED <<entry, objects, owed>>,
               fetch[f].pc \in Unlimited =>
                   r.pc \in Unlimited /\ r.what.attachment = fetch[f].what.attachment
        PROVE  Bounded'
    <2>1. Late \subseteq Late'
      BY <1>1, LateStays DEF Cached
    <2> QED
      BY <1>1, <2>1, NoneReadyIsBounded DEF Ready
  <1>2. ASSUME NEW a \in Attachments, Hit(f, a) PROVE Bounded'
    BY <1>1, <1>2 DEF Hit, cacheVars, Unlimited
  <1>3. ASSUME NEW host \in Hosts, Redirect(f, host) PROVE Bounded'
    BY <1>1, <1>3 DEF Redirect, cacheVars, Unlimited
  <1>4. CASE Refuse(f)
    BY <1>1, <1>4 DEF Refuse, cacheVars, Unlimited
  <1>5. CASE EndHit(f)
    BY <1>1, <1>5 DEF EndHit, Returns, Unlimited
  <1>6. CASE KeepText(f) \/ ListReady(f)
    <2> DEFINE a == fetch[f].what.attachment
    <2>1. \A pc : At(pc, For(a), NotDownloading).pc = pc
                  /\ At(pc, For(a), NotDownloading).what.attachment = a
      BY DEF At, For
    <2>2. CASE KeepText(f)
      BY <1>1, <2>1, <2>2 DEF KeepText, Unlimited
    <2>3. CASE ListReady(f)
      BY <1>1, <2>1, <2>3 DEF ListReady, cacheVars, Unlimited
    <2> QED
      BY <1>6, <2>2, <2>3
  <1>7. ASSUME NEW a \in Attachments, Miss(f, a) PROVE Bounded'
    <2>1. PICK r \in Acquiring(For(a)) : fetch' = [fetch EXCEPT ![f] = r]
      BY <1>7 DEF Miss
    <2>2. fetch[f].pc \notin Unlimited /\ owed' = owed /\ objects' = objects
      BY <1>7 DEF Miss, Unlimited
    <2>3. Late \subseteq Late'
      BY <2>1, <2>2, LateStays DEF Cached
    <2>4. \A x \in Attachments : entry'[x] = entry[x] \/ entry'[x].status = "fetching"
      BY <1>7 DEF Miss, Cached, Stored, WellFormed, Entries
    <2> QED
      BY <2>2, <2>3, <2>4, NoneReadyIsBounded DEF Ready
  <1>8. ASSUME NEW a \in Attachments, Unlink(f, a) PROVE Bounded'
    <2>1. objects' \subseteq objects /\ UNCHANGED <<entry, fetch, owed>>
      BY <1>8 DEF Unlink
    <2>2. Late \subseteq Late'
      BY <2>1, LateSame
    <2> QED
      BY <2>1, <2>2, NoneReadyIsBounded DEF Ready
  <1>9. ASSUME NEW a \in Attachments, MarkEvicted(f, a) PROVE Bounded'
    <2>1. UNCHANGED <<objects, fetch, owed>>
      BY <1>9 DEF MarkEvicted
    <2>2. Late \subseteq Late'
      BY <2>1, LateSame
    <2>3. \A x \in Attachments : entry'[x] = entry[x] \/ entry'[x].status = "evicted"
      BY <1>9 DEF MarkEvicted, Cached, Stored, WellFormed, Entries
    <2> QED
      BY <2>1, <2>2, <2>3, NoneReadyIsBounded DEF Ready
  <1> QED
    BY <1>2, <1>3, <1>4, <1>5, <1>6, <1>7, <1>8, <1>9,
       PlaceIsBounded, MarkReadyIsBounded, EndIsBounded, FailIsBounded DEF Fetching

LEMMA BoundedSteps ==
  Cached /\ Cached' /\ Bounded /\ [AttachmentsNext]_attachmentsVars => Bounded'
  BY ProjectsIsBounded, FetchingIsBounded DEF AttachmentsNext

LEMMA BoundedStarts == AttachmentsInit => Bounded
  <1> SUFFICES ASSUME AttachmentsInit PROVE Bounded
    OBVIOUS
  <1>1. InHand = {}
    BY DEF AttachmentsInit, InHand
  <1>2. Cardinality({}) <= 1
    BY FS_EmptySet
  <1> QED
    BY <1>1, <1>2 DEF Bounded, Fits

LEMMA BoundedDisk == Cached /\ Bounded => DiskIsBounded
  <1> SUFFICES ASSUME Cached, Bounded PROVE DiskIsBounded
    OBVIOUS
  <1>1. MapThenSumSet(LAMBDA o : Bytes[o], Kept) = Sum(Bytes, Kept)
    BY DEF MapThenSumSet, MapThenFoldSet, Sum, Adds, Added, First
  <1> QED
    BY <1>1, KeptIsHeld DEF Bounded, Fits, DiskIsBounded

(* DiskIsBounded: whatever order requests end in, and whatever is evicted, *)
(* joined or cut off meanwhile, the files of entries whose request has     *)
(* looked at the limit are within it, or there is only one: every eviction *)
(* has listed all files that entries name, and gives up only listed ones.  *)
THEOREM DiskBounded == AttachmentsSpec => []DiskIsBounded
<1>1. AttachmentsInit => Bounded
  BY BoundedStarts
<1>2. Cached /\ Cached' /\ Bounded /\ [AttachmentsNext]_attachmentsVars => Bounded'
  BY BoundedSteps
<1>3. Cached /\ Bounded => DiskIsBounded
  BY BoundedDisk
<1> QED
  BY <1>1, <1>2, <1>3, CacheInvariant, PTL DEF AttachmentsSpec
=============================================================================
