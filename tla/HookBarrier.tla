----------------------------- MODULE HookBarrier -----------------------------
(***************************************************************************)
(* ProjectionMessageHookBarrier (src/src/runtime/projection/service.ts)    *)
(* and its callers in the daemon.  The message.received hooks of newly     *)
(* stored rows wait in batches until the rows have been projected: a batch *)
(* is released by a completed range that contains all of it, or by a       *)
(* rebuild.                                                                *)
(*                                                                         *)
(* Emitting a hook runs a subprocess and is awaited, so a release takes    *)
(* several turns of the event loop.  It walks the live array of pending    *)
(* batches, and in the end replaces that array by the batches it passed    *)
(* over; other turns may enqueue, and start or end releases, in between.   *)
(*                                                                         *)
(* A batch is identified with its first row and has one payload.  Rows are *)
(* projected as in module Projection: new rows at once when nothing else   *)
(* is pending, otherwise by pages of a deferred run.                       *)
(***************************************************************************)
EXTENDS Integers, Sequences, SequencesExt

CONSTANTS
    Releases,          \* bound: releases at work at the same time
    MaxRow,            \* bound: rows
    Sizes              \* projection batch sizes: they change with the backlog

ASSUME HookBarrierAssumption == MaxRow \in Nat /\ Sizes \subseteq Nat \ {0}

VARIABLES
    stored,            \* rows stored so far: 1..stored
    watermark,         \* rows projected so far: 1..watermark
    pending,           \* the barrier's array of batches, sorted by first row
    release,           \* the releases at work
    deferred,          \* the release awaited by the projection run, or NoRelease
    queuedBatches,     \* every batch ever enqueued
    emitted,           \* how often the hook of each batch has been run
    contended          \* auxiliary: the barrier was used during a release

vars == <<stored, watermark, pending, release, deferred, queuedBatches, emitted, contended>>

-----------------------------------------------------------------------------
NoRelease == "none"
Rows == 1..MaxRow

(* A release is past the first at-1 elements of the array; kept is its     *)
(* list of batches to keep, and rest what releaseAll has still to emit.    *)
Idle == [active |-> FALSE, from |-> 0, to |-> 0, at |-> 1, kept |-> <<>>, rest |-> <<>>]

(* A release that awaits the hook of the batch it has just passed. *)
Awaiting(r, at, kept) == [r EXCEPT !.active = TRUE, !.at = at, !.kept = kept]
AwaitingAll(rest) == [Idle EXCEPT !.active = TRUE, !.rest = rest]

Active == {i \in Releases : release[i].active}

(* MUTANT: the last page is not clipped to the range. *)
BatchesUnclipped(from, to, size) ==
    {[from |-> from + i * size, to |-> from + (i + 1) * size - 1] :
        i \in 0..((to - from) \div size)}

(* buildProjectionMessageHookBatches: pages of the range, from its start.  *)
Batches(from, to, size) ==
    {[from |-> from + i * size,
      to |-> IF from + (i + 1) * size - 1 < to THEN from + (i + 1) * size - 1 ELSE to] :
        i \in 0..((to - from) \div size)}

(* enqueue: push, then sort by first row.  First rows differ, so there is  *)
(* one such array.                                                         *)
Enqueue(batches) ==
    {q \in SetToSeqs(ToSet(pending) \cup batches) :
        \A j, k \in DOMAIN q : j < k => q[j].from < q[k].from}

(* MUTANT: a batch is released by a range that contains its first row. *)
StartsIn(batch, from, to) == from <= batch.from /\ batch.from <= to

ContainedIn(batch, from, to) == from <= batch.from /\ batch.to <= to

-----------------------------------------------------------------------------
(* The elements of the array q that a release of a range has still to emit,*)
(* and those it keeps when it has passed over the first j-1 elements.      *)
Matches(r, q) == {j \in r.at..Len(q) : ContainedIn(q[j], r.from, r.to)}
Passed(r, q, j) == r.kept \o SubSeq(q, r.at, j - 1)

(* One turn of releaseCompletedRange, with the array q, until it awaits    *)
(* the next hook or ends.                                                  *)
EndOfRange(i, r, q) ==
    /\ pending' = Passed(r, q, Len(q) + 1)
    /\ release' = [release EXCEPT ![i] = Idle]
    /\ UNCHANGED emitted

EmitNext(i, r, q, j) ==
    /\ pending' = q
    /\ release' = [release EXCEPT ![i] = Awaiting(r, j + 1, Passed(r, q, j))]
    /\ emitted' = [emitted EXCEPT ![q[j].from] = @ + 1]

Turn(i, r, q) ==
    \/ Matches(r, q) = {} /\ EndOfRange(i, r, q)
    \/ \E j \in Matches(r, q) : (\A k \in Matches(r, q) : j <= k) /\ EmitNext(i, r, q, j)

(* releaseCompletedRange: nothing to do when the array is empty. *)
Release(i, from, to, q) ==
    IF q = <<>>
    THEN pending' = q /\ UNCHANGED <<release, emitted>>
    ELSE Turn(i, [Idle EXCEPT !.from = from, !.to = to], q)

(* MUTANT: the batches to emit are not taken out of the array first. *)
LeftInArray(q) == q

(* releaseAll takes the whole array before it emits anything. *)
TakenOut(q) == <<>>

TurnAll(i, rest, q) ==
    /\ pending' = q
    /\ IF rest = <<>>
       THEN release' = [release EXCEPT ![i] = Idle] /\ UNCHANGED emitted
       ELSE /\ release' = [release EXCEPT ![i] = AwaitingAll(Tail(rest))]
            /\ emitted' = [emitted EXCEPT ![Head(rest).from] = @ + 1]

-----------------------------------------------------------------------------
(* New rows are stored, and projected at once or not; the batches of the   *)
(* pages with new messages are queued, and released if all is projected.   *)
Ingest(k, size, inline, i) ==
    /\ stored + k <= MaxRow
    /\ i \in Releases \ Active
    /\ stored' = stored + k
    /\ watermark' = IF inline /\ watermark = stored THEN stored + k ELSE watermark
    /\ \E new \in SUBSET Batches(stored + 1, stored + k, size) : \E q \in Enqueue(new) :
          /\ queuedBatches' = queuedBatches \cup new
          /\ IF watermark' = stored'
             THEN Release(i, stored + 1, stored + k, q)
             ELSE pending' = q /\ UNCHANGED <<release, emitted>>
    /\ contended' = (contended \/ Active # {})
    /\ UNCHANGED deferred

(* A deferred run projects a page and then releases its range; the next    *)
(* run waits until this one has run its hooks.                             *)
ProjectPage(size, i) ==
    /\ deferred = NoRelease /\ watermark < stored
    /\ i \in Releases \ Active
    /\ watermark' = IF watermark + size < stored THEN watermark + size ELSE stored
    /\ Release(i, watermark + 1, watermark', pending)
    /\ deferred' = IF release'[i].active THEN i ELSE NoRelease
    /\ contended' = (contended \/ Active # {})
    /\ UNCHANGED <<stored, queuedBatches>>

(* A rebuild projects everything and then releases every batch. *)
RebuildAll(i) ==
    /\ deferred = NoRelease /\ pending # <<>>
    /\ i \in Releases \ Active
    /\ watermark' = stored
    /\ TurnAll(i, pending, TakenOut(pending))
    /\ deferred' = i
    /\ contended' = (contended \/ Active # {})
    /\ UNCHANGED <<stored, queuedBatches>>

(* A hook subprocess ends: the release that awaits it takes its next turn. *)
Resume(i) ==
    /\ release[i].active
    /\ IF release[i].to # 0
       THEN Turn(i, release[i], pending)
       ELSE TurnAll(i, release[i].rest, pending)
    /\ deferred' = IF deferred = i /\ ~release'[i].active THEN NoRelease ELSE deferred
    /\ UNCHANGED <<stored, watermark, queuedBatches, contended>>

-----------------------------------------------------------------------------
Init ==
    /\ stored = 0
    /\ watermark = 0
    /\ pending = <<>>
    /\ release = [i \in Releases |-> Idle]
    /\ deferred = NoRelease
    /\ queuedBatches = {}
    /\ emitted = [r \in Rows |-> 0]
    /\ contended = FALSE

Next ==
    \E i \in Releases :
        \/ \E k \in Rows, size \in Sizes, inline \in BOOLEAN : Ingest(k, size, inline, i)
        \/ \E size \in Sizes : ProjectPage(size, i)
        \/ RebuildAll(i)
        \/ Resume(i)

Spec == Init /\ [][Next]_vars

-----------------------------------------------------------------------------
Batch == {b \in [from : Rows, to : Rows] : b.from <= b.to}

ReleaseRecord ==
    [active : BOOLEAN, from : Nat, to : Nat, at : Nat \ {0},
     kept : Seq(Batch), rest : Seq(Batch)]

(* The shape of the barrier, its batches and the releases at work. *)
TypeOK ==
    /\ release \in [Releases -> ReleaseRecord]
    /\ stored \in 0..MaxRow /\ watermark \in 0..stored
    /\ pending \in Seq(Batch) /\ queuedBatches \subseteq Batch
    /\ deferred \in Releases \cup {NoRelease}
    /\ emitted \in [Rows -> Nat]

(* No hook runs before all rows of its batch have been projected, so that  *)
(* a hook can look its message up, whichever projection releases it.       *)
EmittedIsProjected ==
    \A b \in queuedBatches : emitted[b.from] > 0 => b.to <= watermark

Held(b) ==
    \/ b \in ToSet(pending)
    \/ \E i \in Releases : b \in ToSet(release[i].kept) \cup ToSet(release[i].rest)

(* As long as the barrier is left alone while a release awaits a hook,     *)
(* every hook is run once or still held: never lost, never run twice.      *)
ConservedWhenAlone ==
    contended \/ \A b \in queuedBatches :
                    emitted[b.from] <= 1 /\ (emitted[b.from] = 0 => Held(b))
=============================================================================
