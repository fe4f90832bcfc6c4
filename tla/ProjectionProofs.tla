-------------------------- MODULE ProjectionProofs --------------------------
(***************************************************************************)
(* Proofs about Projection, for any number of workers and rows and any     *)
(* page size.  The invariant IInv says what a process may be in the middle *)
(* of (Inv), that whatever is laid out starts right above the watermark or *)
(* below it unless a reset rewound the watermark under it (Laid), that the *)
(* watermark and the pages read lie within the rows there are (Inside),    *)
(* and that a replay in the daemon leaves nothing (DaemonReplay).  With    *)
(* these a committed page leaves no row behind (Covered) and every backlog *)
(* has somebody to project it (BacklogIsAttended).                         *)
(***************************************************************************)
EXTENDS Projection, FiniteSetTheorems, TLAPS

(* What a process may be in the middle of. *)
Shape(s, R) ==
    /\ s.pc \in {"read", "commit", "finish"} => s.mode \in {"realtime", "deferred", "rebuild"}
    /\ s.pc = "idle" => s.mode = "none"
    /\ s.mode = "rebuild" => s.to = MaxRow
    /\ s.clear => s.mode = "rebuild" /\ s.from = 1
    /\ s.last <= MaxRow /\ s.seen <= MaxRow
    /\ s.pc = "commit" => s.clear \/ s.last # 0
    /\ s.pc # "commit" => s.last = 0
    /\ s.last = 0 => s.page = {}
    /\ s.page \subseteq R

(* A queued or running replay replays everything. *)
Whole(run) == run.kind = "rebuild" => run = Rebuild

Inv ==
    /\ TypeOK
    /\ \A p \in Procs : Shape(projector[p], rows)
    /\ \A q \in queue \cup {running.run} : Whole(q)

(* Only the daemon projects what it has just stored. *)
WorkersDefer == \A w \in Workers : projector[w].mode # "realtime"

(* A page read has all rows of its range, and was read at the watermark w  *)
(* or below it; what is left of a queued range starts right above w or     *)
(* below.                                                                  *)
PageIsWhole(s, w, R) ==
    s.pc = "commit" =>
        /\ s.seen <= w
        /\ \A r \in R : s.from <= r /\ r <= s.last => r \in s.page

StartsLow(s, w) ==
    s.mode \in {"deferred", "rebuild"} /\ s.pc # "idle" =>
        \/ s.from <= w + 1
        \/ s.pc = "finish" /\ s.from > s.to

ProcsLow ==
    \A p \in Procs : /\ StartsLow(projector[p], watermark)
                    /\ PageIsWhole(projector[p], watermark, rows)

QueueLow ==
    /\ \A q \in queue : q.from <= watermark + 1
    /\ running.run.from <= watermark + 1 /\ running.next <= watermark + 1

Laid == ~overtaken => QueueLow /\ ProcsLow

(* The watermark and the pages read stay within the rows there are. *)
Placed(s, R) == s.pc = "commit" => s.last \in R \cup {0}

WithinRows ==
    /\ \E t \in rows \cup {0} : watermark <= t
    /\ \A p \in Procs : Placed(projector[p], rows)

Inside == ~overtaken /\ projector[Daemon].mode # "reset" => WithinRows

(* A replay in the daemon, beside which no row is stored, leaves nothing.  *)
DaemonReplay ==
    projector[Daemon].mode = "rebuild" =>
        /\ (projector[Daemon].pc = "commit" => \A r \in rows : r <= projector[Daemon].last)
        /\ (projector[Daemon].pc = "read" => projector[Daemon].clear \/ ~Backlog)
        /\ (projector[Daemon].pc = "finish" => ~Backlog)

(* The inductive invariant. *)
IInv == Inv /\ WorkersDefer /\ Laid /\ Inside /\ Covered /\ DaemonReplay /\ BacklogIsAttended

-----------------------------------------------------------------------------
LEMMA ChosenIsMember ==
    ASSUME NEW S, S # {} PROVE (CHOOSE w \in S : TRUE) \in S
BY Zenon

(* What a projection starts from. *)
LEMMA ProjectingType ==
    ASSUME NEW mode \in {"realtime", "deferred", "rebuild"},
           NEW from \in Nat, NEW to \in Nat, NEW s, s = Projecting(mode, from, to)
    PROVE  /\ s \in Projector
           /\ s.mode = mode /\ s.pc = "read" /\ s.from = from /\ s.to = to
           /\ s.last = 0 /\ s.page = {} /\ s.seen = 0
           /\ s.clear = (mode = "rebuild")
BY DEF Projecting, Idle, Projector

LEMMA IdleType ==
    /\ Idle \in Projector /\ Idle.mode = "none" /\ Idle.pc = "idle"
    /\ Idle.last = 0 /\ Idle.page = {} /\ Idle.clear = FALSE /\ Idle.seen = 0
BY DEF Idle, Projector

LEMMA RunTypes ==
    /\ MaxRow \in Nat
    /\ Rebuild \in Run /\ Rebuild.kind = "rebuild" /\ Rebuild.from = 1 /\ Rebuild.to = MaxRow
    /\ \A a, b \in Nat : /\ Project(a, b) \in Run /\ Project(a, b).kind = "project"
                         /\ Project(a, b).from = a /\ Project(a, b).to = b
    /\ NotRunning.worker = NoWorker /\ NotRunning.run = Rebuild
    /\ NotRunning.finished = FALSE /\ NotRunning.next = 0
    /\ NotRunning \in [worker : Workers \cup {NoWorker}, run : Run, finished : BOOLEAN, next : Nat]
BY ProjectionAssumption DEF Rebuild, Project, Run, NotRunning

(* One process moves, the others do not. *)
LEMMA OneMoves ==
    ASSUME TypeOK, NEW p \in Procs, NEW s \in Projector,
           projector' = [projector EXCEPT ![p] = s]
    PROVE  /\ projector' \in [Procs -> Projector]
           /\ projector'[p] = s
           /\ \A q \in Procs : q # p => projector'[q] = projector[q]
BY DEF TypeOK

-----------------------------------------------------------------------------
(* The queue: what is queued is a range that starts right above the        *)
(* watermark, or what was queued before.                                   *)
LEMMA ClampFact ==
    ASSUME TypeOK, NEW run \in Run, NEW s \in Clamp(run)
    PROVE  /\ s \in Run /\ s.kind = "project"
           /\ s.from = Larger(run.from, watermark + 1)
BY DEF TypeOK, Clamp, Project, Run, Larger

LEMMA MergeFact ==
    ASSUME TypeOK, NEW o \in Run, NEW n \in Run, NEW s \in MergeRuns(o, n)
    PROVE  /\ s \in Run /\ s.kind = "project"
           /\ o.from <= watermark + 1 /\ n.from <= watermark + 1 => s.from <= watermark + 1
BY ClampFact, RunTypes DEF MergeRuns, Smaller, Larger, Run, TypeOK, Project

LEMMA QueueFact ==
    ASSUME TypeOK, NEW Q \in SUBSET Run, NEW run \in Run, NEW R \in QueueTo(Q, run)
    PROVE  /\ R \subseteq Run
           /\ \A q \in R : q \in Q \/ q.kind = "project"
           /\ (\A q \in Q : q.from <= watermark + 1) /\ run.from <= watermark + 1
                 => \A q \in R : q.from <= watermark + 1
           /\ Q # {} => R # {}
           /\ run.from <= watermark + 1 /\ watermark < run.to => R # {}
<1> DEFINE queued == {q \in Q : q.kind = "project"}
<1>1. CASE queued = {}
  <2>1. R = Q \cup Clamp(run)
    BY <1>1 DEF QueueTo
  <2>2. run.from <= watermark + 1 /\ watermark < run.to => Clamp(run) # {}
    <3>1. /\ run.from \in Nat /\ run.to \in Nat /\ watermark \in Nat
      BY RunTypes DEF Run, TypeOK
    <3>2. /\ Project(Larger(run.from, watermark + 1), run.to).from = Larger(run.from, watermark + 1)
          /\ Project(Larger(run.from, watermark + 1), run.to).to = run.to
      BY DEF Project
    <3>3. run.from <= watermark + 1 /\ watermark < run.to
            => Project(Larger(run.from, watermark + 1), run.to) \in Clamp(run)
      BY <3>1, <3>2 DEF Clamp, Larger
    <3> QED BY <3>3
  <2>3. run.from <= watermark + 1 => \A s \in Clamp(run) : s.from <= watermark + 1
    BY ClampFact DEF Larger, TypeOK, Run
  <2> QED BY <2>1, <2>2, <2>3, ClampFact
<1>2. CASE queued # {}
  <2>1. PICK o \in queued :
           R = IF MergeRuns(o, run) = {} THEN Q ELSE (Q \ {o}) \cup MergeRuns(o, run)
    BY <1>2 DEF QueueTo
  <2>2. CASE MergeRuns(o, run) = {}
    BY <2>1, <2>2
  <2>3. CASE MergeRuns(o, run) # {}
    BY <2>1, <2>3, MergeFact
  <2> QED BY <2>2, <2>3
<1> QED BY <1>1, <1>2

-----------------------------------------------------------------------------
(* What reading and committing a page change. *)
LEMMA ReadFact ==
    ASSUME Inv, NEW p \in Procs, ReadPage(p)
    PROVE  /\ projector' \in [Procs -> Projector]
           /\ \A q \in Procs : q # p => projector'[q] = projector[q]
           /\ projector[p].pc = "read"
           /\ projector'[p].mode = projector[p].mode
           /\ projector'[p].to = projector[p].to
           /\ projector'[p].clear = projector[p].clear
           /\ projector'[p].seen = watermark
           /\ \/ /\ projector'[p].pc = "commit"
                 /\ projector'[p].from = projector[p].from
                 /\ projector'[p].last \in Rowids
                 /\ PageEnds(p, projector'[p].last)
                 /\ projector'[p].page = Within(projector[p].from, projector'[p].last)
              \/ /\ Within(projector[p].from, projector[p].to) = {}
                 /\ projector'[p].last = 0 /\ projector'[p].page = {}
                 /\ projector[p].clear => /\ projector'[p].pc = "commit"
                                          /\ projector'[p].from = projector[p].from
                 /\ ~projector[p].clear => /\ projector'[p].pc = "finish"
                                           /\ projector'[p].from = projector[p].to + 1
<1> DEFINE s == projector[p]
<1>1. s \in Projector /\ watermark \in Nat /\ rows \subseteq Rowids
  BY RunTypes DEF Inv, TypeOK
<1>2. s.pc = "read" /\ s.last = 0 /\ s.page = {}
  BY DEF Inv, Shape, ReadPage
<1>3. CASE \E l \in Rowids :
             /\ PageEnds(p, l)
             /\ projector' = [projector EXCEPT
                   ![p].pc = "commit", ![p].page = Within(projector[p].from, l),
                   ![p].last = l, ![p].seen = watermark]
  <2>1. PICK l \in Rowids :
             /\ PageEnds(p, l)
             /\ projector' = [projector EXCEPT
                   ![p].pc = "commit", ![p].page = Within(projector[p].from, l),
                   ![p].last = l, ![p].seen = watermark]
    BY <1>3
  <2> DEFINE n == [s EXCEPT !.pc = "commit", !.page = Within(s.from, l),
                            !.last = l, !.seen = watermark]
  <2>2. projector' = [projector EXCEPT ![p] = n]
    BY <2>1 DEF Inv, TypeOK
  <2>3. Within(s.from, l) \in SUBSET Rowids
    BY <1>1 DEF Within
  <2>4. l \in Nat
    BY DEF Rowids
  <2>5. /\ n \in Projector
        /\ n.pc = "commit" /\ n.page = Within(s.from, l) /\ n.last = l /\ n.seen = watermark
        /\ n.mode = s.mode /\ n.from = s.from /\ n.to = s.to /\ n.clear = s.clear
    <3>1. n = [s EXCEPT !.pc = "commit", !.page = Within(s.from, l),
                        !.last = l, !.seen = watermark]
      OBVIOUS
    <3> HIDE DEF s, n
    <3> QED BY <1>1, <2>3, <2>4, <3>1 DEF Projector
  <2> HIDE DEF n
  <2>6. /\ projector' \in [Procs -> Projector] /\ projector'[p] = n
        /\ \A q \in Procs : q # p => projector'[q] = projector[q]
    BY <2>2, <2>5, OneMoves DEF Inv
  <2> QED BY <1>2, <2>1, <2>5, <2>6
<1>4. CASE /\ Within(s.from, s.to) = {}
           /\ projector' = [projector EXCEPT
                ![p].pc = IF projector[p].clear THEN "commit" ELSE "finish",
                ![p].from = IF projector[p].clear THEN @ ELSE projector[p].to + 1,
                ![p].seen = watermark]
  <2> DEFINE pc == IF s.clear THEN "commit" ELSE "finish"
             from == IF s.clear THEN s.from ELSE s.to + 1
             n == [s EXCEPT !.pc = pc, !.from = from, !.seen = watermark]
  <2>2. projector' = [projector EXCEPT ![p] = n]
    BY <1>4 DEF Inv, TypeOK
  <2>3. /\ pc \in {"commit", "finish"} /\ from \in Nat
        /\ s.clear => pc = "commit" /\ from = s.from
        /\ ~s.clear => pc = "finish" /\ from = s.to + 1
    BY <1>1 DEF Projector
  <2>4. /\ n \in Projector /\ n.pc = pc /\ n.from = from /\ n.seen = watermark
        /\ n.mode = s.mode /\ n.to = s.to /\ n.clear = s.clear
        /\ n.last = s.last /\ n.page = s.page
    <3>1. n = [s EXCEPT !.pc = pc, !.from = from, !.seen = watermark]
      OBVIOUS
    <3> HIDE DEF s, pc, from, n
    <3> QED BY <1>1, <2>3, <3>1 DEF Projector
  <2> HIDE DEF n, pc, from
  <2>5. /\ projector' \in [Procs -> Projector] /\ projector'[p] = n
        /\ \A q \in Procs : q # p => projector'[q] = projector[q]
    BY <2>2, <2>4, OneMoves DEF Inv
  <2> QED BY <1>2, <1>4, <2>3, <2>4, <2>5
<1> QED BY <1>3, <1>4 DEF ReadPage

LEMMA CommitFact ==
    ASSUME Inv, NEW p \in Procs, CommitPage(p)
    PROVE  /\ projector' \in [Procs -> Projector]
           /\ \A q \in Procs : q # p => projector'[q] = projector[q]
           /\ projector[p].pc = "commit"
           /\ projector[p].mode \in {"realtime", "deferred", "rebuild"}
           /\ projector'[p].mode = projector[p].mode
           /\ projector'[p].to = projector[p].to
           /\ projector'[p].from = projector[p].last + 1
           /\ projector'[p].last = 0 /\ projector'[p].page = {}
           /\ projector'[p].seen = 0 /\ projector'[p].clear = FALSE
           /\ projector'[p].pc \in {"read", "finish"}
           /\ projector[p].mode = "rebuild" /\ projector[p].last # 0 => projector'[p].pc = "read"
<1> DEFINE s == projector[p]
           pc == IF \/ s.mode = "deferred" \/ s.last = 0
                    \/ s.mode = "realtime" /\ s.to <= s.last
                 THEN "finish" ELSE "read"
           n == [s EXCEPT !.pc = pc, !.from = s.last + 1, !.last = 0, !.page = {},
                          !.seen = 0, !.clear = FALSE]
<1>1. s \in Projector /\ s.last + 1 \in Nat
  BY DEF Inv, TypeOK, Projector
<1>2. s.pc = "commit" /\ s.mode \in {"realtime", "deferred", "rebuild"}
  BY DEF Inv, Shape, CommitPage
<1>3. projector' = [projector EXCEPT ![p] = n]
  BY DEF Inv, TypeOK, CommitPage
<1>4. /\ pc \in {"read", "finish"}
      /\ s.mode = "rebuild" /\ s.last # 0 => pc = "read"
  OBVIOUS
<1>5. /\ n \in Projector /\ n.pc = pc /\ n.from = s.last + 1 /\ n.last = 0 /\ n.page = {}
      /\ n.seen = 0 /\ n.clear = FALSE /\ n.mode = s.mode /\ n.to = s.to
  <2>1. n = [s EXCEPT !.pc = pc, !.from = s.last + 1, !.last = 0, !.page = {},
                      !.seen = 0, !.clear = FALSE]
    OBVIOUS
  <2> HIDE DEF s, pc, n
  <2> QED BY <1>1, <1>4, <2>1 DEF Projector
<1> HIDE DEF n, pc
<1>6. /\ projector' \in [Procs -> Projector] /\ projector'[p] = n
      /\ \A q \in Procs : q # p => projector'[q] = projector[q]
  BY <1>3, <1>5, OneMoves DEF Inv
<1> QED BY <1>2, <1>4, <1>5, <1>6

(* The watermark after a page: not lower, and not above the page. *)
LEMMA WatermarkFact ==
    ASSUME Inv, NEW p \in Procs, CommitPage(p)
    PROVE  /\ watermark' \in 0..MaxRow /\ watermark <= watermark'
           /\ watermark' \in {watermark, projector[p].seen, projector[p].last}
           /\ projector[p].mode \in {"deferred", "rebuild"} => projector[p].last <= watermark'
           /\ projector[p].mode = "realtime" /\ watermark' # watermark
                 => projector[p].from = projector[p].seen + 1
<1> DEFINE s == projector[p]
<1>1. /\ s \in Projector /\ watermark \in Nat /\ watermark <= MaxRow /\ MaxRow \in Nat
      /\ s.last \in Nat /\ s.seen \in Nat /\ s.from \in Nat
  BY RunTypes DEF Inv, TypeOK, Projector
<1>2. s.last <= MaxRow /\ s.seen <= MaxRow
  BY DEF Inv, Shape
<1>3. s.mode \in {"realtime", "deferred", "rebuild"}
  BY CommitFact
<1>4. Target(p) = {} => watermark' = watermark
  BY DEF CommitPage
<1>5. Target(p) # {} => \E w \in Target(p) : watermark' = Larger(watermark, w)
  BY ChosenIsMember DEF CommitPage, UpsertProjectionState
<1>6. CASE s.mode = "rebuild"
  <2>1. Target(p) = {s.last}
    BY <1>6 DEF Target
  <2>2. watermark' = Larger(watermark, s.last)
    BY <2>1, <1>5
  <2> QED BY <2>2, <1>1, <1>2, <1>6 DEF Larger
<1>7. CASE s.mode = "deferred"
  <2>1. Target(p) = {Larger(s.seen, s.last)}
    BY <1>7 DEF Target
  <2>2. watermark' = Larger(watermark, Larger(s.seen, s.last))
    BY <2>1, <1>5
  <2> QED BY <2>2, <1>1, <1>2, <1>7 DEF Larger
<1>8. CASE s.mode = "realtime"
  <2>1. Target(p) = {w \in {Larger(s.seen, s.last)} : s.from = s.seen + 1}
    BY <1>8 DEF Target
  <2>2. CASE s.from = s.seen + 1
    <3>1. watermark' = Larger(watermark, Larger(s.seen, s.last))
      BY <2>1, <2>2, <1>5
    <3> QED BY <3>1, <2>2, <1>1, <1>2, <1>8 DEF Larger
  <2>3. CASE s.from # s.seen + 1
    <3>1. watermark' = watermark
      BY <2>1, <2>3, <1>4
    <3> QED BY <3>1, <1>1, <1>8
  <2> QED BY <2>2, <2>3
<1> QED BY <1>3, <1>6, <1>7, <1>8

-----------------------------------------------------------------------------
(* Inv in three parts, each preserved on its own. *)
ProcsOK == /\ projector \in [Procs -> Projector]
           /\ \A p \in Procs : Shape(projector[p], rows)

RunningType == [worker : Workers \cup {NoWorker}, run : Run, finished : BOOLEAN, next : Nat]

QueueOK == /\ queue \subseteq Run /\ running \in RunningType
           /\ \A q \in queue : Whole(q)
           /\ Whole(running.run)

TablesOK == /\ rows \subseteq Rowids /\ applied \subseteq rows /\ watermark \in 0..MaxRow
            /\ ready \in BOOLEAN /\ syncing \in BOOLEAN
            /\ cut \in BOOLEAN /\ overtaken \in BOOLEAN /\ unattended \in BOOLEAN
            /\ disruptions \in 0..MaxDisruptions

LEMMA InvParts == Inv <=> ProcsOK /\ QueueOK /\ TablesOK
BY DEF Inv, ProcsOK, QueueOK, RunningType, TablesOK, TypeOK

LEMMA InvPartsNext == Inv' <=> ProcsOK' /\ QueueOK' /\ TablesOK'
BY DEF Inv, ProcsOK, QueueOK, RunningType, TablesOK, TypeOK

(* A process that moves to a state of the right shape. *)
LEMMA ShapeMoves ==
    ASSUME Inv, NEW p \in Procs, NEW s \in Projector, rows \subseteq rows',
           projector' = [projector EXCEPT ![p] = s], Shape(s, rows')
    PROVE  ProcsOK'
<1>1. /\ projector' \in [Procs -> Projector] /\ projector'[p] = s
      /\ \A q \in Procs : q # p => projector'[q] = projector[q]
  BY OneMoves DEF Inv
<1>2. \A q \in Procs : Shape(projector[q], rows)
  BY DEF Inv
<1>3. \A q \in Procs : q # p => Shape(projector'[q], rows')
  BY <1>1, <1>2 DEF Shape
<1> QED BY <1>1, <1>3 DEF ProcsOK

LEMMA IdleShape == ASSUME NEW R PROVE Shape(Idle, R)
BY IdleType, RunTypes DEF Shape

LEMMA ProjectingShape ==
    ASSUME NEW mode \in {"realtime", "deferred", "rebuild"}, NEW from \in Nat, NEW to \in Nat,
           mode = "rebuild" => from = 1 /\ to = MaxRow, NEW R
    PROVE  Projecting(mode, from, to) \in Projector /\ Shape(Projecting(mode, from, to), R)
<1> DEFINE s == Projecting(mode, from, to)
<1> HIDE DEF s
<1>1. s = Projecting(mode, from, to)
  BY DEF s
<1>2. /\ s \in Projector
      /\ s.mode = mode /\ s.pc = "read" /\ s.from = from /\ s.to = to
      /\ s.last = 0 /\ s.page = {} /\ s.seen = 0
      /\ s.clear = (mode = "rebuild")
  BY <1>1, ProjectingType
<1>3. Shape(s, R)
  BY <1>2, RunTypes DEF Shape
<1> QED BY <1>1, <1>2, <1>3

(* Actions that leave the processes alone. *)
LEMMA ProcsStay ==
    ASSUME Inv, UNCHANGED <<projector, rows>>
    PROVE  ProcsOK'
BY InvParts DEF ProcsOK, Shape

LEMMA QueueStays ==
    ASSUME Inv, UNCHANGED <<queue, running>>
    PROVE  QueueOK'
BY InvParts DEF QueueOK, Whole

LEMMA QueueBacklogType ==
    ASSUME Inv, NEW t \in Nat, QueueBacklog(t), UNCHANGED running
    PROVE  QueueOK' /\ unattended' \in BOOLEAN
<1>1. CASE queue' \in QueueTo(queue, Project(watermark + 1, t)) /\ unattended' = FALSE
  <2>1. Project(watermark + 1, t) \in Run
    BY RunTypes DEF Inv, TypeOK
  <2>2. queue' \subseteq Run /\ \A q \in queue' : q \in queue \/ q.kind = "project"
    BY <1>1, <2>1, QueueFact DEF Inv, TypeOK
  <2> QED BY <1>1, <2>2, InvParts DEF QueueOK, Whole
<1>2. CASE unattended' = TRUE /\ UNCHANGED queue
  BY <1>2, QueueStays
<1> QED BY <1>1, <1>2 DEF QueueBacklog

LEMMA TopType ==
    ASSUME Inv, NEW t, IsTop(t)
    PROVE  t \in 0..MaxRow
BY RunTypes DEF Inv, TypeOK, IsTop, Rowids

LEMMA ReadShape ==
    ASSUME Inv, NEW p \in Procs, ReadPage(p) PROVE ProcsOK'
<1>0. UNCHANGED rows
  BY DEF ReadPage
<1>1. watermark <= MaxRow /\ rows \subseteq Rowids /\ MaxRow \in Nat
  BY RunTypes DEF Inv, TypeOK
<1>2. \A q \in Procs : Shape(projector[q], rows)
  BY DEF Inv
<1>3. Shape(projector'[p], rows)
  <2>1. Shape(projector[p], rows) /\ projector[p].pc = "read"
    BY <1>2, ReadFact
  <2>2. /\ projector'[p].mode = projector[p].mode /\ projector'[p].to = projector[p].to
        /\ projector'[p].clear = projector[p].clear /\ projector'[p].seen = watermark
    BY ReadFact
  <2>3. CASE /\ projector'[p].pc = "commit" /\ projector'[p].from = projector[p].from
             /\ projector'[p].last \in Rowids
             /\ projector'[p].page = Within(projector[p].from, projector'[p].last)
    BY <1>1, <2>1, <2>2, <2>3 DEF Shape, Within, Rowids
  <2>4. CASE /\ projector'[p].last = 0 /\ projector'[p].page = {}
             /\ projector[p].clear => projector'[p].pc = "commit" /\ projector'[p].from = projector[p].from
             /\ ~projector[p].clear => projector'[p].pc = "finish"
    BY <1>1, <2>1, <2>2, <2>4 DEF Shape
  <2> QED BY <2>3, <2>4, ReadFact
<1> QED BY <1>0, <1>2, <1>3, ReadFact DEF ProcsOK

LEMMA CommitShape ==
    ASSUME Inv, NEW p \in Procs, CommitPage(p) PROVE ProcsOK'
<1>1. UNCHANGED rows /\ MaxRow \in Nat
  BY RunTypes DEF CommitPage
<1>2. \A q \in Procs : Shape(projector[q], rows)
  BY DEF Inv
<1>3. Shape(projector'[p], rows)
  <2> DEFINE s == projector[p]
             n == projector'[p]
  <2>1. Shape(s, rows) /\ s.mode \in {"realtime", "deferred", "rebuild"}
    BY <1>2, CommitFact
  <2>2. /\ n.mode = s.mode /\ n.to = s.to /\ n.last = 0 /\ n.page = {}
        /\ n.seen = 0 /\ n.clear = FALSE /\ n.pc \in {"read", "finish"}
    BY CommitFact
  <2> HIDE DEF s, n
  <2>3. Shape(n, rows)
    BY <1>1, <2>1, <2>2 DEF Shape
  <2> QED BY <2>3 DEF n
<1> QED BY <1>1, <1>2, <1>3, CommitFact DEF ProcsOK

LEMMA ResetShape ==
    ASSUME Inv, NEW S \in SUBSET rows, ResetRows(S) PROVE ProcsOK'
<1> DEFINE n(p) == [projector[p] EXCEPT !.page = @ \ S]
           d == [Idle EXCEPT !.mode = "reset", !.pc = "reset"]
<1>1. projector' = [p \in Procs |-> IF p = Daemon THEN d ELSE n(p)] /\ rows' = rows \ S
  BY DEF ResetRows
<1>2. d \in Projector /\ Shape(d, rows')
  <2> DEFINE i == Idle
  <2>1. /\ i \in Projector
        /\ i.last = 0 /\ i.page = {} /\ i.clear = FALSE /\ i.seen = 0
    BY IdleType
  <2>2. d = [i EXCEPT !.mode = "reset", !.pc = "reset"]
    OBVIOUS
  <2> HIDE DEF d, i
  <2>3. /\ d \in Projector /\ d.mode = "reset" /\ d.pc = "reset"
        /\ d.last = 0 /\ d.page = {} /\ d.clear = FALSE /\ d.seen = 0
    BY <2>1, <2>2 DEF Projector
  <2> QED BY <2>3, RunTypes DEF Shape
<1>3. ASSUME NEW p \in Procs PROVE n(p) \in Projector /\ Shape(n(p), rows')
  <2> DEFINE s == projector[p]
             m == [s EXCEPT !.page = @ \ S]
  <2>1. s \in Projector /\ Shape(s, rows)
    BY DEF Inv, TypeOK
  <2>2. m = [s EXCEPT !.page = s.page \ S]
    OBVIOUS
  <2> HIDE DEF s, m
  <2>3. /\ m \in Projector /\ m.page = s.page \ S
        /\ m.mode = s.mode /\ m.pc = s.pc /\ m.from = s.from /\ m.to = s.to
        /\ m.last = s.last /\ m.seen = s.seen /\ m.clear = s.clear
    BY <2>1, <2>2 DEF Projector
  <2>4. Shape(m, rows')
    BY <1>1, <2>1, <2>3 DEF Shape
  <2> QED BY <2>3, <2>4 DEF m, s
<1> HIDE DEF n, d
<1>4. \A p \in Procs : projector'[p] = IF p = Daemon THEN d ELSE n(p)
  BY <1>1
<1>5. projector' \in [Procs -> Projector]
  BY <1>1, <1>2, <1>3
<1> QED BY <1>1, <1>2, <1>3, <1>4, <1>5 DEF ProcsOK

(* A step that leaves the rows alone and at most moves bounded flags. *)
LEMMA TablesStay ==
    ASSUME Inv, UNCHANGED <<rows, applied, watermark>>,
           ready' \in BOOLEAN, syncing' \in BOOLEAN, cut' \in BOOLEAN,
           overtaken' \in BOOLEAN, unattended' \in BOOLEAN,
           disruptions' = disruptions \/ Disrupt
    PROVE  TablesOK'
<1>1. disruptions' \in 0..MaxDisruptions
  BY ProjectionAssumption DEF Inv, TypeOK, Disrupt
<1> QED BY <1>1, InvParts DEF TablesOK

LEMMA FlagTypes ==
    ASSUME Inv
    PROVE  /\ ready \in BOOLEAN /\ syncing \in BOOLEAN /\ cut \in BOOLEAN
           /\ overtaken \in BOOLEAN /\ unattended \in BOOLEAN
           /\ watermark \in Nat /\ watermark <= MaxRow
           /\ rows \subseteq Rowids /\ Daemon \in Procs /\ Workers \subseteq Procs
BY RunTypes DEF Inv, TypeOK, Procs

LEMMA InvInit == Init => Inv
<1> SUFFICES ASSUME Init PROVE Inv
  OBVIOUS
<1>1. ProcsOK
  BY IdleType, IdleShape DEF Init, ProcsOK
<1>2. QueueOK
  BY RunTypes DEF Init, QueueOK, RunningType, Whole
<1>3. TablesOK
  <2>1. 0 \in 0..MaxRow /\ 0 \in 0..MaxDisruptions
    BY ProjectionAssumption
  <2>2. rows \subseteq Rowids /\ applied \subseteq rows
    BY DEF Init
  <2>3. /\ ready \in BOOLEAN /\ syncing \in BOOLEAN
        /\ cut \in BOOLEAN /\ overtaken \in BOOLEAN /\ unattended \in BOOLEAN
    BY DEF Init
  <2>4. watermark = 0 /\ disruptions = 0
    BY DEF Init
  <2> QED BY <2>1, <2>2, <2>3, <2>4 DEF TablesOK
<1> QED BY <1>1, <1>2, <1>3, InvParts

LEMMA InvIngest ==
    ASSUME Inv, NEW k \in 1..MaxRow, Ingest(k) PROVE Inv'
<1>1. PICK t \in 0..MaxRow :
          /\ IsTop(t) /\ t + k <= MaxRow
          /\ rows' = rows \cup (t + 1)..(t + k)
          /\ \/ /\ projector' = [projector EXCEPT
                       ![Daemon] = Projecting("realtime", t + 1, t + k)]
                /\ UNCHANGED <<queue, unattended>>
             \/ /\ QueueBacklog(t + k)
                /\ UNCHANGED projector
  BY DEF Ingest
<1>2. /\ t \in Nat /\ k \in Nat /\ t + 1 \in Nat /\ t + k \in Nat
      /\ rows \subseteq rows' /\ rows' \subseteq Rowids
  BY <1>1, RunTypes, FlagTypes DEF Rowids
<1>3. UNCHANGED <<applied, watermark, running, ready, syncing, cut, overtaken, disruptions>>
  BY DEF Ingest
<1>4. CASE /\ projector' = [projector EXCEPT
                  ![Daemon] = Projecting("realtime", t + 1, t + k)]
           /\ UNCHANGED <<queue, unattended>>
  <2>1. ProcsOK'
    BY <1>2, <1>4, ShapeMoves, ProjectingShape, FlagTypes
  <2>2. QueueOK'
    BY <1>3, <1>4, QueueStays
  <2>3. TablesOK'
    BY <1>2, <1>3, <1>4, InvParts DEF TablesOK
  <2> QED BY <2>1, <2>2, <2>3, InvPartsNext
<1>5. CASE QueueBacklog(t + k) /\ UNCHANGED projector
  <2>1. ProcsOK'
    BY <1>2, <1>5, InvParts DEF ProcsOK, Shape
  <2>2. QueueOK' /\ unattended' \in BOOLEAN
    BY <1>2, <1>3, <1>5, QueueBacklogType
  <2>3. TablesOK'
    BY <1>2, <1>3, <2>2, InvParts DEF TablesOK
  <2> QED BY <2>1, <2>2, <2>3, InvPartsNext
<1> QED BY <1>1, <1>4, <1>5

LEMMA InvStartRun ==
    ASSUME Inv, NEW w \in Workers, StartRun(w) PROVE Inv'
<1>1. PICK q \in queue :
          /\ queue' = queue \ {q}
          /\ running' = [NotRunning EXCEPT !.worker = w, !.run = q]
          /\ projector' = [projector EXCEPT
                ![w] = Projecting(IF q.kind = "rebuild" THEN "rebuild" ELSE "deferred",
                                  q.from, q.to)]
  BY DEF StartRun
<1>2. UNCHANGED <<rows, applied, watermark, ready, syncing, cut, overtaken,
                  unattended, disruptions>>
  BY DEF StartRun
<1>3. q \in Run /\ Whole(q) /\ q.from \in Nat /\ q.to \in Nat
  BY DEF Inv, TypeOK, Run
<1>4. ProcsOK'
  <2> DEFINE mode == IF q.kind = "rebuild" THEN "rebuild" ELSE "deferred"
             s == Projecting(mode, q.from, q.to)
  <2>1. mode \in {"realtime", "deferred", "rebuild"}
    OBVIOUS
  <2>2. mode = "rebuild" => q.from = 1 /\ q.to = MaxRow
    BY <1>3, RunTypes DEF Whole
  <2>3. s \in Projector /\ Shape(s, rows')
    BY <1>3, <2>1, <2>2, ProjectingShape
  <2>4. projector' = [projector EXCEPT ![w] = s]
    BY <1>1
  <2> HIDE DEF s
  <2> QED BY <1>2, <2>3, <2>4, ShapeMoves, FlagTypes
<1>5. QueueOK'
  <2>1. running' = [worker |-> w, run |-> q, finished |-> FALSE, next |-> 0]
    BY <1>1 DEF NotRunning
  <2>2. running' \in RunningType /\ running'.run = q
    <3>1. q \in Run /\ w \in Workers
      BY <1>3
    <3> QED BY <2>1, <3>1 DEF RunningType
  <2>3. queue' \subseteq Run /\ \A r \in queue' : Whole(r)
    BY <1>1, InvParts DEF QueueOK
  <2> QED BY <1>3, <2>2, <2>3 DEF QueueOK, Whole
<1>6. TablesOK'
  BY <1>2, FlagTypes, TablesStay
<1> QED BY <1>4, <1>5, <1>6, InvPartsNext

LEMMA InvFinishRun ==
    ASSUME Inv, NEW w \in Workers, FinishRun(w) PROVE Inv'
<1>1. ProcsOK'
  BY ShapeMoves, IdleType, IdleShape, FlagTypes DEF FinishRun
<1>2. QueueOK'
  <2> DEFINE next == IF projector[w].from <= projector[w].to THEN projector[w].from ELSE 0
  <2>1. next \in Nat
    BY FlagTypes DEF Inv, TypeOK, Projector
  <2>2. /\ running' = IF running.worker = w
                      THEN [running EXCEPT !.finished = TRUE, !.next = next] ELSE running
        /\ UNCHANGED queue
    BY DEF FinishRun
  <2> HIDE DEF next
  <2>3. running' \in RunningType /\ running'.run = running.run
    BY <2>1, <2>2, InvParts DEF QueueOK, RunningType
  <2> QED BY <2>2, <2>3, InvParts DEF QueueOK, Whole
<1>3. TablesOK'
  BY FlagTypes, TablesStay DEF FinishRun
<1> QED BY <1>1, <1>2, <1>3, InvPartsNext

LEMMA InvRunDone ==
    ASSUME Inv, RunDone PROVE Inv'
<1>1. ProcsOK'
  BY ProcsStay DEF RunDone
<1>2. QueueOK' /\ unattended' \in BOOLEAN
  <2>1. running' \in RunningType /\ Whole(running'.run)
    BY RunTypes DEF RunDone, RunningType, Whole
  <2>2. CASE \E t \in rows \cup {0} :
               IsTop(t) /\ queue' \in Continuation(t) /\ unattended' = FALSE
    <3>1. PICK t \in rows \cup {0} : queue' \in Continuation(t) /\ IsTop(t)
      BY <2>2
    <3>2. t \in Nat
      BY <3>1, TopType
    <3>3. PICK Q \in IF running.next # 0 /\ running.run.kind = "project"
                     THEN QueueTo(queue, Project(running.next, running.run.to))
                     ELSE {queue} :
             queue' \in QueueTo(Q, Project(watermark + 1, t))
      BY <3>1 DEF Continuation
    <3>4. /\ Project(running.next, running.run.to) \in Run
          /\ Project(watermark + 1, t) \in Run
      BY <3>2, RunTypes, FlagTypes, InvParts DEF QueueOK, RunningType, Run
    <3>5. Q \subseteq Run /\ \A q \in Q : Whole(q)
      BY <3>3, <3>4, QueueFact, InvParts DEF QueueOK, Whole, Inv
    <3>6. queue' \subseteq Run /\ \A q \in queue' : Whole(q)
      BY <3>3, <3>4, <3>5, QueueFact DEF Whole, Inv
    <3> QED BY <2>1, <2>2, <3>6 DEF QueueOK, Whole
  <2>3. CASE unattended' = TRUE /\ UNCHANGED queue
    BY <2>1, <2>3, InvParts DEF QueueOK, Whole
  <2> QED BY <2>2, <2>3 DEF RunDone
<1>3. TablesOK'
  BY <1>2, FlagTypes, TablesStay DEF RunDone
<1> QED BY <1>1, <1>2, <1>3, InvPartsNext

LEMMA InvCommit ==
    ASSUME Inv, NEW p \in Procs, CommitPage(p) PROVE Inv'
<1>1. QueueOK'
  BY QueueStays DEF CommitPage
<1>2. TablesOK'
  <2>1. projector[p].page \subseteq rows /\ projector[p].clear \in BOOLEAN
    BY DEF Inv, TypeOK, Shape, Projector
  <2>2. /\ applied' = (IF projector[p].clear THEN {} ELSE applied) \cup projector[p].page
        /\ cut' = IF projector[p].clear THEN projector[p].page = {} /\ rows # {} ELSE cut
        /\ UNCHANGED <<rows, ready, syncing, overtaken, unattended, disruptions>>
    BY DEF CommitPage
  <2>3. applied' \subseteq rows
    BY <2>1, <2>2, InvParts DEF TablesOK
  <2>4. cut' \in BOOLEAN
    BY <2>1, <2>2, FlagTypes
  <2> QED BY <2>2, <2>3, <2>4, WatermarkFact, InvParts DEF TablesOK
<1> QED BY <1>1, <1>2, CommitShape, InvPartsNext

(* A failure: the process is idle again. *)
LEMMA InvFails ==
    ASSUME Inv, NEW p \in Procs, projector' = [projector EXCEPT ![p] = Idle],
           UNCHANGED <<rows, applied, watermark>>,
           ready' \in BOOLEAN, syncing' \in BOOLEAN, cut' \in BOOLEAN,
           overtaken' \in BOOLEAN, unattended' \in BOOLEAN,
           disruptions' = disruptions \/ Disrupt
    PROVE  ProcsOK' /\ TablesOK'
BY IdleType, IdleShape, ShapeMoves, TablesStay

LEMMA InvWorkerFails ==
    ASSUME Inv, NEW w \in Workers, WorkerFails(w) PROVE Inv'
<1>1. /\ projector' = [projector EXCEPT ![w] = Idle]
      /\ UNCHANGED <<rows, applied, watermark, queue, ready, syncing, overtaken>>
      /\ cut' = (cut \/ CutsRebuild(w)) /\ Disrupt
      /\ IF running.worker = w
         THEN running' = NotRunning /\ unattended' = TRUE
         ELSE UNCHANGED <<running, unattended>>
  BY DEF WorkerFails
<1>2. cut' \in BOOLEAN
  BY <1>1, FlagTypes
<1>3. unattended' \in BOOLEAN
  BY <1>1, FlagTypes
<1>4. ProcsOK' /\ TablesOK'
  BY <1>1, <1>2, <1>3, InvFails, FlagTypes
<1>5. QueueOK'
  BY <1>1, RunTypes, InvParts DEF QueueOK, RunningType, Whole
<1> QED BY <1>4, <1>5, InvPartsNext

LEMMA InvRestart ==
    ASSUME Inv, Restart PROVE Inv'
<1>1. /\ projector' = [projector EXCEPT ![Daemon] = Idle]
      /\ UNCHANGED <<rows, applied, watermark, unattended>>
      /\ ready' = FALSE /\ syncing' = FALSE /\ running' = NotRunning /\ Disrupt
      /\ queue' = IF running # NotRunning /\ ~running.finished
                THEN queue \cup {running.run} ELSE queue
      /\ cut' = (cut \/ CutsRebuild(Daemon))
      /\ overtaken' = (overtaken \/ projector[Daemon].mode = "reset")
  BY DEF Restart
<1>2. cut' \in BOOLEAN /\ overtaken' \in BOOLEAN
  BY <1>1, FlagTypes
<1>3. ProcsOK' /\ TablesOK'
  BY <1>1, <1>2, InvFails, FlagTypes
<1>4. running.run \in Run /\ Whole(running.run)
  BY InvParts DEF QueueOK, RunningType
<1>5. QueueOK'
  BY <1>1, <1>4, RunTypes, InvParts DEF QueueOK, RunningType, Whole
<1> QED BY <1>3, <1>5, InvPartsNext

LEMMA InvReset ==
    ASSUME Inv, NEW S \in SUBSET rows, ResetRows(S) PROVE Inv'
<1>1. TablesOK'
  <2>1. disruptions' \in 0..MaxDisruptions
    BY ProjectionAssumption, InvParts DEF TablesOK, ResetRows, Disrupt
  <2>2. rows' \subseteq Rowids /\ applied' \subseteq rows'
    BY InvParts DEF TablesOK, ResetRows
  <2> QED BY <2>1, <2>2, InvParts DEF TablesOK, ResetRows
<1>2. QueueOK'
  BY QueueStays DEF ResetRows
<1> QED BY <1>1, <1>2, ResetShape, InvPartsNext

(* The backlog is queued when a projection or the bootstrap is over. *)
LEMMA InvBacklog ==
    ASSUME Inv, UNCHANGED <<running, rows, watermark, applied, disruptions, syncing, cut, overtaken>>,
           ready' \in BOOLEAN,
           IF Backlog THEN \E t \in rows : IsTop(t) /\ QueueBacklog(t)
                      ELSE UNCHANGED <<queue, unattended>>
    PROVE  QueueOK' /\ TablesOK'
<1>1. QueueOK' /\ unattended' \in BOOLEAN
  <2>1. CASE Backlog
    <3>1. PICK t \in rows : IsTop(t) /\ QueueBacklog(t)
      BY <2>1
    <3>2. t \in Nat
      BY <3>1, TopType
    <3> QED BY <3>1, <3>2, QueueBacklogType
  <2>2. CASE ~Backlog
    BY <2>2, QueueStays, FlagTypes
  <2> QED BY <2>1, <2>2
<1>2. TablesOK'
  BY <1>1, FlagTypes, TablesStay
<1> QED BY <1>1, <1>2

LEMMA InvStep == Inv /\ [Next]_vars => Inv'
<1> SUFFICES ASSUME Inv, [Next]_vars PROVE Inv'
  OBVIOUS
<1> USE InvPartsNext
<1>1. CASE UNCHANGED vars
  BY <1>1, ProcsStay, QueueStays, TablesStay, FlagTypes DEF vars
<1>2. CASE StartSync
  BY <1>2, ProcsStay, QueueStays, TablesStay, FlagTypes DEF StartSync
<1>3. CASE EndSync
  BY <1>3, ProcsStay, QueueStays, TablesStay, FlagTypes DEF EndSync
<1>4. ASSUME NEW k \in 1..MaxRow, Ingest(k) PROVE Inv'
  BY <1>4, InvIngest
<1>5. CASE RealtimeDone
  <2>1. ProcsOK'
    BY <1>5, ShapeMoves, IdleType, IdleShape, FlagTypes DEF RealtimeDone
  <2>2. QueueOK' /\ TablesOK'
    BY <1>5, InvBacklog, FlagTypes DEF RealtimeDone
  <2> QED BY <2>1, <2>2
<1>6. CASE MergeContacts
  <2>1. Projecting("rebuild", 1, MaxRow) \in Projector /\ Shape(Projecting("rebuild", 1, MaxRow), rows')
    BY ProjectingShape, RunTypes
  <2>2. ProcsOK'
    BY <1>6, <2>1, ShapeMoves, FlagTypes DEF MergeContacts
  <2>3. QueueOK'
    BY <1>6, QueueStays DEF MergeContacts
  <2>4. TablesOK'
    BY <1>6, TablesStay, FlagTypes DEF MergeContacts
  <2> QED BY <2>2, <2>3, <2>4
<1>7. CASE MergeContactsDone
  BY <1>7, InvFails, QueueStays, FlagTypes DEF MergeContactsDone
<1>8. ASSUME NEW p \in Procs, ReadPage(p) PROVE Inv'
  <2>1. QueueOK'
    BY <1>8, QueueStays DEF ReadPage
  <2>2. TablesOK'
    BY <1>8, TablesStay, FlagTypes DEF ReadPage
  <2> QED BY <1>8, <2>1, <2>2, ReadShape
<1>9. ASSUME NEW p \in Procs, CommitPage(p) PROVE Inv'
  BY <1>9, InvCommit
<1>10. ASSUME NEW w \in Workers, StartRun(w) PROVE Inv'
  BY <1>10, InvStartRun
<1>11. ASSUME NEW w \in Workers, FinishRun(w) PROVE Inv'
  BY <1>11, InvFinishRun
<1>12. ASSUME NEW w \in Workers, WorkerFails(w) PROVE Inv'
  BY <1>12, InvWorkerFails
<1>13. CASE RunDone
  BY <1>13, InvRunDone
<1>14. CASE DaemonProjectionFails
  <2>1. cut' \in BOOLEAN
    BY <1>14, FlagTypes DEF DaemonProjectionFails
  <2>2. ProcsOK' /\ TablesOK'
    BY <1>14, <2>1, InvFails, FlagTypes DEF DaemonProjectionFails
  <2>3. QueueOK'
    BY <1>14, QueueStays DEF DaemonProjectionFails
  <2> QED BY <2>2, <2>3
<1>15. ASSUME NEW S \in SUBSET rows, ResetRows(S) PROVE Inv'
  BY <1>15, InvReset
<1>16. CASE ResetWatermark
  <2>1. ProcsOK'
    BY <1>16, ShapeMoves, IdleType, IdleShape, FlagTypes DEF ResetWatermark
  <2>2. QueueOK'
    BY <1>16, QueueStays DEF ResetWatermark
  <2>3. overtaken' \in BOOLEAN
    BY <1>16 DEF ResetWatermark
  <2>4. 0 \in 0..MaxRow
    BY RunTypes
  <2>5. TablesOK'
    BY <1>16, <2>3, <2>4, InvParts DEF ResetWatermark, TablesOK
  <2> QED BY <2>1, <2>2, <2>5
<1>17. CASE Restart
  BY <1>17, InvRestart
<1>18. CASE Bootstrap
  <2>1. ProcsOK'
    BY <1>18, ProcsStay DEF Bootstrap
  <2>2. QueueOK' /\ TablesOK'
    BY <1>18, InvBacklog DEF Bootstrap
  <2> QED BY <2>1, <2>2
<1>19. CASE QueueRebuild
  <2>1. ProcsOK'
    BY <1>19, ProcsStay DEF QueueRebuild
  <2>2. QueueOK'
    BY <1>19, RunTypes, InvParts DEF QueueRebuild, QueueOK, Whole
  <2>3. TablesOK'
    BY <1>19, TablesStay, FlagTypes DEF QueueRebuild
  <2> QED BY <2>1, <2>2, <2>3
<1> QED BY <1>1, <1>2, <1>3, <1>4, <1>5, <1>6, <1>7, <1>8, <1>9, <1>10, <1>11, <1>12,
           <1>13, <1>14, <1>15, <1>16, <1>17, <1>18, <1>19 DEF Next

-----------------------------------------------------------------------------
(* The tables, the queue, the run being processed and what every process   *)
(* holds keep their types, however processes fail and start again.         *)
THEOREM ProjectionTypeCorrect == Spec => []TypeOK
<1>1. Inv => TypeOK
  BY DEF Inv
<1> QED BY <1>1, InvInit, InvStep, PTL DEF Spec

(* Only a reset moves the watermark back, although every projector commits *)
(* a watermark computed from one it has read earlier.                      *)
THEOREM WatermarkAdvances == Spec => WatermarkOnlyAdvances
<1>1. Inv /\ [Next]_vars => [watermark' >= watermark \/ projector[Daemon].mode = "reset"]_vars
  <2> SUFFICES ASSUME Inv, Next
               PROVE  watermark' >= watermark \/ projector[Daemon].mode = "reset"
    OBVIOUS
  <2>0. watermark \in Nat
    BY FlagTypes
  <2>1. ASSUME NEW p \in Procs, CommitPage(p) PROVE watermark' >= watermark
    BY <2>0, <2>1, WatermarkFact
  <2>2. CASE ResetWatermark
    BY <2>2 DEF ResetWatermark
  <2>3. CASE UNCHANGED watermark
    BY <2>0, <2>3
  <2> QED BY <2>1, <2>2, <2>3
          DEF Next, StartSync, EndSync, Ingest, RealtimeDone, MergeContacts, MergeContactsDone,
              ReadPage, StartRun, FinishRun, WorkerFails, RunDone, DaemonProjectionFails,
              ResetRows, Restart, Bootstrap, QueueRebuild
<1> QED BY <1>1, InvInit, InvStep, PTL DEF Spec, WatermarkOnlyAdvances

-----------------------------------------------------------------------------
(* Nothing is laid out above the watermark but by a reset. *)
Low(s, w, R) == StartsLow(s, w) /\ PageIsWhole(s, w, R)

LEMMA IdleLow == ASSUME NEW w, NEW R PROVE Low(Idle, w, R)
BY IdleType DEF Low, StartsLow, PageIsWhole

LEMMA ProjectingLow ==
    ASSUME NEW mode \in {"realtime", "deferred", "rebuild"}, NEW from \in Nat, NEW to \in Nat,
           NEW w \in Nat, NEW R, mode = "realtime" \/ from <= w + 1
    PROVE  Low(Projecting(mode, from, to), w, R)
<1> DEFINE s == Projecting(mode, from, to)
<1> HIDE DEF s
<1>1. s = Projecting(mode, from, to)
  BY DEF s
<1>2. s.mode = mode /\ s.pc = "read" /\ s.from = from
  BY <1>1, ProjectingType
<1>3. Low(s, w, R)
  BY <1>2 DEF Low, StartsLow, PageIsWhole
<1> QED BY <1>1, <1>3

LEMMA LowMoves ==
    ASSUME Inv, ProcsLow, NEW p \in Procs, NEW s \in Projector,
           projector' = [projector EXCEPT ![p] = s],
           UNCHANGED <<rows, watermark>>, Low(s, watermark, rows)
    PROVE  ProcsLow'
<1>1. projector'[p] = s /\ \A q \in Procs : q # p => projector'[q] = projector[q]
  BY OneMoves DEF Inv
<1>2. \A q \in Procs : Low(projector[q], watermark, rows)
  BY DEF ProcsLow, Low
<1>3. \A q \in Procs : Low(projector'[q], watermark', rows')
  BY <1>1, <1>2
<1> QED BY <1>3 DEF ProcsLow, Low

LEMMA LowStays ==
    ASSUME ProcsLow, UNCHANGED <<rows, watermark, projector>>
    PROVE  ProcsLow'
BY DEF ProcsLow, StartsLow, PageIsWhole

LEMMA QueueLowStays ==
    ASSUME QueueLow, UNCHANGED <<queue, running, watermark>>
    PROVE  QueueLow'
BY DEF QueueLow

LEMMA BacklogLow ==
    ASSUME Inv, QueueLow, NEW t \in Nat, QueueBacklog(t), UNCHANGED <<running, watermark>>
    PROVE  QueueLow'
<1>1. CASE queue' \in QueueTo(queue, Project(watermark + 1, t))
  <2>1. /\ Project(watermark + 1, t) \in Run
        /\ Project(watermark + 1, t).from = watermark + 1
        /\ watermark \in Nat
    BY RunTypes, FlagTypes
  <2>2. \A q \in queue : q.from <= watermark + 1
    BY DEF QueueLow
  <2>3. watermark + 1 <= watermark + 1
    BY <2>1
  <2>4. \A q \in queue' : q.from <= watermark + 1
    BY <1>1, <2>1, <2>2, <2>3, QueueFact DEF Inv, TypeOK
  <2> QED BY <2>4 DEF QueueLow
<1>2. CASE UNCHANGED queue
  BY <1>2, QueueLowStays
<1> QED BY <1>1, <1>2 DEF QueueBacklog

LEMMA LowIngest ==
    ASSUME Inv, QueueLow, ProcsLow, NEW k \in 1..MaxRow, Ingest(k),
           WithinRows
    PROVE  QueueLow' /\ ProcsLow'
<1>1. PICK t \in 0..MaxRow :
          /\ IsTop(t) /\ t + k <= MaxRow
          /\ rows' = rows \cup (t + 1)..(t + k)
          /\ \/ /\ projector' = [projector EXCEPT
                       ![Daemon] = Projecting("realtime", t + 1, t + k)]
                /\ UNCHANGED <<queue, unattended>>
             \/ /\ QueueBacklog(t + k)
                /\ UNCHANGED projector
  BY DEF Ingest
<1>2. /\ t \in Nat /\ k \in Nat /\ t + 1 \in Nat /\ t + k \in Nat /\ watermark \in Nat
  BY <1>1, RunTypes, FlagTypes
<1>3. UNCHANGED <<watermark, running>>
  BY DEF Ingest
<1>4. ASSUME NEW p \in Procs PROVE Low(projector[p], watermark, rows')
  <2>1. StartsLow(projector[p], watermark) /\ PageIsWhole(projector[p], watermark, rows)
    BY DEF ProcsLow
  <2>2. CASE projector[p].pc = "commit"
    <3>0. projector[p].last \in rows \cup {0}
      BY <2>2 DEF WithinRows, Placed
    <3>1. projector[p].last <= t /\ projector[p].last \in Nat
      <4>1. \A r \in rows : r <= t
        BY <1>1 DEF IsTop
      <4>2. \A r \in rows : r \in Nat
        BY FlagTypes DEF Rowids
      <4> QED BY <1>2, <3>0, <4>1, <4>2
    <3>2. \A r \in rows' : r \in rows \/ r > t
      BY <1>1, <1>2
    <3>3. \A r \in rows' : r <= projector[p].last => r \in rows
      BY <1>1, <1>2, <3>1, <3>2, FlagTypes DEF Rowids
    <3> QED BY <2>1, <2>2, <3>3 DEF Low, PageIsWhole
  <2>3. CASE projector[p].pc # "commit"
    BY <2>1, <2>3 DEF Low, PageIsWhole
  <2> QED BY <2>2, <2>3
<1>5. CASE /\ projector' = [projector EXCEPT
                  ![Daemon] = Projecting("realtime", t + 1, t + k)]
           /\ UNCHANGED <<queue, unattended>>
  <2> DEFINE s == Projecting("realtime", t + 1, t + k)
  <2>1. s \in Projector /\ Low(s, watermark, rows')
    BY <1>2, ProjectingType, ProjectingLow
  <2> HIDE DEF s
  <2>2. projector'[Daemon] = s /\ \A q \in Procs : q # Daemon => projector'[q] = projector[q]
    BY <1>5, <2>1, OneMoves, FlagTypes DEF Inv, s
  <2>3. \A q \in Procs : Low(projector'[q], watermark, rows')
    BY <1>4, <2>1, <2>2
  <2> QED BY <1>3, <1>5, <2>3, QueueLowStays DEF ProcsLow, Low
<1>6. CASE QueueBacklog(t + k) /\ UNCHANGED projector
  <2>1. QueueLow'
    BY <1>2, <1>3, <1>6, BacklogLow
  <2>2. ProcsLow'
    BY <1>3, <1>4, <1>6 DEF ProcsLow, Low
  <2> QED BY <2>1, <2>2
<1> QED BY <1>1, <1>5, <1>6

LEMMA LowRead ==
    ASSUME Inv, ProcsLow, NEW p \in Procs, ReadPage(p) PROVE ProcsLow'
<1>1. UNCHANGED <<rows, watermark>>
  BY DEF ReadPage
<1> DEFINE s == projector[p]
           n == projector'[p]
<1>2. StartsLow(s, watermark) /\ s.pc = "read" /\ n.mode = s.mode /\ n.seen = watermark
  BY ReadFact DEF ProcsLow
<1>3. s \in Projector /\ watermark \in Nat
  BY FlagTypes DEF Inv, TypeOK
<1>4. Low(n, watermark, rows)
  <2>1. s.clear \in BOOLEAN /\ s.from \in Nat /\ s.to \in Nat
    BY <1>3 DEF Projector
  <2>2. CASE n.from = s.from /\ n.page = Within(s.from, n.last)
    BY <1>2, <1>3, <2>2 DEF Low, StartsLow, PageIsWhole, Within
  <2>3. CASE s.clear /\ n.from = s.from /\ n.last = 0 /\ n.page = {} /\ n.pc = "commit"
    <3>1. s.from = 1
      BY <2>3 DEF Inv, Shape
    <3>2. \A r \in rows : ~(n.from <= r /\ r <= n.last)
      BY <2>3, <3>1, FlagTypes DEF Rowids
    <3> QED BY <1>2, <1>3, <2>3, <3>1, <3>2 DEF Low, StartsLow, PageIsWhole
  <2>4. CASE n.pc = "finish" /\ n.from = s.to + 1 /\ n.to = s.to
    <3> HIDE DEF n, s
    <3> QED BY <2>1, <2>4 DEF Low, StartsLow, PageIsWhole
  <2> QED BY <2>1, <2>2, <2>3, <2>4, ReadFact
<1>5. \A q \in Procs : Low(projector'[q], watermark, rows)
  BY <1>4, ReadFact DEF ProcsLow, Low
<1> QED BY <1>1, <1>5 DEF ProcsLow, Low

LEMMA LowRises ==
    ASSUME NEW s \in Projector, NEW w \in Nat, NEW v \in Nat, w <= v, NEW R, Low(s, w, R)
    PROVE  Low(s, v, R)
BY DEF Low, StartsLow, PageIsWhole, Projector

LEMMA LowCommit ==
    ASSUME Inv, QueueLow, ProcsLow, NEW p \in Procs, CommitPage(p) PROVE QueueLow' /\ ProcsLow'
<1> DEFINE s == projector[p]
           n == projector'[p]
<1>0. UNCHANGED <<rows, queue, running>>
  BY DEF CommitPage
<1>1. watermark \in Nat /\ watermark' \in Nat /\ watermark <= watermark'
  BY WatermarkFact, FlagTypes, RunTypes
<1>2. QueueLow'
  <2>1. /\ \A q \in queue : q.from \in Nat
        /\ running.run.from \in Nat /\ running.next \in Nat
    BY InvParts DEF QueueOK, RunningType, Run
  <2> QED BY <1>0, <1>1, <2>1 DEF QueueLow
<1>3. ASSUME NEW q \in Procs, q # p PROVE Low(projector'[q], watermark', rows')
  <2>1. Low(projector[q], watermark, rows) /\ projector[q] \in Projector
    BY DEF ProcsLow, Low, Inv, TypeOK
  <2>2. projector'[q] = projector[q]
    BY <1>3, CommitFact
  <2> QED BY <1>0, <1>1, <2>1, <2>2, LowRises
<1>4. Low(n, watermark', rows')
  <2>1. /\ n.from = s.last + 1 /\ n.pc \in {"read", "finish"} /\ n.mode = s.mode
        /\ s.mode \in {"deferred", "rebuild"} => s.last <= watermark'
        /\ s.last \in Nat
    BY CommitFact, WatermarkFact DEF Inv, TypeOK, Projector
  <2> HIDE DEF n, s
  <2> QED BY <1>0, <1>1, <2>1 DEF Low, StartsLow, PageIsWhole
<1>5. \A q \in Procs : Low(projector'[q], watermark', rows')
  BY <1>3, <1>4
<1> QED BY <1>2, <1>5 DEF ProcsLow, Low

-----------------------------------------------------------------------------
(* The daemon, free or projecting, is not resetting. *)
LEMMA DaemonModes ==
    ASSUME Inv
    PROVE  /\ DaemonFree => projector[Daemon].mode = "none"
           /\ projector[Daemon].pc \in {"read", "commit", "finish"}
                => projector[Daemon].mode # "reset"
BY FlagTypes DEF Inv, Shape, DaemonFree

LEMMA PlacedMoves ==
    ASSUME Inv, WithinRows, NEW p \in Procs, NEW s \in Projector,
           projector' = [projector EXCEPT ![p] = s], s.pc # "commit",
           rows \subseteq rows', UNCHANGED watermark
    PROVE  WithinRows'
<1>1. projector'[p] = s /\ \A q \in Procs : q # p => projector'[q] = projector[q]
  BY OneMoves DEF Inv
<1> QED BY <1>1 DEF WithinRows, Placed

LEMMA PlacedStays ==
    ASSUME WithinRows, rows \subseteq rows', UNCHANGED <<projector, watermark>>
    PROVE  WithinRows'
BY DEF WithinRows, Placed

LEMMA PlacedPage ==
    ASSUME Inv, WithinRows, ProcsLow, NEW p \in Procs, ReadPage(p) \/ CommitPage(p)
    PROVE  WithinRows'
<1>1. CASE ReadPage(p)
  <2>1. UNCHANGED <<rows, watermark>>
    BY <1>1 DEF ReadPage
  <2>2. Placed(projector'[p], rows)
    BY <1>1, ReadFact DEF Placed, PageEnds, Within
  <2>3. \A q \in Procs : Placed(projector'[q], rows)
    BY <1>1, <2>2, ReadFact DEF WithinRows
  <2> QED BY <2>1, <2>3 DEF WithinRows
<1>2. CASE CommitPage(p)
  <2>1. UNCHANGED rows
    BY <1>2 DEF CommitPage
  <2>2. /\ watermark' \in {watermark, projector[p].seen, projector[p].last}
        /\ projector[p].seen <= watermark /\ projector[p].seen \in Nat
        /\ watermark \in Nat
    BY <1>2, WatermarkFact, CommitFact, FlagTypes DEF ProcsLow, PageIsWhole, Inv, TypeOK, Projector
  <2>3. PICK t \in rows \cup {0} : watermark <= t
    BY DEF WithinRows
  <2>4. t \in Nat
    BY <2>3, FlagTypes DEF Rowids
  <2>5. projector[p].last \in rows \cup {0}
    BY <1>2, CommitFact DEF WithinRows, Placed
  <2>6. \E u \in rows \cup {0} : watermark' <= u
    <3>1. CASE watermark' = projector[p].last
      <4>1. projector[p].last <= projector[p].last
        BY <2>5, FlagTypes DEF Rowids
      <4> QED BY <2>5, <3>1, <4>1
    <3>2. CASE watermark' \in {watermark, projector[p].seen}
      <4>1. watermark' <= t
        BY <2>2, <2>3, <2>4, <3>2
      <4> QED BY <2>3, <4>1
    <3> QED BY <2>2, <3>1, <3>2
  <2>7. \A q \in Procs : Placed(projector'[q], rows)
    BY <1>2, CommitFact DEF WithinRows, Placed
  <2> QED BY <2>1, <2>6, <2>7 DEF WithinRows
<1> QED BY <1>1, <1>2

(* Laid and Inside through the steps that start or end the work of one     *)
(* process.                                                                *)
LEMMA IdleKeeps ==
    ASSUME Inv, ProcsLow, NEW p \in Procs, projector' = [projector EXCEPT ![p] = Idle],
           UNCHANGED <<rows, watermark>>
    PROVE  ProcsLow' /\ (WithinRows => WithinRows')
<1>1. ProcsLow'
  BY IdleType, IdleLow, LowMoves
<1>2. WithinRows => WithinRows'
  BY IdleType, PlacedMoves
<1> QED BY <1>1, <1>2

LEMMA BacklogKeepsLow ==
    ASSUME Inv, QueueLow, UNCHANGED <<running, watermark>>,
           IF Backlog THEN \E t \in rows : IsTop(t) /\ QueueBacklog(t)
                      ELSE UNCHANGED <<queue, unattended>>
    PROVE  QueueLow'
<1>1. CASE Backlog
  <2>1. PICK t \in rows : IsTop(t) /\ QueueBacklog(t)
    BY <1>1
  <2>2. t \in Nat
    BY <2>1, TopType
  <2> QED BY <2>1, <2>2, BacklogLow
<1>2. CASE ~Backlog
  BY <1>2, QueueLowStays
<1> QED BY <1>1, <1>2

LEMMA LowStartRun ==
    ASSUME Inv, QueueLow, ProcsLow, NEW w \in Workers, StartRun(w)
    PROVE  QueueLow' /\ ProcsLow' /\ (WithinRows => WithinRows')
<1>1. PICK q \in queue :
          /\ queue' = queue \ {q}
          /\ running' = [NotRunning EXCEPT !.worker = w, !.run = q]
          /\ projector' = [projector EXCEPT
                ![w] = Projecting(IF q.kind = "rebuild" THEN "rebuild" ELSE "deferred",
                                  q.from, q.to)]
  BY DEF StartRun
<1>2. UNCHANGED <<rows, watermark>> /\ watermark \in Nat /\ w \in Procs
  BY FlagTypes DEF StartRun
<1>3. q \in Run /\ q.from \in Nat /\ q.to \in Nat /\ q.from <= watermark + 1
  BY DEF Inv, TypeOK, Run, QueueLow
<1>4. QueueLow'
  <2>1. running'.run = q /\ running'.next = 0
    BY <1>1 DEF NotRunning
  <2> QED BY <1>1, <1>2, <1>3, <2>1 DEF QueueLow
<1> DEFINE mode == IF q.kind = "rebuild" THEN "rebuild" ELSE "deferred"
           s == Projecting(mode, q.from, q.to)
<1>5. mode \in {"realtime", "deferred", "rebuild"}
  OBVIOUS
<1>6. projector' = [projector EXCEPT ![w] = s]
  BY <1>1
<1> HIDE DEF mode
<1>7. s \in Projector /\ s.pc # "commit" /\ Low(s, watermark, rows)
  BY <1>2, <1>3, <1>5, ProjectingType, ProjectingLow
<1> HIDE DEF s
<1>8. ProcsLow'
  BY <1>2, <1>6, <1>7, LowMoves
<1>9. WithinRows => WithinRows'
  BY <1>2, <1>6, <1>7, PlacedMoves
<1> QED BY <1>4, <1>8, <1>9

LEMMA LowFinishRun ==
    ASSUME Inv, WorkersDefer, QueueLow, ProcsLow, NEW w \in Workers, FinishRun(w)
    PROVE  QueueLow'
<1> DEFINE s == projector[w]
           next == IF s.from <= s.to THEN s.from ELSE 0
<1>1. /\ running' = IF running.worker = w
                    THEN [running EXCEPT !.finished = TRUE, !.next = next] ELSE running
      /\ UNCHANGED <<queue, watermark>> /\ s.pc = "finish"
  BY DEF FinishRun
<1>2. s \in Projector /\ StartsLow(s, watermark) /\ Shape(s, rows) /\ watermark \in Nat
  BY FlagTypes DEF ProcsLow, Inv, TypeOK
<1>3. next \in Nat /\ next <= watermark + 1
  <2>1. s.from \in Nat /\ s.to \in Nat
    BY <1>2 DEF Projector
  <2>2. s.mode \in {"deferred", "rebuild"}
    BY <1>1, <1>2 DEF Shape, WorkersDefer
  <2>3. s.from <= watermark + 1 \/ s.from > s.to
    BY <1>1, <1>2, <2>2 DEF StartsLow
  <2> QED BY <1>2, <2>1, <2>3
<1> HIDE DEF next
<1>4. running'.run = running.run /\ running'.next \in {running.next, next}
  BY <1>1, <1>3, InvParts DEF QueueOK, RunningType
<1> QED BY <1>1, <1>3, <1>4 DEF QueueLow

LEMMA LowRunDone ==
    ASSUME Inv, QueueLow, RunDone PROVE QueueLow'
<1>1. running'.run.from = 1 /\ running'.next = 0 /\ UNCHANGED watermark /\ watermark \in Nat
  BY RunTypes, FlagTypes DEF RunDone
<1>2. CASE \E t \in rows \cup {0} :
             IsTop(t) /\ queue' \in Continuation(t) /\ unattended' = FALSE
  <2>1. PICK t \in rows \cup {0} : queue' \in Continuation(t) /\ IsTop(t)
    BY <1>2
  <2>2. t \in Nat
    BY <2>1, TopType
  <2>3. PICK Q \in IF running.next # 0 /\ running.run.kind = "project"
                   THEN QueueTo(queue, Project(running.next, running.run.to))
                   ELSE {queue} :
           queue' \in QueueTo(Q, Project(watermark + 1, t))
    BY <2>1 DEF Continuation
  <2>4. /\ Project(running.next, running.run.to) \in Run
        /\ Project(running.next, running.run.to).from = running.next
        /\ Project(watermark + 1, t) \in Run
        /\ Project(watermark + 1, t).from = watermark + 1
    BY <2>2, RunTypes, FlagTypes, InvParts DEF QueueOK, RunningType, Run
  <2>5. /\ queue \in SUBSET Run /\ \A q \in queue : q.from <= watermark + 1
        /\ running.next <= watermark + 1 /\ watermark + 1 <= watermark + 1
    BY <1>1, InvParts DEF QueueOK, QueueLow
  <2>6. Q \in SUBSET Run /\ \A q \in Q : q.from <= watermark + 1
    BY <2>3, <2>4, <2>5, QueueFact DEF Inv
  <2>7. \A q \in queue' : q.from <= watermark + 1
    BY <2>3, <2>4, <2>5, <2>6, QueueFact DEF Inv
  <2> QED BY <1>1, <2>7 DEF QueueLow
<1>3. CASE UNCHANGED queue
  BY <1>1, <1>3 DEF QueueLow
<1> QED BY <1>2, <1>3 DEF RunDone

LEMMA LowReset ==
    ASSUME Inv, QueueLow, ProcsLow, NEW S \in SUBSET rows, ResetRows(S)
    PROVE  QueueLow' /\ ProcsLow' /\ projector'[Daemon].mode = "reset"
<1>1. /\ projector' = [p \in Procs |->
            IF p = Daemon THEN [Idle EXCEPT !.mode = "reset", !.pc = "reset"]
            ELSE [projector[p] EXCEPT !.page = @ \ S]]
      /\ rows' = rows \ S /\ UNCHANGED <<watermark, queue, running>>
  BY DEF ResetRows
<1>2. projector'[Daemon].mode = "reset" /\ projector'[Daemon].pc = "reset"
  BY <1>1, FlagTypes, IdleType DEF Projector
<1>3. ASSUME NEW p \in Procs, p # Daemon PROVE Low(projector'[p], watermark', rows')
  <2> DEFINE s == projector[p]
             n == projector'[p]
  <2>1. s \in Projector /\ StartsLow(s, watermark) /\ PageIsWhole(s, watermark, rows)
    BY DEF Inv, TypeOK, ProcsLow
  <2>2. n = [s EXCEPT !.page = s.page \ S]
    BY <1>1, <1>3
  <2> HIDE DEF s, n
  <2>3. /\ n.mode = s.mode /\ n.pc = s.pc /\ n.from = s.from /\ n.to = s.to
        /\ n.last = s.last /\ n.seen = s.seen /\ n.page = s.page \ S
    BY <2>1, <2>2 DEF Projector
  <2>4. Low(n, watermark', rows')
    BY <1>1, <2>1, <2>3 DEF Low, StartsLow, PageIsWhole
  <2> QED BY <2>4 DEF n
<1>4. Low(projector'[Daemon], watermark', rows')
  BY <1>2 DEF Low, StartsLow, PageIsWhole
<1>5. \A p \in Procs : Low(projector'[p], watermark', rows')
  BY <1>3, <1>4
<1> QED BY <1>1, <1>2, <1>5, QueueLowStays DEF ProcsLow, Low

(* A reset that overtakes nothing starts over. *)
LEMMA LowResetWatermark ==
    ASSUME Inv, ResetWatermark, ~overtaken'
    PROVE  QueueLow' /\ ProcsLow' /\ WithinRows'
<1>1. /\ watermark' = 0 /\ projector' = [projector EXCEPT ![Daemon] = Idle]
      /\ UNCHANGED <<rows, queue, running>>
      /\ running = NotRunning /\ \A w \in Workers : projector[w].pc = "idle"
      /\ \A q \in queue : ~(q.from > 1)
  BY DEF ResetWatermark
<1>2. QueueLow'
  <2>1. \A q \in queue : q.from \in Nat
    BY InvParts DEF QueueOK, Run
  <2> QED BY <1>1, <2>1, RunTypes DEF QueueLow
<1>3. \A p \in Procs : projector'[p].pc = "idle"
  BY <1>1, IdleType, FlagTypes DEF Inv, TypeOK, Procs
<1>4. ProcsLow'
  BY <1>3 DEF ProcsLow, StartsLow, PageIsWhole
<1>5. WithinRows'
  BY <1>1, <1>3 DEF WithinRows, Placed
<1> QED BY <1>2, <1>4, <1>5

(* The workers. *)
LEMMA WorkersStep == Inv /\ WorkersDefer /\ [Next]_vars => WorkersDefer'
<1> SUFFICES ASSUME Inv, WorkersDefer, [Next]_vars PROVE WorkersDefer'
  OBVIOUS
<1>0. Workers \subseteq Procs /\ Daemon \in Procs /\ Daemon \notin Workers
      /\ projector \in [Procs -> Projector]
  BY FlagTypes, ProjectionAssumption DEF Inv, TypeOK
<1>1. CASE UNCHANGED projector
  BY <1>1 DEF WorkersDefer
<1>2. ASSUME NEW s, projector' = [projector EXCEPT ![Daemon] = s] PROVE WorkersDefer'
  BY <1>0, <1>2 DEF WorkersDefer
<1>3. ASSUME NEW p \in Procs, projector' = [projector EXCEPT ![p] = Idle] PROVE WorkersDefer'
  BY <1>0, <1>3, IdleType DEF WorkersDefer
<1>4. ASSUME NEW p \in Procs, ReadPage(p) PROVE WorkersDefer'
  BY <1>0, <1>4, ReadFact DEF WorkersDefer
<1>5. ASSUME NEW p \in Procs, CommitPage(p) PROVE WorkersDefer'
  BY <1>0, <1>5, CommitFact DEF WorkersDefer
<1>6. ASSUME NEW w \in Workers, StartRun(w) PROVE WorkersDefer'
  <2>1. PICK q \in queue : projector' = [projector EXCEPT
                ![w] = Projecting(IF q.kind = "rebuild" THEN "rebuild" ELSE "deferred",
                                  q.from, q.to)]
    BY <1>6 DEF StartRun
  <2> DEFINE mode == IF q.kind = "rebuild" THEN "rebuild" ELSE "deferred"
             s == Projecting(mode, q.from, q.to)
  <2>2. q.from \in Nat /\ q.to \in Nat
    BY DEF Inv, TypeOK, Run
  <2>3. mode \in {"deferred", "rebuild"}
    OBVIOUS
  <2>4. projector' = [projector EXCEPT ![w] = s]
    BY <2>1
  <2> HIDE DEF mode
  <2>5. s.mode # "realtime"
    BY <2>2, <2>3, ProjectingType
  <2> HIDE DEF s
  <2> QED BY <1>0, <2>4, <2>5 DEF WorkersDefer
<1>7. ASSUME NEW S \in SUBSET rows, ResetRows(S) PROVE WorkersDefer'
  <2>1. projector' = [p \in Procs |->
            IF p = Daemon THEN [Idle EXCEPT !.mode = "reset", !.pc = "reset"]
            ELSE [projector[p] EXCEPT !.page = @ \ S]]
    BY <1>7 DEF ResetRows
  <2>2. ASSUME NEW w \in Workers PROVE projector'[w].mode # "realtime"
    <3> DEFINE s == projector[w]
               n == projector'[w]
    <3>1. s \in Projector /\ s.mode # "realtime"
      BY <1>0 DEF WorkersDefer
    <3>2. n = [s EXCEPT !.page = s.page \ S]
      BY <1>0, <2>1
    <3> HIDE DEF s, n
    <3>3. n.mode = s.mode
      BY <3>1, <3>2 DEF Projector
    <3> QED BY <3>1, <3>3 DEF n
  <2> QED BY <2>2 DEF WorkersDefer
<1>8. ASSUME NEW w \in Workers, FinishRun(w) \/ WorkerFails(w) PROVE WorkersDefer'
  <2>1. projector' = [projector EXCEPT ![w] = Idle]
    BY <1>8 DEF FinishRun, WorkerFails
  <2> QED BY <1>0, <1>3, <2>1
<1>9. CASE \E k \in 1..MaxRow : Ingest(k)
  BY <1>1, <1>2, <1>9 DEF Ingest
<1>10. CASE RealtimeDone \/ MergeContacts \/ MergeContactsDone \/ DaemonProjectionFails
            \/ ResetWatermark \/ Restart
  <2>1. \E s : projector' = [projector EXCEPT ![Daemon] = s]
    BY <1>10 DEF RealtimeDone, MergeContacts, MergeContactsDone, DaemonProjectionFails,
                ResetWatermark, Restart
  <2> QED BY <1>2, <2>1
<1>11. CASE StartSync \/ EndSync \/ RunDone \/ Bootstrap \/ QueueRebuild \/ UNCHANGED vars
  BY <1>1, <1>11 DEF StartSync, EndSync, RunDone, Bootstrap, QueueRebuild, vars
<1> QED BY <1>4, <1>5, <1>6, <1>7, <1>8, <1>9, <1>10, <1>11 DEF Next

(* One step of any process, as long as a reset has overtaken nothing. *)
LEMMA PaceKeeps ==
    ASSUME Laid, Inside, overtaken' = overtaken,
           projector[Daemon].mode = "reset" => projector'[Daemon].mode = "reset",
           QueueLow /\ ProcsLow /\ (projector[Daemon].mode # "reset" => WithinRows)
             => QueueLow' /\ ProcsLow' /\ (WithinRows => WithinRows')
    PROVE  Laid' /\ Inside'
BY DEF Laid, Inside

LEMMA LaidStep ==
    Inv /\ WorkersDefer /\ Laid /\ Inside /\ [Next]_vars => Laid' /\ Inside'
<1> SUFFICES ASSUME Inv, WorkersDefer, Laid, Inside, [Next]_vars PROVE Laid' /\ Inside'
  OBVIOUS
<1>0. Workers \subseteq Procs /\ Daemon \in Procs /\ Daemon \notin Workers
      /\ projector \in [Procs -> Projector] /\ watermark \in Nat
  BY FlagTypes, ProjectionAssumption DEF Inv, TypeOK
<1>1. CASE UNCHANGED vars \/ StartSync \/ EndSync
  <2>1. UNCHANGED <<rows, watermark, queue, running, projector, overtaken>>
    BY <1>1 DEF vars, StartSync, EndSync
  <2> QED BY <2>1, PaceKeeps, LowStays, QueueLowStays, PlacedStays
<1>2. ASSUME NEW k \in 1..MaxRow, Ingest(k) PROVE Laid' /\ Inside'
  <2>1. /\ DaemonFree /\ UNCHANGED <<watermark, overtaken>> /\ rows \subseteq rows'
        /\ \/ UNCHANGED projector
           \/ \E t \in 0..MaxRow :
                 projector' = [projector EXCEPT ![Daemon] = Projecting("realtime", t + 1, t + k)]
    BY <1>2 DEF Ingest
  <2>2. projector[Daemon].mode # "reset"
    BY <2>1, DaemonModes
  <2>3. WithinRows => WithinRows'
    <3>1. CASE UNCHANGED projector
      BY <2>1, <3>1, PlacedStays
    <3>2. CASE \E t \in 0..MaxRow :
                 projector' = [projector EXCEPT ![Daemon] = Projecting("realtime", t + 1, t + k)]
      <4>1. PICK t \in 0..MaxRow :
                 projector' = [projector EXCEPT ![Daemon] = Projecting("realtime", t + 1, t + k)]
        BY <3>2
      <4>2. t + 1 \in Nat /\ t + k \in Nat
        BY RunTypes
      <4> DEFINE s == Projecting("realtime", t + 1, t + k)
      <4>3. s \in Projector /\ s.pc # "commit"
        BY <4>2, ProjectingType
      <4>4. projector' = [projector EXCEPT ![Daemon] = s]
        BY <4>1
      <4> HIDE DEF s
      <4> QED BY <1>0, <2>1, <4>3, <4>4, PlacedMoves
    <3> QED BY <2>1, <3>1, <3>2
  <2> QED BY <1>2, <2>1, <2>2, <2>3, LowIngest, PaceKeeps
<1>3. CASE RealtimeDone \/ MergeContactsDone \/ DaemonProjectionFails
  <2>1. /\ projector' = [projector EXCEPT ![Daemon] = Idle]
        /\ UNCHANGED <<rows, watermark, running, overtaken>>
        /\ projector[Daemon].mode # "reset"
    BY <1>3 DEF RealtimeDone, MergeContactsDone, DaemonProjectionFails
  <2>2. QueueLow => QueueLow'
    <3>1. CASE RealtimeDone
      BY <2>1, <3>1, BacklogKeepsLow DEF RealtimeDone
    <3>2. CASE UNCHANGED queue
      BY <2>1, <3>2, QueueLowStays
    <3> QED BY <1>3, <3>1, <3>2 DEF MergeContactsDone, DaemonProjectionFails
  <2> QED BY <1>0, <2>1, <2>2, IdleKeeps, PaceKeeps
<1>4. CASE MergeContacts
  <2> DEFINE s == Projecting("rebuild", 1, MaxRow)
  <2>1. /\ projector' = [projector EXCEPT ![Daemon] = s] /\ DaemonFree
        /\ UNCHANGED <<rows, watermark, running, queue, overtaken>>
    BY <1>4 DEF MergeContacts
  <2>2. s \in Projector /\ s.pc # "commit" /\ Low(s, watermark, rows)
    BY <1>0, RunTypes, ProjectingType, ProjectingLow
  <2> HIDE DEF s
  <2>3. projector[Daemon].mode # "reset"
    BY <2>1, DaemonModes
  <2> QED BY <1>0, <2>1, <2>2, <2>3, LowMoves, QueueLowStays, PlacedMoves, PaceKeeps
<1>5. ASSUME NEW p \in Procs, ReadPage(p) PROVE Laid' /\ Inside'
  <2>1. UNCHANGED <<watermark, running, queue, overtaken>>
    BY <1>5 DEF ReadPage
  <2>2. projector'[Daemon].mode = projector[Daemon].mode
    BY <1>0, <1>5, ReadFact
  <2>3. ProcsLow => ProcsLow'
    BY <1>5, LowRead
  <2>4. ProcsLow /\ WithinRows => WithinRows'
    BY <1>5, PlacedPage
  <2> QED BY <2>1, <2>2, <2>3, <2>4, QueueLowStays, PaceKeeps
<1>6. ASSUME NEW p \in Procs, CommitPage(p) PROVE Laid' /\ Inside'
  <2>1. UNCHANGED overtaken
    BY <1>6 DEF CommitPage
  <2>2. projector'[Daemon].mode = projector[Daemon].mode
    BY <1>0, <1>6, CommitFact
  <2>3. QueueLow /\ ProcsLow => QueueLow' /\ ProcsLow'
    BY <1>6, LowCommit
  <2>4. ProcsLow /\ WithinRows => WithinRows'
    BY <1>6, PlacedPage
  <2> QED BY <2>1, <2>2, <2>3, <2>4, PaceKeeps
<1>7. ASSUME NEW w \in Workers, StartRun(w) PROVE Laid' /\ Inside'
  <2>1. UNCHANGED overtaken /\ DaemonFree
    BY <1>7 DEF StartRun
  <2>2. projector[Daemon].mode # "reset"
    BY <2>1, DaemonModes
  <2> QED BY <1>7, <2>1, <2>2, LowStartRun, PaceKeeps
<1>8. ASSUME NEW w \in Workers, FinishRun(w) PROVE Laid' /\ Inside'
  <2>1. /\ projector' = [projector EXCEPT ![w] = Idle]
        /\ UNCHANGED <<rows, watermark, overtaken>>
    BY <1>8 DEF FinishRun
  <2>2. projector'[Daemon] = projector[Daemon]
    BY <1>0, <2>1
  <2>3. QueueLow /\ ProcsLow => QueueLow'
    BY <1>8, LowFinishRun
  <2> QED BY <1>0, <2>1, <2>2, <2>3, IdleKeeps, PaceKeeps
<1>9. ASSUME NEW w \in Workers, WorkerFails(w) PROVE Laid' /\ Inside'
  <2>1. /\ projector' = [projector EXCEPT ![w] = Idle]
        /\ UNCHANGED <<rows, watermark, queue, overtaken>>
        /\ running' = NotRunning \/ UNCHANGED running
    BY <1>9 DEF WorkerFails
  <2>2. projector'[Daemon] = projector[Daemon]
    BY <1>0, <2>1
  <2>3. QueueLow => QueueLow'
    BY <1>0, <2>1, RunTypes DEF QueueLow
  <2> QED BY <1>0, <2>1, <2>2, <2>3, IdleKeeps, PaceKeeps
<1>10. CASE RunDone
  <2>1. UNCHANGED <<rows, watermark, projector, overtaken>>
    BY <1>10 DEF RunDone
  <2> QED BY <1>10, <2>1, LowRunDone, LowStays, PlacedStays, PaceKeeps
<1>11. ASSUME NEW S \in SUBSET rows, ResetRows(S) PROVE Laid' /\ Inside'
  <2>1. UNCHANGED overtaken
    BY <1>11 DEF ResetRows
  <2>2. ~overtaken => QueueLow' /\ ProcsLow'
    BY <1>11, LowReset DEF Laid
  <2>3. projector'[Daemon].mode = "reset"
    <3>1. projector' = [p \in Procs |->
            IF p = Daemon THEN [Idle EXCEPT !.mode = "reset", !.pc = "reset"]
            ELSE [projector[p] EXCEPT !.page = @ \ S]]
      BY <1>11 DEF ResetRows
    <3> QED BY <1>0, <3>1, IdleType DEF Projector
  <2> QED BY <2>1, <2>2, <2>3 DEF Laid, Inside
<1>12. CASE ResetWatermark
  BY <1>12, LowResetWatermark DEF Laid, Inside
<1>13. CASE Restart
  <2>1. /\ projector' = [projector EXCEPT ![Daemon] = Idle]
        /\ UNCHANGED <<rows, watermark>> /\ running' = NotRunning
        /\ queue' \subseteq queue \cup {running.run}
        /\ overtaken' = (overtaken \/ projector[Daemon].mode = "reset")
    BY <1>13 DEF Restart
  <2>2. QueueLow => QueueLow'
    BY <1>0, <2>1, RunTypes DEF QueueLow
  <2>3. ~overtaken' => QueueLow' /\ ProcsLow' /\ WithinRows'
    BY <1>0, <2>1, <2>2, IdleKeeps DEF Laid, Inside
  <2> QED BY <2>3 DEF Laid, Inside
<1>14. CASE Bootstrap
  <2>1. UNCHANGED <<rows, watermark, projector, overtaken, running>>
    BY <1>14 DEF Bootstrap
  <2>2. QueueLow => QueueLow'
    BY <1>14, <2>1, BacklogKeepsLow DEF Bootstrap
  <2> QED BY <2>1, <2>2, LowStays, PlacedStays, PaceKeeps
<1>15. CASE QueueRebuild
  <2>1. /\ UNCHANGED <<rows, watermark, projector, overtaken, running>>
        /\ queue' = queue \cup {Rebuild}
    BY <1>15 DEF QueueRebuild
  <2>2. QueueLow => QueueLow'
    BY <1>0, <2>1, RunTypes DEF QueueLow
  <2> QED BY <2>1, <2>2, LowStays, PlacedStays, PaceKeeps
<1> QED BY <1>1, <1>2, <1>3, <1>4, <1>5, <1>6, <1>7, <1>8, <1>9, <1>10, <1>11, <1>12,
           <1>13, <1>14, <1>15 DEF Next

-----------------------------------------------------------------------------
(* The watermark stays behind the canonical tables. *)
RowsCovered ==
    \A r \in rows : r <= watermark => r \in applied \/ \E p \in Procs : WillReplay(p, r)

LEMMA CoveredMeans == Covered <=> cut \/ overtaken \/ RowsCovered
BY DEF Covered, RowsCovered

(* A process that was not in the middle of a replay moves. *)
LEMMA CoveredMoves ==
    ASSUME Inv, RowsCovered, NEW p \in Procs, ~CutsRebuild(p),
           \A q \in Procs : q # p => projector'[q] = projector[q],
           UNCHANGED <<rows, applied, watermark>>
    PROVE  RowsCovered'
<1>1. \A r : ~WillReplay(p, r)
  BY DEF WillReplay, CutsRebuild
<1>2. ASSUME NEW r \in rows, r <= watermark, r \notin applied
      PROVE  \E q \in Procs : WillReplay(q, r)'
  <2>1. PICK q \in Procs : WillReplay(q, r)
    BY <1>2 DEF RowsCovered
  <2>2. projector'[q] = projector[q]
    BY <1>1, <2>1
  <2> QED BY <2>1, <2>2 DEF WillReplay
<1> QED BY <1>2 DEF RowsCovered

LEMMA CoveredStays ==
    ASSUME RowsCovered, UNCHANGED <<rows, applied, watermark, projector>>
    PROVE  RowsCovered'
BY DEF RowsCovered, WillReplay

(* A free daemon replays nothing. *)
LEMMA FreeCutsNothing ==
    ASSUME Inv, projector[Daemon].mode # "rebuild" \/ projector[Daemon].pc = "finish"
    PROVE  ~CutsRebuild(Daemon)
BY DEF CutsRebuild

LEMMA CoveredRead ==
    ASSUME Inv, RowsCovered, NEW p \in Procs, ReadPage(p) PROVE RowsCovered'
<1>1. UNCHANGED <<rows, applied, watermark>>
  BY DEF ReadPage
<1>2. ASSUME NEW r \in rows, r <= watermark, r \notin applied
      PROVE  \E q \in Procs : WillReplay(q, r)'
  <2>1. PICK q \in Procs : WillReplay(q, r)
    BY <1>2 DEF RowsCovered
  <2>2. CASE q # p
    <3>1. projector'[q] = projector[q]
      BY <2>2, ReadFact
    <3> QED BY <2>1, <3>1 DEF WillReplay
  <2>3. CASE q = p
    <3>1. /\ projector[p].mode = "rebuild" /\ ~projector[p].clear
          /\ projector[p].from <= r
      BY <2>1, <2>3 DEF WillReplay
    <3>2. projector[p].to = MaxRow /\ r <= MaxRow
      BY <3>1, FlagTypes, RunTypes DEF Inv, Shape, Rowids
    <3>3. Within(projector[p].from, projector[p].to) # {}
      BY <3>1, <3>2 DEF Within
    <3>4. projector'[p].pc = "commit" /\ projector'[p].from = projector[p].from
          /\ projector'[p].mode = "rebuild" /\ ~projector'[p].clear
      BY <3>1, <3>3, ReadFact
    <3> QED BY <2>3, <3>1, <3>4 DEF WillReplay
  <2> QED BY <2>2, <2>3
<1> QED BY <1>1, <1>2 DEF RowsCovered

(* A committed page leaves no row at or below the watermark behind. *)
LEMMA CoveredCommit ==
    ASSUME Inv, Covered, ProcsLow, NEW p \in Procs, CommitPage(p), ~overtaken, ~cut'
    PROVE  RowsCovered'
<1> DEFINE s == projector[p]
           n == projector'[p]
<1>1. /\ UNCHANGED rows
      /\ applied' = (IF s.clear THEN {} ELSE applied) \cup s.page
      /\ cut' = IF s.clear THEN s.page = {} /\ rows # {} ELSE cut
  BY DEF CommitPage
<1>2. /\ s \in Projector /\ s.pc = "commit" /\ Shape(s, rows)
      /\ s.mode \in {"realtime", "deferred", "rebuild"}
      /\ StartsLow(s, watermark) /\ PageIsWhole(s, watermark, rows)
  BY CommitFact DEF Inv, TypeOK, ProcsLow
<1>3. /\ s.from \in Nat /\ s.last \in Nat /\ s.seen \in Nat /\ s.clear \in BOOLEAN
      /\ s.seen <= watermark /\ watermark \in Nat /\ watermark' \in Nat
      /\ \A r \in rows : s.from <= r /\ r <= s.last => r \in s.page
  BY <1>2, FlagTypes, WatermarkFact, RunTypes DEF Projector, PageIsWhole
<1>4. rows \subseteq Nat
  BY FlagTypes DEF Rowids
<1>5. s.mode \in {"deferred", "rebuild"} => s.from <= watermark + 1
  BY <1>2 DEF StartsLow
<1>6. watermark' # watermark => s.from <= watermark + 1
  BY <1>2, <1>3, <1>5, WatermarkFact
<1>7. ASSUME NEW r \in rows, r <= watermark', r > watermark, ~(s.mode = "rebuild" /\ r > s.last)
      PROVE  r \in applied'
  <2>1. watermark' = s.last \/ watermark' = s.seen
    BY <1>3, <1>4, <1>7, WatermarkFact
  <2>2. r <= s.last
    BY <1>3, <1>4, <1>7, <2>1
  <2>3. s.from <= r
    BY <1>3, <1>4, <1>6, <1>7
  <2> QED BY <1>1, <1>3, <2>2, <2>3
<1>8. ASSUME NEW r \in rows, s.mode = "rebuild", r > s.last, s.last # 0
      PROVE  WillReplay(p, r)'
  <2>1. /\ n.mode = "rebuild" /\ ~n.clear /\ n.pc = "read" /\ n.from = s.last + 1
    BY <1>8, CommitFact
  <2>2. s.last + 1 <= r
    BY <1>3, <1>4, <1>8
  <2> QED BY <2>1, <2>2 DEF WillReplay
<1>9. CASE s.clear
  <2>1. s.mode = "rebuild" /\ s.from = 1
    BY <1>2, <1>9 DEF Shape
  <2>2. CASE s.last = 0
    <3>1. rows = {}
      BY <1>1, <1>2, <1>9, <2>2 DEF Shape
    <3> QED BY <1>1, <3>1 DEF RowsCovered
  <2>3. CASE s.last # 0
    <3>1. ASSUME NEW r \in rows PROVE r \in applied' \/ WillReplay(p, r)'
      <4>1. CASE r <= s.last
        <5>1. r >= 1
          BY FlagTypes DEF Rowids
        <5> QED BY <1>1, <1>3, <2>1, <4>1, <5>1
      <4>2. CASE r > s.last
        BY <1>8, <2>1, <2>3, <4>2
      <4> QED BY <1>3, <1>4, <4>1, <4>2
    <3> QED BY <1>1, <3>1 DEF RowsCovered
  <2> QED BY <2>2, <2>3
<1>10. CASE ~s.clear
  <2>1. RowsCovered /\ s.last # 0 /\ applied \subseteq applied'
    BY <1>1, <1>2, <1>10, CoveredMeans DEF Shape
  <2>2. ASSUME NEW r \in rows, r <= watermark', r \notin applied'
        PROVE  \E q \in Procs : WillReplay(q, r)'
    <3>1. CASE r > watermark
      <4>1. s.mode = "rebuild" /\ r > s.last
        BY <1>7, <2>2, <3>1
      <4> QED BY <1>8, <2>1, <4>1
    <3>2. CASE r <= watermark
      <4>1. PICK q \in Procs : WillReplay(q, r)
        BY <2>1, <2>2, <3>2 DEF RowsCovered
      <4>2. CASE q # p
        <5>1. projector'[q] = projector[q]
          BY <4>2, CommitFact
        <5> QED BY <4>1, <5>1 DEF WillReplay
      <4>3. CASE q = p
        <5>1. s.mode = "rebuild" /\ s.from <= r
          BY <4>1, <4>3 DEF WillReplay
        <5>2. ~(r <= s.last)
          BY <1>1, <1>3, <2>2, <5>1
        <5>3. r > s.last
          BY <1>3, <1>4, <5>2
        <5> QED BY <1>8, <2>1, <5>1, <5>3
      <4> QED BY <4>2, <4>3
    <3> QED BY <1>3, <1>4, <3>1, <3>2
  <2> QED BY <1>1, <2>2 DEF RowsCovered
<1> QED BY <1>3, <1>9, <1>10

LEMMA CoveredReset ==
    ASSUME Inv, RowsCovered, NEW S \in SUBSET rows, ResetRows(S) PROVE RowsCovered'
<1>1. /\ rows' = rows \ S /\ applied' = applied \ S /\ UNCHANGED watermark /\ DaemonFree
      /\ projector' = [p \in Procs |->
            IF p = Daemon THEN [Idle EXCEPT !.mode = "reset", !.pc = "reset"]
            ELSE [projector[p] EXCEPT !.page = @ \ S]]
  BY DEF ResetRows
<1>2. ASSUME NEW r \in rows, NEW q \in Procs, WillReplay(q, r) PROVE WillReplay(q, r)'
  <2>1. q # Daemon
    BY <1>1, <1>2, DaemonModes DEF WillReplay
  <2> DEFINE s == projector[q]
             n == projector'[q]
  <2>2. s \in Projector /\ n = [s EXCEPT !.page = s.page \ S]
    BY <1>1, <2>1 DEF Inv, TypeOK
  <2>3. s.mode = "rebuild" /\ ~s.clear /\ s.pc \in {"read", "commit"} /\ s.from <= r
    BY <1>2 DEF WillReplay
  <2> HIDE DEF s, n
  <2>4. n.mode = s.mode /\ n.clear = s.clear /\ n.pc = s.pc /\ n.from = s.from
    BY <2>2 DEF Projector
  <2>5. n.mode = "rebuild" /\ ~n.clear /\ n.pc \in {"read", "commit"} /\ n.from <= r
    BY <2>3, <2>4
  <2> QED BY <2>5 DEF WillReplay, n
<1>3. ASSUME NEW r \in rows', r <= watermark', r \notin applied'
      PROVE  \E q \in Procs : WillReplay(q, r)'
  BY <1>1, <1>2, <1>3 DEF RowsCovered
<1> QED BY <1>3 DEF RowsCovered

LEMMA CoveredIngest ==
    ASSUME Inv, RowsCovered, WithinRows, NEW k \in 1..MaxRow, Ingest(k) PROVE RowsCovered'
<1>1. /\ UNCHANGED <<applied, watermark>> /\ DaemonFree
  BY DEF Ingest
<1>2. PICK t \in 0..MaxRow :
          /\ IsTop(t) /\ rows' = rows \cup (t + 1)..(t + k)
          /\ \/ projector' = [projector EXCEPT ![Daemon] = Projecting("realtime", t + 1, t + k)]
             \/ UNCHANGED projector
  BY DEF Ingest
<1>3. watermark <= t /\ t \in Nat /\ watermark \in Nat
  <2>1. PICK u \in rows \cup {0} : watermark <= u
    BY DEF WithinRows
  <2>2. u <= t /\ u \in Nat
    BY <1>2, <2>1, FlagTypes DEF IsTop, Rowids
  <2>3. watermark \in Nat
    BY FlagTypes
  <2> QED BY <1>2, <2>1, <2>2, <2>3
<1>4. \A r \in rows' : r <= watermark => r \in rows
  BY <1>2, <1>3, RunTypes
<1>5. ASSUME NEW r \in rows, NEW q \in Procs, WillReplay(q, r) PROVE WillReplay(q, r)'
  <2>1. q # Daemon
    BY <1>1, <1>5, DaemonModes DEF WillReplay
  <2>2. projector'[q] = projector[q]
    BY <1>2, <2>1 DEF Inv, TypeOK
  <2> QED BY <1>5, <2>2 DEF WillReplay
<1> QED BY <1>1, <1>4, <1>5 DEF RowsCovered

LEMMA CoveredStep ==
    Inv /\ WorkersDefer /\ Laid /\ Inside /\ Covered /\ [Next]_vars => Covered'
<1> SUFFICES ASSUME Inv, WorkersDefer, Laid, Inside, Covered, [Next]_vars, ~cut', ~overtaken'
             PROVE  RowsCovered'
  BY DEF Covered, RowsCovered
<1>0. /\ Workers \subseteq Procs /\ Daemon \in Procs /\ Daemon \notin Workers
      /\ projector \in [Procs -> Projector]
  BY FlagTypes, ProjectionAssumption DEF Inv, TypeOK
<1>a. ASSUME ~overtaken, ~cut PROVE RowsCovered
  BY <1>a, CoveredMeans
<1>1. CASE UNCHANGED vars \/ StartSync \/ EndSync \/ RunDone \/ Bootstrap \/ QueueRebuild
  <2>1. UNCHANGED <<rows, applied, watermark, projector, cut, overtaken>>
    BY <1>1 DEF vars, StartSync, EndSync, RunDone, Bootstrap, QueueRebuild
  <2> QED BY <1>a, <2>1, CoveredStays
<1>2. ASSUME NEW k \in 1..MaxRow, Ingest(k) PROVE RowsCovered'
  <2>1. UNCHANGED <<cut, overtaken>> /\ DaemonFree
    BY <1>2 DEF Ingest
  <2>2. WithinRows
    BY <2>1, DaemonModes DEF Inside
  <2> QED BY <1>a, <1>2, <2>1, <2>2, CoveredIngest
<1>3. CASE RealtimeDone \/ MergeContactsDone \/ MergeContacts
  <2>1. /\ \E s : projector' = [projector EXCEPT ![Daemon] = s]
        /\ UNCHANGED <<rows, applied, watermark, cut, overtaken>>
    BY <1>3 DEF RealtimeDone, MergeContactsDone, MergeContacts
  <2>2. \A q \in Procs : q # Daemon => projector'[q] = projector[q]
    BY <1>0, <2>1
  <2>3. projector[Daemon].mode # "rebuild" \/ projector[Daemon].pc = "finish"
    BY <1>3, DaemonModes DEF RealtimeDone, MergeContactsDone, MergeContacts
  <2> QED BY <1>0, <1>a, <2>1, <2>2, <2>3, FreeCutsNothing, CoveredMoves
<1>4. ASSUME NEW p \in Procs, ReadPage(p) PROVE RowsCovered'
  BY <1>a, <1>4, CoveredRead DEF ReadPage
<1>5. ASSUME NEW p \in Procs, CommitPage(p) PROVE RowsCovered'
  <2>1. ~overtaken /\ ProcsLow
    BY <1>5 DEF CommitPage, Laid
  <2> QED BY <1>5, <2>1, CoveredCommit
<1>6. ASSUME NEW w \in Workers, StartRun(w) \/ FinishRun(w) PROVE RowsCovered'
  <2>1. /\ \E s : projector' = [projector EXCEPT ![w] = s]
        /\ UNCHANGED <<rows, applied, watermark, cut, overtaken>>
        /\ projector[w] = Idle \/ projector[w].pc = "finish"
    BY <1>6 DEF StartRun, FinishRun
  <2>2. \A q \in Procs : q # w => projector'[q] = projector[q]
    BY <1>0, <2>1
  <2>3. ~CutsRebuild(w)
    BY <2>1, IdleType DEF CutsRebuild
  <2> QED BY <1>0, <1>a, <2>1, <2>2, <2>3, CoveredMoves
<1>7. ASSUME NEW p \in Procs, projector' = [projector EXCEPT ![p] = Idle],
             cut' = (cut \/ CutsRebuild(p)), UNCHANGED <<rows, applied, watermark>>, ~overtaken
      PROVE  RowsCovered'
  <2>1. \A q \in Procs : q # p => projector'[q] = projector[q]
    BY <1>0, <1>7
  <2> QED BY <1>a, <1>7, <2>1, CoveredMoves
<1>8. ASSUME NEW w \in Workers, WorkerFails(w) PROVE RowsCovered'
  BY <1>0, <1>7, <1>8 DEF WorkerFails
<1>9. CASE DaemonProjectionFails
  BY <1>0, <1>7, <1>9 DEF DaemonProjectionFails
<1>10. CASE Restart
  BY <1>0, <1>7, <1>10 DEF Restart
<1>11. ASSUME NEW S \in SUBSET rows, ResetRows(S) PROVE RowsCovered'
  BY <1>a, <1>11, CoveredReset DEF ResetRows
<1>12. CASE ResetWatermark
  <2>1. watermark' = 0 /\ UNCHANGED rows
    BY <1>12 DEF ResetWatermark
  <2>2. \A r \in rows : ~(r <= 0)
    BY FlagTypes DEF Rowids
  <2> QED BY <2>1, <2>2 DEF RowsCovered
<1> QED BY <1>1, <1>2, <1>3, <1>4, <1>5, <1>6, <1>8, <1>9, <1>10, <1>11, <1>12 DEF Next

-----------------------------------------------------------------------------
(* A replay in the daemon ends with nothing left to project. *)
LEMMA WholePage ==
    ASSUME Inv, ReadPage(Daemon), projector[Daemon].mode = "rebuild",
           projector'[Daemon].last \in Rowids, PageEnds(Daemon, projector'[Daemon].last),
           NEW r \in rows
    PROVE  r <= projector'[Daemon].last
<1> DEFINE l == projector'[Daemon].last
           s == projector[Daemon]
           page == Within(s.from, l)
<1>1. /\ rows \subseteq Rowids /\ MaxRow \in Nat /\ l \in Nat /\ r \in Nat
      /\ s.from \in Nat /\ s.to = MaxRow /\ r <= MaxRow /\ 1 <= l /\ l <= MaxRow
  BY FlagTypes, RunTypes DEF Inv, TypeOK, Projector, Shape, Rowids
<1>2. /\ l \in Within(s.from, s.to)
      /\ Cardinality(page) = MaxRow \/ \A q \in Within(s.from, s.to) : q <= l
  BY DEF PageEnds, PageLimit
<1>3. CASE r < s.from
  <2>1. s.from <= l
    BY <1>2 DEF Within
  <2> QED BY <1>1, <1>3, <2>1
<1>4. CASE s.from <= r
  <2>1. r \in Within(s.from, s.to)
    BY <1>1, <1>4 DEF Within
  <2>2. CASE \A q \in Within(s.from, s.to) : q <= l
    BY <2>1, <2>2
  <2>3. CASE Cardinality(page) = MaxRow
    <3>1. page \subseteq 1..l /\ IsFiniteSet(1..l) /\ Cardinality(1..l) = l
      <4>1. page \subseteq 1..l
        <5>1. ASSUME NEW q \in page PROVE q \in 1..l
          <6>1. q \in 1..MaxRow /\ q <= l
            BY <1>1 DEF Within, Rowids
          <6> QED BY <1>1, <6>1
        <5> QED BY <5>1
      <4>2. 1 \in Int /\ l \in Int /\ ~(1 > l)
        BY <1>1
      <4>3. IsFiniteSet(1..l) /\ Cardinality(1..l) = l - 1 + 1
        BY <4>2, FS_Interval
      <4> QED BY <1>1, <4>1, <4>3
    <3>2. Cardinality(page) <= l
      BY <3>1, FS_Subset
    <3> QED BY <1>1, <2>3, <3>2
  <2> QED BY <1>2, <2>2, <2>3
<1> QED BY <1>1, <1>3, <1>4

LEMMA ReplayStep == Inv /\ WorkersDefer /\ DaemonReplay /\ [Next]_vars => DaemonReplay'
<1> SUFFICES ASSUME Inv, WorkersDefer, DaemonReplay, [Next]_vars PROVE DaemonReplay'
  OBVIOUS
<1>0. /\ Workers \subseteq Procs /\ Daemon \in Procs /\ Daemon \notin Workers
      /\ projector \in [Procs -> Projector]
      /\ watermark \in Nat /\ rows \subseteq Rowids /\ rows \subseteq Nat /\ MaxRow \in Nat
  BY FlagTypes, RunTypes, ProjectionAssumption DEF Inv, TypeOK, Rowids
<1>1. ASSUME projector'[Daemon] = projector[Daemon], UNCHANGED rows,
             watermark' \in Nat, watermark <= watermark'
      PROVE  DaemonReplay'
  BY <1>0, <1>1 DEF DaemonReplay, Backlog
<1>2. ASSUME NEW s, projector' = [projector EXCEPT ![Daemon] = s], s.mode # "rebuild"
      PROVE  DaemonReplay'
  BY <1>0, <1>2 DEF DaemonReplay
<1>3. CASE UNCHANGED vars \/ StartSync \/ EndSync \/ RunDone \/ Bootstrap \/ QueueRebuild
  <2>1. UNCHANGED <<projector, rows, watermark>>
    BY <1>3 DEF vars, StartSync, EndSync, RunDone, Bootstrap, QueueRebuild
  <2> QED BY <1>0, <1>1, <2>1
<1>4. ASSUME NEW k \in 1..MaxRow, Ingest(k) PROVE DaemonReplay'
  <2>1. PICK t \in 0..MaxRow :
          \/ projector' = [projector EXCEPT ![Daemon] = Projecting("realtime", t + 1, t + k)]
          \/ UNCHANGED projector
    BY <1>4 DEF Ingest
  <2>2. projector[Daemon].mode = "none"
    BY <1>4, DaemonModes DEF Ingest
  <2>3. Projecting("realtime", t + 1, t + k).mode = "realtime"
    BY <1>0, ProjectingType
  <2> QED BY <1>2, <2>1, <2>2, <2>3 DEF DaemonReplay
<1>5. CASE RealtimeDone \/ MergeContactsDone \/ DaemonProjectionFails \/ ResetWatermark \/ Restart
  <2>1. projector' = [projector EXCEPT ![Daemon] = Idle]
    BY <1>5 DEF RealtimeDone, MergeContactsDone, DaemonProjectionFails, ResetWatermark, Restart
  <2> QED BY <1>2, <2>1, IdleType
<1>6. CASE MergeContacts
  <2>1. projector' = [projector EXCEPT ![Daemon] = Projecting("rebuild", 1, MaxRow)]
    BY <1>6 DEF MergeContacts
  <2> DEFINE s == Projecting("rebuild", 1, MaxRow)
  <2>2. s.pc = "read" /\ s.clear = ("rebuild" = "rebuild")
    BY <1>0, ProjectingType
  <2> HIDE DEF s
  <2>3. projector'[Daemon] = s
    BY <1>0, <2>1 DEF s
  <2> QED BY <2>2, <2>3 DEF DaemonReplay
<1>7. ASSUME NEW p \in Procs, ReadPage(p) PROVE DaemonReplay'
  <2>1. UNCHANGED <<rows, watermark>>
    BY <1>7 DEF ReadPage
  <2>2. CASE p # Daemon
    BY <1>0, <1>1, <1>7, <2>1, <2>2, ReadFact
  <2>3. CASE p = Daemon /\ projector[Daemon].mode = "rebuild"
    <3> DEFINE s == projector[Daemon]
               n == projector'[Daemon]
    <3>1. s.to = MaxRow /\ (s.clear => s.from = 1) /\ s.clear \in BOOLEAN
      BY <1>0, <2>3 DEF Inv, Shape, Projector
    <3>2. CASE n.last \in Rowids /\ PageEnds(Daemon, n.last) /\ n.pc = "commit"
      <4>1. \A r \in rows : r <= n.last
        BY <1>7, <2>3, <3>2, WholePage
      <4> QED BY <2>1, <3>2, <4>1 DEF DaemonReplay
    <3>3. CASE Within(s.from, s.to) = {} /\ s.clear /\ n.pc = "commit"
      <4>1. rows = {}
        BY <1>0, <3>1, <3>3 DEF Within, Rowids
      <4> QED BY <2>1, <3>3, <4>1 DEF DaemonReplay
    <3>4. CASE ~s.clear /\ n.pc = "finish"
      <4>1. ~Backlog
        BY <1>7, <2>3, <3>4, ReadFact DEF DaemonReplay
      <4> QED BY <2>1, <3>4, <4>1 DEF DaemonReplay, Backlog
    <3> QED BY <1>7, <2>3, <3>1, <3>2, <3>3, <3>4, ReadFact
  <2>4. CASE p = Daemon /\ projector[Daemon].mode # "rebuild"
    BY <1>7, <2>4, ReadFact DEF DaemonReplay
  <2> QED BY <2>2, <2>3, <2>4
<1>8. ASSUME NEW p \in Procs, CommitPage(p) PROVE DaemonReplay'
  <2>1. UNCHANGED rows /\ watermark' \in Nat /\ watermark <= watermark'
    <3>1. UNCHANGED rows
      BY <1>8 DEF CommitPage
    <3> QED BY <1>0, <1>8, <3>1, WatermarkFact
  <2>2. CASE p # Daemon
    BY <1>1, <1>0, <1>8, <2>1, <2>2, CommitFact
  <2>3. CASE p = Daemon /\ projector[Daemon].mode = "rebuild"
    <3>1. projector[Daemon].last <= watermark' /\ projector[Daemon].last \in Nat
      BY <1>0, <1>8, <2>3, WatermarkFact DEF Projector
    <3>2. \A r \in rows : r <= projector[Daemon].last
      BY <1>8, <2>3, CommitFact DEF DaemonReplay
    <3>3. ~Backlog'
      BY <1>0, <2>1, <3>1, <3>2 DEF Backlog
    <3>4. projector'[Daemon].pc \in {"read", "finish"}
      BY <1>0, <1>8, <2>3, CommitFact
    <3> QED BY <3>3, <3>4 DEF DaemonReplay
  <2>4. CASE p = Daemon /\ projector[Daemon].mode # "rebuild"
    BY <1>8, <2>4, CommitFact DEF DaemonReplay
  <2> QED BY <2>2, <2>3, <2>4
<1>9. ASSUME NEW w \in Workers, StartRun(w) \/ FinishRun(w) \/ WorkerFails(w) PROVE DaemonReplay'
  <2>1. UNCHANGED <<rows, watermark>> /\ \E s : projector' = [projector EXCEPT ![w] = s]
    BY <1>9 DEF StartRun, FinishRun, WorkerFails
  <2>2. projector'[Daemon] = projector[Daemon]
    BY <1>0, <2>1
  <2> QED BY <1>0, <1>1, <2>1, <2>2
<1>10. ASSUME NEW S \in SUBSET rows, ResetRows(S) PROVE DaemonReplay'
  <2>1. projector'[Daemon].mode = "reset"
    <3>1. projector' = [p \in Procs |->
            IF p = Daemon THEN [Idle EXCEPT !.mode = "reset", !.pc = "reset"]
            ELSE [projector[p] EXCEPT !.page = @ \ S]]
      BY <1>10 DEF ResetRows
    <3> QED BY <1>0, <3>1, IdleType DEF Projector
  <2> QED BY <2>1 DEF DaemonReplay
<1> QED BY <1>3, <1>4, <1>5, <1>6, <1>7, <1>8, <1>9, <1>10 DEF Next

-----------------------------------------------------------------------------
(* Queueing the backlog leaves a queued run behind, or a note that none is. *)
LEMMA BacklogQueued ==
    ASSUME Inv, NEW t \in Nat, watermark < t, QueueBacklog(t)
    PROVE  unattended' \/ queue' # {}
<1>1. CASE queue' \in QueueTo(queue, Project(watermark + 1, t))
  <2>1. /\ Project(watermark + 1, t) \in Run /\ watermark + 1 <= watermark + 1
        /\ Project(watermark + 1, t).from = watermark + 1 /\ Project(watermark + 1, t).to = t
    BY RunTypes, FlagTypes
  <2> QED BY <1>1, <2>1, QueueFact DEF Inv, TypeOK
<1>2. CASE unattended' = TRUE
  BY <1>2
<1> QED BY <1>1, <1>2 DEF QueueBacklog

LEMMA TopBacklog ==
    ASSUME Inv, Backlog, NEW t \in rows, IsTop(t) PROVE watermark < t /\ t \in Nat
<1>1. PICK r \in rows : watermark < r
  BY DEF Backlog
<1>2. r <= t /\ r \in Nat /\ t \in Nat /\ watermark \in Nat
  BY FlagTypes DEF IsTop, Rowids
<1> QED BY <1>1, <1>2

LEMMA AttendedAfter ==
    ASSUME Inv, UNCHANGED <<rows, watermark>>,
           IF Backlog THEN \E t \in rows : IsTop(t) /\ QueueBacklog(t)
                      ELSE UNCHANGED <<queue, unattended>>
    PROVE  BacklogIsAttended'
<1>1. CASE Backlog
  <2>1. PICK t \in rows : IsTop(t) /\ QueueBacklog(t)
    BY <1>1
  <2>2. unattended' \/ queue' # {}
    BY <1>1, <2>1, TopBacklog, BacklogQueued
  <2> QED BY <2>2 DEF BacklogIsAttended
<1>2. CASE ~Backlog
  BY <1>2 DEF BacklogIsAttended, Backlog
<1> QED BY <1>1, <1>2

LEMMA AttendedStep ==
    Inv /\ DaemonReplay /\ BacklogIsAttended /\ [Next]_vars => BacklogIsAttended'
<1> SUFFICES ASSUME Inv, DaemonReplay, BacklogIsAttended, [Next]_vars PROVE BacklogIsAttended'
  OBVIOUS
<1>0. /\ Workers \subseteq Procs /\ Daemon \in Procs /\ Daemon \notin Workers
      /\ projector \in [Procs -> Projector]
      /\ watermark \in Nat /\ rows \subseteq Rowids /\ rows \subseteq Nat /\ MaxRow \in Nat
  BY FlagTypes, RunTypes, ProjectionAssumption DEF Inv, TypeOK, Rowids
<1>1. CASE UNCHANGED vars \/ StartSync \/ EndSync
  BY <1>1 DEF vars, StartSync, EndSync, BacklogIsAttended, Backlog, DaemonFree
<1>2. ASSUME NEW k \in 1..MaxRow, Ingest(k) PROVE BacklogIsAttended'
  <2>1. PICK t \in 0..MaxRow :
          /\ IsTop(t) /\ rows' = rows \cup (t + 1)..(t + k)
          /\ \/ projector' = [projector EXCEPT ![Daemon] = Projecting("realtime", t + 1, t + k)]
             \/ QueueBacklog(t + k)
    BY <1>2 DEF Ingest
  <2>2. t \in Nat /\ k \in Nat /\ t + 1 \in Nat /\ t + k \in Nat /\ UNCHANGED watermark
    BY <1>0, <1>2 DEF Ingest
  <2>3. CASE projector' = [projector EXCEPT ![Daemon] = Projecting("realtime", t + 1, t + k)]
    <3> DEFINE s == Projecting("realtime", t + 1, t + k)
    <3>1. s.pc = "read"
      BY <2>2, ProjectingType
    <3> HIDE DEF s
    <3>2. projector'[Daemon] = s
      BY <1>0, <2>3 DEF s
    <3> QED BY <3>1, <3>2 DEF BacklogIsAttended, DaemonFree
  <2>4. CASE QueueBacklog(t + k)
    <3>1. Backlog' => watermark < t + k
      <4>1. \A r \in rows' : r <= t + k /\ r \in Nat
        BY <1>0, <2>1, <2>2 DEF IsTop
      <4> QED BY <1>0, <2>2, <4>1 DEF Backlog
    <3> QED BY <2>2, <2>4, <3>1, BacklogQueued DEF BacklogIsAttended
  <2> QED BY <2>1, <2>3, <2>4
<1>3. CASE RealtimeDone
  BY <1>3, AttendedAfter DEF RealtimeDone
<1>4. CASE MergeContacts
  <2> DEFINE s == Projecting("rebuild", 1, MaxRow)
  <2>1. s.pc = "read"
    BY <1>0, ProjectingType
  <2> HIDE DEF s
  <2>2. projector'[Daemon] = s
    BY <1>0, <1>4 DEF MergeContacts, s
  <2> QED BY <2>1, <2>2 DEF BacklogIsAttended, DaemonFree
<1>5. CASE MergeContactsDone
  <2>1. ~Backlog /\ UNCHANGED <<rows, watermark>>
    BY <1>5 DEF MergeContactsDone, DaemonReplay
  <2> QED BY <2>1 DEF BacklogIsAttended, Backlog
<1>6. ASSUME NEW p \in Procs, ReadPage(p) PROVE BacklogIsAttended'
  <2>1. UNCHANGED <<rows, watermark, unattended, ready, queue, running>>
    BY <1>6 DEF ReadPage
  <2>2. DaemonFree' => DaemonFree
    <3>1. CASE p = Daemon
      BY <1>6, <3>1, ReadFact DEF DaemonFree
    <3>2. CASE p # Daemon
      BY <1>0, <1>6, <3>2, ReadFact DEF DaemonFree
    <3> QED BY <3>1, <3>2
  <2> QED BY <2>1, <2>2 DEF BacklogIsAttended, Backlog
<1>7. ASSUME NEW p \in Procs, CommitPage(p) PROVE BacklogIsAttended'
  <2>1. UNCHANGED <<rows, unattended, ready, queue, running>>
    BY <1>7 DEF CommitPage
  <2>2. DaemonFree' => DaemonFree
    <3>1. CASE p = Daemon
      BY <1>7, <3>1, CommitFact DEF DaemonFree
    <3>2. CASE p # Daemon
      BY <1>0, <1>7, <3>2, CommitFact DEF DaemonFree
    <3> QED BY <3>1, <3>2
  <2>3. Backlog' => Backlog
    <3>1. watermark <= watermark' /\ watermark' \in Nat
      BY <1>0, <1>7, WatermarkFact
    <3> QED BY <1>0, <2>1, <3>1 DEF Backlog
  <2> QED BY <2>1, <2>2, <2>3 DEF BacklogIsAttended
<1>8. ASSUME NEW w \in Workers, StartRun(w) PROVE BacklogIsAttended'
  <2>1. running'.worker = w
    BY <1>8 DEF StartRun, NotRunning
  <2>2. running' # NotRunning
    BY <2>1, RunTypes, ProjectionAssumption
  <2> QED BY <2>2 DEF BacklogIsAttended
<1>9. ASSUME NEW w \in Workers, FinishRun(w) PROVE BacklogIsAttended'
  <2>1. /\ UNCHANGED <<rows, watermark, queue, ready, unattended>>
        /\ projector' = [projector EXCEPT ![w] = Idle]
    BY <1>9 DEF FinishRun
  <2>2. DaemonFree' <=> DaemonFree
    BY <1>0, <2>1 DEF DaemonFree
  <2>3. CASE running.worker = w
    <3> DEFINE next == IF projector[w].from <= projector[w].to THEN projector[w].from ELSE 0
    <3>1. running' = [running EXCEPT !.finished = TRUE, !.next = next]
      BY <1>9, <2>3 DEF FinishRun
    <3> HIDE DEF next
    <3>2. running'.worker = w
      BY <2>3, <3>1, InvParts DEF QueueOK, RunningType
    <3>3. running' # NotRunning
      BY <3>2, RunTypes, ProjectionAssumption
    <3> QED BY <3>3 DEF BacklogIsAttended
  <2>4. CASE running.worker # w
    <3>1. UNCHANGED running
      BY <1>9, <2>4 DEF FinishRun
    <3> QED BY <2>1, <2>2, <3>1 DEF BacklogIsAttended, Backlog
  <2> QED BY <2>3, <2>4
<1>10. ASSUME NEW w \in Workers, WorkerFails(w) PROVE BacklogIsAttended'
  <2>1. /\ UNCHANGED <<rows, watermark, queue, ready>>
        /\ projector' = [projector EXCEPT ![w] = Idle]
        /\ unattended' = TRUE \/ UNCHANGED <<running, unattended>>
    BY <1>10 DEF WorkerFails
  <2>2. DaemonFree' <=> DaemonFree
    BY <1>0, <2>1 DEF DaemonFree
  <2> QED BY <2>1, <2>2 DEF BacklogIsAttended, Backlog
<1>11. CASE RunDone
  <2>1. UNCHANGED <<rows, watermark>>
    BY <1>11 DEF RunDone
  <2>2. CASE unattended' = TRUE
    BY <2>2 DEF BacklogIsAttended
  <2>3. CASE \E t \in rows \cup {0} :
               IsTop(t) /\ queue' \in Continuation(t) /\ unattended' = FALSE
    <3>1. PICK t \in rows \cup {0} : queue' \in Continuation(t) /\ IsTop(t)
      BY <2>3
    <3>2. t \in Nat
      BY <3>1, TopType
    <3>3. PICK Q \in IF running.next # 0 /\ running.run.kind = "project"
                     THEN QueueTo(queue, Project(running.next, running.run.to))
                     ELSE {queue} :
             queue' \in QueueTo(Q, Project(watermark + 1, t))
      BY <3>1 DEF Continuation
    <3>4. /\ Project(running.next, running.run.to) \in Run
          /\ Project(watermark + 1, t) \in Run
          /\ Project(watermark + 1, t).from <= watermark + 1
          /\ Project(watermark + 1, t).to = t
      BY <1>0, <3>2, RunTypes, InvParts DEF QueueOK, RunningType, Run
    <3>5. Q \in SUBSET Run
      BY <3>3, <3>4, QueueFact, InvParts DEF QueueOK, Inv
    <3>6. Backlog => watermark < t
      <4>1. \A r \in rows : r <= t
        BY <3>1 DEF IsTop
      <4> QED BY <1>0, <3>2, <4>1 DEF Backlog
    <3>7. Backlog => queue' # {}
      BY <3>3, <3>4, <3>5, <3>6, QueueFact DEF Inv
    <3> QED BY <2>1, <3>7 DEF BacklogIsAttended, Backlog
  <2> QED BY <1>11, <2>2, <2>3 DEF RunDone
<1>12. CASE DaemonProjectionFails \/ ResetWatermark
  <2>1. unattended' = TRUE
    BY <1>12 DEF DaemonProjectionFails, ResetWatermark
  <2> QED BY <2>1 DEF BacklogIsAttended
<1>13. ASSUME NEW S \in SUBSET rows, ResetRows(S) PROVE BacklogIsAttended'
  <2>1. projector' = [p \in Procs |->
            IF p = Daemon THEN [Idle EXCEPT !.mode = "reset", !.pc = "reset"]
            ELSE [projector[p] EXCEPT !.page = @ \ S]]
    BY <1>13 DEF ResetRows
  <2>2. projector'[Daemon].pc = "reset"
    BY <1>0, <2>1, IdleType DEF Projector
  <2> QED BY <2>2 DEF BacklogIsAttended, DaemonFree
<1>14. CASE Restart
  <2>1. ready' = FALSE
    BY <1>14 DEF Restart
  <2> QED BY <2>1 DEF BacklogIsAttended
<1>15. CASE Bootstrap
  BY <1>15, AttendedAfter DEF Bootstrap
<1>16. CASE QueueRebuild
  <2>1. queue' # {}
    BY <1>16 DEF QueueRebuild
  <2> QED BY <2>1 DEF BacklogIsAttended
<1> QED BY <1>1, <1>2, <1>3, <1>4, <1>5, <1>6, <1>7, <1>8, <1>9, <1>10, <1>11, <1>12,
           <1>13, <1>14, <1>15, <1>16 DEF Next

-----------------------------------------------------------------------------
LEMMA IInvInit == Init => IInv
<1> SUFFICES ASSUME Init PROVE IInv
  OBVIOUS
<1>1. Inv
  BY InvInit
<1>2. \A p \in Procs : projector[p] = Idle
  BY DEF Init
<1>3. projector[Daemon] = Idle /\ Workers \subseteq Procs
  BY <1>1, <1>2, FlagTypes
<1>4. WorkersDefer /\ DaemonReplay
  BY <1>2, <1>3, IdleType DEF WorkersDefer, DaemonReplay
<1>5. Laid
  <2>1. QueueLow
    BY RunTypes DEF Init, QueueLow
  <2>2. ProcsLow
    BY <1>2, IdleLow DEF ProcsLow, Low
  <2> QED BY <2>1, <2>2 DEF Laid
<1>6. Inside
  BY <1>2, IdleType DEF Init, Inside, WithinRows, Placed
<1>7. Covered /\ BacklogIsAttended
  BY DEF Init, Covered, BacklogIsAttended, Backlog
<1> QED BY <1>1, <1>4, <1>5, <1>6, <1>7 DEF IInv

LEMMA IInvStep == IInv /\ [Next]_vars => IInv'
BY InvStep, WorkersStep, LaidStep, CoveredStep, ReplayStep, AttendedStep DEF IInv

(* The watermark never runs ahead of the canonical tables, however the     *)
(* daemon, its workers and the workers of earlier daemons interleave, for  *)
(* any number of workers and rows and any page size: a page was read from  *)
(* right above the watermark of its time or below, and the watermark only  *)
(* rises until it is committed.                                            *)
THEOREM WatermarkCovered == Spec => []Covered
<1>1. IInv => Covered
  BY DEF IInv
<1> QED BY <1>1, IInvInit, IInvStep, PTL DEF Spec

(* A backlog always has somebody to project it, unless the last attempt to *)
(* queue or run a projection was skipped or failed: whatever a finished    *)
(* projection leaves behind is queued again.                               *)
THEOREM BacklogAttended == Spec => []BacklogIsAttended
<1>1. IInv => BacklogIsAttended
  BY DEF IInv
<1> QED BY <1>1, IInvInit, IInvStep, PTL DEF Spec
=============================================================================
