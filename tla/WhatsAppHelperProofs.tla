------------------------ MODULE WhatsAppHelperProofs ------------------------
(***************************************************************************)
(* Proofs about WhatsAppHelper, for any messages and calls, anything the   *)
(* provider may deliver, any size of page, any budget of pages and any     *)
(* failures.                                                               *)
(*                                                                         *)
(* That what was acknowledged is kept needs what each goroutine has in     *)
(* hand: HandlerHolds and HistorianHolds.  That nothing is skipped needs   *)
(* what a run has yet to bring, at each of its steps (RunHolds), and the   *)
(* page on its way (PagesHold); snapshots do not run ahead of the clock    *)
(* they were taken from (Snapshots).                                       *)
(***************************************************************************)
EXTENDS WhatsAppHelper, FiniteSetTheorems, SequenceTheorems, TLAPS

(* What the handler has stored is kept, before the provider is told.       *)
HandlerHolds ==
    handler = "stored" /\ Item.kind \in {"message", "call", "history"} =>
        \A o \in Item.obs : Kept(o)

(* The first chunk of the queue is in the batch that is to be applied, as  *)
(* far as it is not in the cache; once that is applied, it is in the cache.*)
HistorianHolds ==
    /\ historian.pc = "filtered" =>
          /\ \A b, c \in historian.batch : b.of = c.of => b = c
          /\ \A o \in Head(queue) :
                InCache(o) \/ \E b \in historian.batch :
                                  b.of = o.of /\ (o.revoked => b.revoked)
    /\ historian.pc = "applied" => \A o \in Head(queue) : InCache(o)

-----------------------------------------------------------------------------
(* A row is no younger than the clock; a cursor is no younger than the     *)
(* last snapshot, by which late rows are told.                             *)
Snapshots ==
    /\ \A e \in Entries : cache[e] # None => cache[e].at \in 1..now
    /\ checkpoint.source # None =>
          IF checkpoint.source.resync = None
          THEN checkpoint.source.last # None /\ checkpoint.source.last <= taken
          ELSE /\ checkpoint.source.resync.since <= taken
               /\ checkpoint.source.resync.cursor.snapshot <= taken
    /\ run.since <= taken /\ run.snapshot <= taken
    /\ run.cursor # None => run.cursor.snapshot <= taken
    /\ \A i \in DOMAIN pipe : pipe[i].kind = "page" =>
          /\ pipe[i].snapshot <= taken
          /\ pipe[i].next # None => pipe[i].next.snapshot = pipe[i].snapshot

(* What a resync up to a cursor has yet to bring. *)
Ahead(e, since, cursor) ==
    \/ cache[e].at > cursor.snapshot
    \/ cache[e].at > since /\ Beyond(e, cursor)

(* What the run has yet to bring. *)
RunHolds ==
    /\ run.pc \in {"backfill", "asked"} =>
          \A e \in Entries : Unseen(e) =>
              IF run.cursor = None THEN cache[e].at > run.since
              ELSE Ahead(e, run.since, run.cursor)
    /\ run.pc = "done" =>
          \A e \in Entries : Unseen(e) =>
              IF run.cursor = None THEN cache[e].at > run.snapshot
              ELSE Ahead(e, run.since, run.cursor)

Brings(page, e) ==
    \/ \E o \in page.obs : o.of = e
    \/ cache[e].at > page.snapshot
    \/ page.next # None /\ cache[e].at > run.since /\ Beyond(e, page.next)

(* There is one page at most on its way, to a run that waits for it.       *)
OnePage ==
    /\ \A i, j \in DOMAIN pipe : pipe[i].kind = "page" /\ pipe[j].kind = "page" => i = j
    /\ \A i \in DOMAIN pipe : pipe[i].kind = "page" => run.pc = "answered"

(* It brings what is unseen, or leaves it to the next.                     *)
PagesHold ==
    \A i \in DOMAIN pipe : pipe[i].kind = "page" =>
        \A e \in Entries : Unseen(e) => Brings(pipe[i], e)

-----------------------------------------------------------------------------
(* Least and greatest numbers of finite sets. *)
LEMMA LeastNumber ==
    ASSUME NEW S, IsFiniteSet(S), S \subseteq Nat, S # {}
    PROVE  \E m \in S : \A k \in S : m <= k
<1> DEFINE Below(x) == {y \in S : y < x}
           T == {Below(x) : x \in S}
<1>1. IsWellFoundedOn(StrictSubsetOrdering(S), FiniteSubsetsOf(S))
  BY FS_StrictSubsetOrderingWellFounded
<1>0. /\ \A x, y \in S : y \in Below(x) <=> y < x
      /\ \A x \in S : Below(x) \in SUBSET S
  OBVIOUS
<1>2. T \subseteq FiniteSubsetsOf(S) /\ T # {}
  <2>1. FiniteSubsetsOf(S) = SUBSET S
    BY FS_FiniteSubsetsOfFinite
  <2>2. T \subseteq SUBSET S /\ T # {}
    BY <1>0
  <2>3. QED
    BY <2>1, <2>2
<1>3. \E x \in T : \A y \in T : ~(<<y, x>> \in StrictSubsetOrdering(S))
  BY <1>1, <1>2, WFMin
<1>4. PICK m \in S : \A y \in T : ~(<<y, Below(m)>> \in StrictSubsetOrdering(S))
  BY <1>3
<1>5. ASSUME NEW k \in S, k < m PROVE FALSE
  <2>0. k \in Nat /\ m \in Nat /\ \A y \in S : y \in Nat
    OBVIOUS
  <2>1. Below(k) \subseteq Below(m) /\ k \in Below(m) /\ k \notin Below(k)
    <3>1. (\A y \in S : y < k => y < m) /\ k < m /\ ~(k < k)
      BY <1>5, <2>0
    <3>2. QED
      BY <3>1
  <2>2. Below(k) # Below(m) /\ Below(k) \in SUBSET S /\ Below(m) \in SUBSET S
    BY <2>1
  <2>3. <<Below(k), Below(m)>> \in StrictSubsetOrdering(S)
    BY <2>1, <2>2 DEF StrictSubsetOrdering
  <2>4. Below(k) \in T
    OBVIOUS
  <2>5. QED
    BY <1>4, <2>3, <2>4
<1>6. QED
  BY <1>5

LEMMA GreatestNumber ==
    ASSUME NEW S, IsFiniteSet(S), S \subseteq Nat, S # {}
    PROVE  Max(S) \in S /\ \A k \in S : k <= Max(S)
<1> DEFINE Above(x) == {y \in S : y > x}
           T == {Above(x) : x \in S}
<1>1. IsWellFoundedOn(StrictSubsetOrdering(S), FiniteSubsetsOf(S))
  BY FS_StrictSubsetOrderingWellFounded
<1>0. /\ \A x, y \in S : y \in Above(x) <=> y > x
      /\ \A x \in S : Above(x) \in SUBSET S
  OBVIOUS
<1>2. T \subseteq FiniteSubsetsOf(S) /\ T # {}
  <2>1. FiniteSubsetsOf(S) = SUBSET S
    BY FS_FiniteSubsetsOfFinite
  <2>2. T \subseteq SUBSET S /\ T # {}
    BY <1>0
  <2>3. QED
    BY <2>1, <2>2
<1>3. \E x \in T : \A y \in T : ~(<<y, x>> \in StrictSubsetOrdering(S))
  BY <1>1, <1>2, WFMin
<1>4. PICK m \in S : \A y \in T : ~(<<y, Above(m)>> \in StrictSubsetOrdering(S))
  BY <1>3
<1>5. ASSUME NEW k \in S, k > m PROVE FALSE
  <2>0. k \in Nat /\ m \in Nat /\ \A y \in S : y \in Nat
    OBVIOUS
  <2>1. Above(k) \subseteq Above(m) /\ k \in Above(m) /\ k \notin Above(k)
    <3>1. (\A y \in S : y > k => y > m) /\ k > m /\ ~(k > k)
      BY <1>5, <2>0
    <3>2. QED
      BY <3>1
  <2>2. Above(k) # Above(m) /\ Above(k) \in SUBSET S /\ Above(m) \in SUBSET S
    BY <2>1
  <2>3. <<Above(k), Above(m)>> \in StrictSubsetOrdering(S)
    BY <2>1, <2>2 DEF StrictSubsetOrdering
  <2>4. Above(k) \in T
    OBVIOUS
  <2>5. QED
    BY <1>4, <2>3, <2>4
<1>6. \E x \in S : \A y \in S : x >= y
  BY <1>5
<1>7. QED
  BY <1>6 DEF Max

-----------------------------------------------------------------------------
(* Entries and rows. *)
LEMMA EntryFacts ==
    /\ Entries \subseteq Nat \ {0} /\ IsFiniteSet(Entries)
    /\ Messages \subseteq Entries /\ Calls \subseteq Entries
    /\ \A e \in Entries : e \in Messages <=> e \notin Calls
    /\ None \notin Nat /\ None \notin Row /\ None \notin Cursor
<1>1. IsFiniteSet(Entries)
  BY CacheAssumption, FS_Union DEF Entries
<1>2. QED
  BY <1>1, CacheAssumption, NoneAssumption DEF Entries

LEMMA ObservationFacts ==
    ASSUME NEW o \in Observations
    PROVE  o.of \in Entries /\ o.revoked \in BOOLEAN /\ (o.revoked => o.of \in Messages)
BY DEF Observations, Entries

(* The first rows of a query, up to its limit: what is left out comes after *)
(* them, and there is a row unless there is nothing to find.                *)
Firsts(rows, limit) == {e \in rows : Cardinality({f \in rows : f < e}) < limit}

LEMMA FirstsFound ==
    ASSUME NEW rows \in SUBSET Entries, NEW limit \in Nat \ {0}
    PROVE  LET got == Firsts(rows, limit)
           IN  /\ got \subseteq rows /\ IsFiniteSet(got) /\ Cardinality(got) \in Nat
               /\ rows # {} => got # {}
               /\ got = rows => Cardinality(rows) <= limit
               /\ got # {} => Max(got) \in got
               /\ \A e \in rows \ got : e > Max(got)
<1> DEFINE got == Firsts(rows, limit)
           before(e) == {f \in rows : f < e}
<1>8. \A e : e \in got <=> e \in rows /\ Cardinality(before(e)) < limit
  BY DEF Firsts
<1>9. got \in SUBSET rows
  BY <1>8
<1> HIDE DEF got
<1>1. IsFiniteSet(rows) /\ IsFiniteSet(got) /\ Cardinality(got) \in Nat /\ rows \subseteq Nat
  BY <1>9, EntryFacts, FS_Subset, FS_CardinalityType
<1>2. \A e \in rows : IsFiniteSet(before(e)) /\ Cardinality(before(e)) \in Nat
  BY <1>1, FS_Subset, FS_CardinalityType
<1>0. \A e, f \in rows : e \in Nat /\ (f \in before(e) <=> f < e)
  BY <1>1
<1>3. rows # {} => got # {}
  <2> SUFFICES ASSUME rows # {} PROVE got # {}
    OBVIOUS
  <2>1. PICK m \in rows : \A k \in rows : m <= k
    BY <1>1, LeastNumber
  <2>2. before(m) = {}
    <3>1. \A f \in rows : ~(f < m)
      BY <1>0, <2>1
    <3>2. QED
      BY <3>1
  <2>3. Cardinality(before(m)) = 0
    BY <2>2, FS_EmptySet
  <2>4. m \in got
    BY <1>8, <2>3
  <2>5. QED
    BY <2>4
<1>4. got # {} => Max(got) \in got /\ \A k \in got : k <= Max(got)
  <2>1. got \subseteq Nat
    BY <1>1, <1>9
  <2>2. QED
    BY <1>1, <2>1, GreatestNumber
<1>5. ASSUME NEW e \in rows, e \notin got, NEW g \in got
      PROVE  g < e
  <2>0. e \in Nat /\ g \in Nat /\ g \in rows /\ e # g
    BY <1>0, <1>5, <1>9
  <2> SUFFICES ASSUME e < g PROVE FALSE
    BY <2>0
  <2>1. before(e) \in SUBSET before(g)
    <3>1. \A f \in rows : f < e => f < g
      BY <1>0, <2>0
    <3>2. QED
      BY <3>1
  <2>2. Cardinality(before(e)) <= Cardinality(before(g))
    BY <1>2, <2>0, <2>1, FS_Subset
  <2>3. ~(Cardinality(before(e)) < limit) /\ Cardinality(before(g)) < limit
    BY <1>5, <1>8, <2>0
  <2>4. Cardinality(before(e)) \in Nat /\ Cardinality(before(g)) \in Nat
    BY <1>2, <2>0
  <2> HIDE DEF before
  <2>5. QED
    BY <2>2, <2>3, <2>4
<1>6. got = rows => Cardinality(rows) <= limit
  <2> SUFFICES ASSUME got = rows, rows # {} PROVE Cardinality(rows) <= limit
    BY FS_EmptySet
  <2> DEFINE m == Max(got)
  <2>1. m \in rows /\ \A k \in rows : k <= m
    BY <1>4
  <2> HIDE DEF m
  <2>2. before(m) = rows \ {m}
    <3>1. \A f \in rows : f < m <=> f # m
      BY <1>0, <2>1
    <3>2. QED
      BY <3>1
  <2>3. Cardinality(before(m)) = Cardinality(rows) - 1
    BY <1>1, <2>1, <2>2, FS_RemoveElement
  <2>4. Cardinality(before(m)) < limit
    BY <1>8, <2>1
  <2>5. Cardinality(rows) \in Nat
    BY <1>1, FS_CardinalityType
  <2>6. QED
    BY <2>3, <2>4, <2>5
<1>7. QED
  BY <1>1, <1>3, <1>4, <1>5, <1>6, <1>9 DEF got

(* What a query returns, and what it leaves. *)
LEMMA QueryReturns ==
    ASSUME NEW c \in [Entries -> Rows], NEW kind, kind \in {Messages, Calls},
           NEW since \in Nat, NEW cursor \in Cursor, NEW limit \in Nat \ {0}
    PROVE  LET q == Query(c, kind, since, cursor, limit)
           IN  /\ q.rows \subseteq kind /\ \A e \in q.rows : c[e] # None
               /\ Cardinality(q.rows) \in Nat
               /\ ~q.more => Cardinality(q.rows) <= limit
               /\ q.more => Max(q.rows) \in q.rows
               /\ \A e \in kind : Beyond(e, cursor) /\ InWindow(c[e], since, cursor.snapshot) =>
                     e \in q.rows \/ (q.more /\ e > Max(q.rows))
<1> DEFINE q == Query(c, kind, since, cursor, limit)
           rows == {e \in kind : Beyond(e, cursor) /\ InWindow(c[e], since, cursor.snapshot)}
           got == Firsts(rows, limit)
<1>1. q.rows = got /\ (q.more <=> got # rows)
  BY DEF Query, Firsts
<1>2. kind \subseteq Entries /\ rows \in SUBSET Entries /\ got \subseteq rows
  BY EntryFacts DEF Firsts
<1>4. \A e \in rows : e \in kind /\ c[e] # None
  BY DEF InWindow
<1>5. \A e \in kind : Beyond(e, cursor) /\ InWindow(c[e], since, cursor.snapshot) => e \in rows
  OBVIOUS
<1> HIDE DEF q, rows
<1>3. /\ Cardinality(got) \in Nat
      /\ rows # {} => got # {}
      /\ got = rows => Cardinality(rows) <= limit
      /\ got # {} => Max(got) \in got
      /\ \A e \in rows \ got : e > Max(got)
  BY <1>2, FirstsFound
<1> HIDE DEF got
<1>6. got # rows => got # {}
  BY <1>2, <1>3
<1>7. QED
  BY <1>1, <1>2, <1>3, <1>4, <1>5, <1>6 DEF q

LEMMA ObservedRows ==
    ASSUME NEW c \in [Entries -> Rows], NEW rows \in SUBSET Entries,
           \A e \in rows : c[e] # None,
           \A e \in rows : c[e].revoked => e \in Messages
    PROVE  /\ Observed(c, rows) \in SUBSET Observations
           /\ \A e \in rows : \E o \in Observed(c, rows) : o.of = e
<1>1. \A e \in rows : c[e].revoked \in BOOLEAN
  BY DEF Rows, Row
<1>2. \A e \in rows : [of |-> e, revoked |-> c[e].revoked] \in Observations
  BY <1>1, EntryFacts DEF Observations
<1>3. \A o \in Observed(c, rows) : o \in Observations
  BY <1>2 DEF Observed
<1>4. \A e \in rows : [of |-> e, revoked |-> c[e].revoked] \in Observed(c, rows)
  BY DEF Observed
<1>5. QED
  BY <1>3, <1>4

-----------------------------------------------------------------------------
(* What a page from a cursor, over a window of stamps, has to be: it brings *)
(* each row of the window beyond the cursor, or leaves it to the next page. *)
Complete(page, c, since, cursor) ==
    /\ page.obs \in SUBSET Observations
    /\ page.snapshot = cursor.snapshot
    /\ page.next # None => page.next \in Cursor /\ page.next.snapshot = cursor.snapshot
    /\ \A e \in Entries : Beyond(e, cursor) /\ InWindow(c[e], since, cursor.snapshot) =>
          \/ \E o \in page.obs : o.of = e
          \/ page.next # None /\ Beyond(e, page.next)

(* A page of calls after the messages of the same page, if any: all the     *)
(* messages that remain are on it.                                          *)
LEMMA CallsPageComplete ==
    ASSUME NEW c \in [Entries -> Rows],
           \A e \in Entries : c[e] # None /\ c[e].revoked => e \in Messages,
           NEW since \in Nat, NEW cursor \in Cursor, NEW limit \in Nat \ {0},
           NEW messages \in SUBSET Messages, \A e \in messages : c[e] # None,
           \A e \in Messages : Beyond(e, cursor) /\ InWindow(c[e], since, cursor.snapshot)
               => e \in messages
    PROVE  Complete(CallsPage(c, messages, since, cursor, limit), c, since, cursor)
<1> DEFINE calls == Query(c, Calls, since, cursor, limit)
           next == [cursor EXCEPT !.phase = "calls", !.after = Max(calls.rows)]
           page == CallsPage(c, messages, since, cursor, limit)
<1>1. /\ calls.rows \subseteq Calls /\ \A e \in calls.rows : c[e] # None
      /\ calls.more => Max(calls.rows) \in calls.rows
      /\ \A e \in Calls : Beyond(e, cursor) /\ InWindow(c[e], since, cursor.snapshot) =>
            e \in calls.rows \/ (calls.more /\ e > Max(calls.rows))
  BY QueryReturns
<1>2. /\ page.obs = Observed(c, messages \cup calls.rows)
      /\ page.snapshot = cursor.snapshot
      /\ page.next = IF calls.more THEN next ELSE None
  BY DEF CallsPage
<1> HIDE DEF calls, page
<1>3. calls.more => /\ next \in Cursor /\ next.snapshot = cursor.snapshot
                    /\ next.phase = "calls" /\ next.after = Max(calls.rows)
  BY <1>1, EntryFacts DEF Cursor
<1> HIDE DEF next
<1>4. /\ Observed(c, messages \cup calls.rows) \in SUBSET Observations
      /\ \A e \in messages \cup calls.rows :
            \E o \in Observed(c, messages \cup calls.rows) : o.of = e
  <2> DEFINE rows == messages \cup calls.rows
  <2>1. rows \in SUBSET Entries /\ \A e \in rows : c[e] # None
    BY <1>1, EntryFacts
  <2>2. \A e \in rows : c[e].revoked => e \in Messages
    BY <2>1
  <2> HIDE DEF rows
  <2>3. /\ Observed(c, rows) \in SUBSET Observations
        /\ \A e \in rows : \E o \in Observed(c, rows) : o.of = e
    BY <2>1, <2>2, ObservedRows
  <2>4. QED
    BY <2>3 DEF rows
<1>5. ASSUME NEW e \in Entries, Beyond(e, cursor), InWindow(c[e], since, cursor.snapshot)
      PROVE  \/ \E o \in page.obs : o.of = e
             \/ page.next # None /\ Beyond(e, page.next)
  <2>1. CASE e \in Messages
    BY <1>2, <1>4, <1>5, <2>1
  <2>2. CASE e \in calls.rows
    BY <1>2, <1>4, <2>2
  <2>3. CASE e \in Calls /\ e \notin calls.rows
    <3>1. calls.more /\ e > Max(calls.rows)
      BY <1>1, <1>5, <2>3
    <3>2. page.next = next /\ next \in Cursor
      BY <1>2, <1>3, <3>1
    <3>3. Beyond(e, next)
      BY <1>1, <1>3, <2>3, <3>1, EntryFacts DEF Beyond
    <3>4. QED
      BY <3>2, <3>3, EntryFacts
  <2>4. QED
    BY <2>1, <2>2, <2>3 DEF Entries
<1>6. QED
  BY <1>2, <1>3, <1>4, <1>5 DEF Complete, page

LEMMA ResyncPageComplete ==
    ASSUME NEW c \in [Entries -> Rows],
           \A e \in Entries : c[e] # None /\ c[e].revoked => e \in Messages,
           NEW since \in Nat, NEW cursor \in Cursor, NEW limit \in Nat \ {0}
    PROVE  Complete(ResyncPage(c, since, cursor, limit), c, since, cursor)
<1> DEFINE messages == Query(c, Messages, since, cursor, limit)
           full == [obs |-> Observed(c, messages.rows), snapshot |-> cursor.snapshot,
                    next |-> None]
           calls == [cursor EXCEPT !.phase = "calls", !.after = 0]
           page == ResyncPage(c, since, cursor, limit)
           first == Query(c, Calls, since, calls, 1)
<1>1. /\ messages.rows \subseteq Messages /\ \A e \in messages.rows : c[e] # None
      /\ Cardinality(messages.rows) \in Nat
      /\ ~messages.more => Cardinality(messages.rows) <= limit
      /\ messages.more => Max(messages.rows) \in messages.rows
      /\ \A e \in Messages : Beyond(e, cursor) /\ InWindow(c[e], since, cursor.snapshot) =>
            e \in messages.rows \/ (messages.more /\ e > Max(messages.rows))
  BY QueryReturns
<1>2. page = IF cursor.phase = "calls" THEN CallsPage(c, {}, since, cursor, limit)
             ELSE IF messages.more
             THEN [full EXCEPT !.next = [cursor EXCEPT !.after = Max(messages.rows)]]
             ELSE IF Cardinality(messages.rows) = limit
             THEN [full EXCEPT !.next = IF first.rows # {} THEN calls ELSE None]
             ELSE CallsPage(c, messages.rows, since, cursor,
                            limit - Cardinality(messages.rows))
  BY DEF ResyncPage
<1> HIDE DEF messages, page
<1>3. /\ Observed(c, messages.rows) \in SUBSET Observations
      /\ \A e \in messages.rows : \E o \in Observed(c, messages.rows) : o.of = e
  <2> DEFINE rows == messages.rows
  <2>1. rows \in SUBSET Entries /\ \A e \in rows : e \in Messages /\ c[e] # None
    BY <1>1, EntryFacts
  <2> HIDE DEF rows
  <2>2. /\ Observed(c, rows) \in SUBSET Observations
        /\ \A e \in rows : \E o \in Observed(c, rows) : o.of = e
    BY <2>1, ObservedRows
  <2>3. QED
    BY <2>2 DEF rows
<1>4. CASE cursor.phase = "calls"
  <2>1. \A e \in Messages : ~Beyond(e, cursor)
    BY <1>4, EntryFacts DEF Beyond
  <2>2. Complete(CallsPage(c, {}, since, cursor, limit), c, since, cursor)
    BY <2>1, CallsPageComplete
  <2>3. QED
    BY <1>2, <1>4, <2>2 DEF page
<1>5. CASE cursor.phase # "calls" /\ messages.more
  <2> DEFINE next == [cursor EXCEPT !.after = Max(messages.rows)]
  <2>1. cursor.phase = "messages"
    BY <1>5 DEF Cursor
  <2>2. /\ next \in Cursor /\ next.snapshot = cursor.snapshot /\ next.phase = "messages"
        /\ next.after = Max(messages.rows)
    BY <1>1, <1>5, <2>1, EntryFacts DEF Cursor
  <2>3. page.obs = Observed(c, messages.rows) /\ page.snapshot = cursor.snapshot /\ page.next = next
    BY <1>2, <1>5
  <2> HIDE DEF next
  <2>4. ASSUME NEW e \in Entries, Beyond(e, cursor), InWindow(c[e], since, cursor.snapshot)
        PROVE  (\E o \in page.obs : o.of = e) \/ (page.next # None /\ Beyond(e, page.next))
    <3>1. CASE e \in messages.rows
      BY <1>3, <2>3, <3>1
    <3>2. CASE e \notin messages.rows
      <4>1. e \in Calls \/ e > Max(messages.rows)
        BY <1>1, <2>4, <3>2 DEF Entries
      <4>2. Beyond(e, next)
        BY <2>2, <4>1 DEF Beyond, Entries
      <4>3. QED
        BY <2>2, <2>3, <4>2, EntryFacts
    <3>3. QED
      BY <3>1, <3>2
  <2>5. QED
    BY <1>3, <2>2, <2>3, <2>4 DEF Complete, page
<1>6. CASE cursor.phase # "calls" /\ ~messages.more /\ Cardinality(messages.rows) = limit
  <2>1. calls \in Cursor /\ calls.snapshot = cursor.snapshot /\ calls.phase = "calls" /\ calls.after = 0
    BY DEF Cursor
  <2>2. /\ page.obs = Observed(c, messages.rows) /\ page.snapshot = cursor.snapshot
        /\ page.next = IF first.rows # {} THEN calls ELSE None
    BY <1>2, <1>6
  <2>3. \A e \in Calls : Beyond(e, calls)
    BY <2>1, EntryFacts DEF Beyond
  <2> HIDE DEF calls
  <2>4. /\ first.more => Max(first.rows) \in first.rows
        /\ \A e \in Calls : Beyond(e, calls) /\ InWindow(c[e], since, calls.snapshot) =>
              e \in first.rows \/ (first.more /\ e > Max(first.rows))
    <3>1. 1 \in Nat \ {0} /\ Calls \in {Messages, Calls} /\ calls \in Cursor
      BY <2>1
    <3>2. QED
      BY <3>1, QueryReturns
  <2> HIDE DEF first
  <2>5. ASSUME NEW e \in Entries, Beyond(e, cursor), InWindow(c[e], since, cursor.snapshot)
        PROVE  (\E o \in page.obs : o.of = e) \/ (page.next # None /\ Beyond(e, page.next))
    <3>1. CASE e \in Messages
      BY <1>1, <1>3, <1>6, <2>2, <2>5, <3>1
    <3>2. CASE e \in Calls
      <4>1. first.rows # {}
        BY <2>1, <2>3, <2>4, <2>5, <3>2
      <4>2. QED
        BY <2>1, <2>2, <2>3, <3>2, <4>1, EntryFacts
    <3>3. QED
      BY <3>1, <3>2 DEF Entries
  <2>6. QED
    BY <1>3, <2>1, <2>2, <2>5 DEF Complete, page
<1>7. CASE cursor.phase # "calls" /\ ~messages.more /\ Cardinality(messages.rows) # limit
  <2> DEFINE left == limit - Cardinality(messages.rows)
  <2>1. left \in Nat \ {0}
    BY <1>1, <1>7
  <2> HIDE DEF left
  <2>2. \A e \in Messages : Beyond(e, cursor) /\ InWindow(c[e], since, cursor.snapshot)
            => e \in messages.rows
    BY <1>1, <1>7
  <2>3. Complete(CallsPage(c, messages.rows, since, cursor, left), c, since, cursor)
    BY <1>1, <2>1, <2>2, CallsPageComplete
  <2>4. QED
    BY <1>2, <1>7, <2>3 DEF left, page
<1>8. QED
  BY <1>4, <1>5, <1>6, <1>7

-----------------------------------------------------------------------------
(* Sequences. *)
LEMMA Appended ==
    ASSUME NEW S, NEW s \in Seq(S), NEW x \in S
    PROVE  /\ Append(s, x) \in Seq(S) /\ Append(s, x) # <<>>
           /\ s # <<>> => Head(Append(s, x)) = Head(s)
           /\ \A i \in DOMAIN s : i \in DOMAIN Append(s, x) /\ Append(s, x)[i] = s[i]
           /\ \A i \in DOMAIN Append(s, x) :
                 (i \in DOMAIN s /\ Append(s, x)[i] = s[i]) \/ Append(s, x)[i] = x
           /\ \E i \in DOMAIN Append(s, x) : Append(s, x)[i] = x
           /\ \A i \in DOMAIN Append(s, x) : i \notin DOMAIN s => i = Len(s) + 1
<1>1. /\ Append(s, x) \in Seq(S) /\ Len(Append(s, x)) = Len(s) + 1 /\ Len(s) \in Nat
      /\ \A i \in 1..Len(s) : Append(s, x)[i] = s[i]
      /\ Append(s, x)[Len(s) + 1] = x
  BY AppendProperties, LenProperties
<1>2. DOMAIN s = 1..Len(s) /\ DOMAIN Append(s, x) = 1..Len(s) + 1
  BY <1>1, LenProperties
<1>3. Append(s, x) # <<>>
  BY <1>1, EmptySeq
<1>4. ASSUME s # <<>> PROVE Head(Append(s, x)) = Head(s)
  BY <1>4, HeadTailAppend
<1>5. QED
  BY <1>1, <1>2, <1>3, <1>4

LEMMA Removed ==
    ASSUME NEW S, NEW s \in Seq(S), s # <<>>
    PROVE  /\ Tail(s) \in Seq(S) /\ Head(s) \in S /\ 1 \in DOMAIN s /\ Head(s) = s[1]
           /\ \A i \in DOMAIN s : i = 1 \/ (i - 1 \in DOMAIN Tail(s) /\ Tail(s)[i - 1] = s[i])
           /\ \A i \in DOMAIN Tail(s) : i + 1 \in DOMAIN s /\ Tail(s)[i] = s[i + 1]
<1>1. /\ Head(s) \in S /\ Tail(s) \in Seq(S) /\ Len(Tail(s)) = Len(s) - 1
      /\ \A i \in 1..Len(Tail(s)) : Tail(s)[i] = s[i + 1]
  BY HeadTailProperties
<1>2. Len(s) \in Nat \ {0} /\ DOMAIN s = 1..Len(s) /\ DOMAIN Tail(s) = 1..Len(Tail(s))
  BY <1>1, LenProperties, EmptySeq
<1>3. Head(s) = s[1]
  OBVIOUS
<1>4. QED
  BY <1>1, <1>2, <1>3

LEMMA SentIsSequence ==
    ASSUME NEW S, IsFiniteSet(S)
    PROVE  SetToSeq(S) \in Seq(S)
<1> DEFINE n == Cardinality(S)
<1>1. n \in Nat /\ ExistsBijection(1..n, S)
  BY FS_CardinalityType
<1>2. \E f \in [1..n -> S] : IsInjective(f)
  BY <1>1 DEF ExistsBijection, Bijection, Injection, IsInjective
<1>3. SetToSeq(S) \in [1..n -> S]
  BY <1>2 DEF SetToSeq
<1>4. QED
  BY <1>1, <1>3, IsASeq
LEMMA WithoutPagesFacts ==
    ASSUME NEW s \in Seq(Events)
    PROVE  /\ WithoutPages(s) \in Seq(Events)
           /\ (\A i, j \in DOMAIN s : s[i].kind = "page" /\ s[j].kind = "page" => i = j) =>
                 \A k \in DOMAIN WithoutPages(s) : WithoutPages(s)[k].kind # "page"
<1>1. CASE ~\E i \in DOMAIN s : s[i].kind = "page"
  BY <1>1 DEF WithoutPages
<1>2. CASE \E i \in DOMAIN s : s[i].kind = "page"
  <2> DEFINE n == CHOOSE i \in DOMAIN s : s[i].kind = "page"
             a == SubSeq(s, 1, n - 1)
             b == SubSeq(s, n + 1, Len(s))
  <2>1. n \in DOMAIN s /\ s[n].kind = "page"
    BY <1>2
  <2>2. WithoutPages(s) = a \o b
    BY <1>2 DEF WithoutPages, RemoveAt
  <2> HIDE DEF n
  <2>3. Len(s) \in Nat /\ DOMAIN s = 1..Len(s) /\ n \in 1..Len(s)
    BY <2>1, LenProperties
  <2>4. /\ a \in Seq(Events) /\ Len(a) = n - 1
        /\ \A i \in 1..n - 1 : a[i] = s[i]
    BY <2>3, SubSeqProperties
  <2> DEFINE l == Len(s)
             m == n + 1
  <2>5. l \in Nat /\ n \in 1..l /\ m = n + 1 /\ DOMAIN s = 1..l
    BY <2>3
  <2>6. b = SubSeq(s, m, l)
    OBVIOUS
  <2> HIDE DEF l, m
  <2>7. m \in Int /\ l \in Int /\ m >= 1
    BY <2>5
  <2>8. \A i \in m..l : s[i] \in Events
    <3>1. \A i \in m..l : i \in 1..l
      BY <2>5
    <3>2. QED
      BY <2>5, <3>1, ElementOfSeq, LenProperties
  <2>9. /\ SubSeq(s, m, l) \in Seq(Events)
        /\ Len(SubSeq(s, m, l)) = IF m <= l THEN l - m + 1 ELSE 0
        /\ \A i \in 1..l - m + 1 : SubSeq(s, m, l)[i] = s[m + i - 1]
    BY <2>7, <2>8, SubSeqProperties
  <2>10. (IF m <= l THEN l - m + 1 ELSE 0) = l - n
    BY <2>5
  <2>11. \A i \in 1..l - n : i \in 1..l - m + 1 /\ m + i - 1 = n + i
    BY <2>5
  <2> HIDE DEF b
  <2>12. /\ b \in Seq(Events) /\ Len(b) = l - n
         /\ \A i \in 1..l - n : b[i] = s[n + i]
    BY <2>6, <2>9, <2>10, <2>11
  <2> HIDE DEF a
  <2>13. /\ a \o b \in Seq(Events) /\ Len(a \o b) = Len(a) + Len(b)
         /\ \A i \in 1..Len(a) + Len(b) :
               (a \o b)[i] = IF i <= Len(a) THEN a[i] ELSE b[i - Len(a)]
    BY <2>4, <2>12, ConcatProperties
  <2> DEFINE la == Len(a)
             lb == Len(b)
  <2>14. la = n - 1 /\ lb = l - n /\ la \in Nat /\ lb \in Nat
    BY <2>4, <2>12, <2>5
  <2> HIDE DEF la, lb
  <2>15. \A i \in 1..la + lb : \E j \in DOMAIN s : j # n /\ (a \o b)[i] = s[j]
    <3> TAKE i \in 1..la + lb
    <3>0. (a \o b)[i] = IF i <= la THEN a[i] ELSE b[i - la]
      BY <2>13 DEF la, lb
    <3>1. CASE i <= la
      <4>1. i \in 1..n - 1 /\ i \in DOMAIN s /\ i # n
        BY <2>14, <2>5, <3>1
      <4>2. QED
        BY <2>4, <3>0, <3>1, <4>1
    <3>2. CASE ~(i <= la)
      <4>1. i - la \in 1..l - n /\ n + (i - la) = i + 1 /\ i + 1 \in DOMAIN s /\ i + 1 # n
        BY <2>14, <2>5, <3>2
      <4>2. b[i - la] = s[i + 1]
        BY <2>12, <4>1
      <4>3. QED
        BY <3>0, <3>2, <4>1, <4>2
    <3>3. QED
      BY <3>1, <3>2
  <2>16. DOMAIN (a \o b) = 1..la + lb
    BY <2>13, LenProperties DEF la, lb
  <2>17. QED
    BY <2>1, <2>2, <2>13, <2>15, <2>16
<1>3. QED
  BY <1>1, <1>2

-----------------------------------------------------------------------------
(* What is delivered, and what it makes of the rows. *)
LEMMA ItemFacts ==
    ASSUME NEW item \in Items
    PROVE  /\ item.obs \in SUBSET Observations
           /\ item.kind \in {"message", "receipt", "call", "deletion", "history"}
           /\ item.kind # "history" =>
                 \E o \in Observations :
                     /\ item.obs = {o} /\ o = CHOOSE x \in item.obs : TRUE
                     /\ IF item.kind \in {"message", "receipt"}
                        THEN o.of \in Messages ELSE o.of \in Calls
<1>1. CASE item \in [kind : {"message", "receipt"}, obs : Of(Messages)]
  BY <1>1 DEF Of
<1>2. CASE item \in [kind : {"call", "deletion"}, obs : Of(Calls)]
  BY <1>2 DEF Of
<1>3. CASE item \in [kind : {"history"}, obs : SUBSET Observations]
  BY <1>3
<1>4. QED
  BY <1>1, <1>2, <1>3 DEF Items

(* Only messages are revoked. *)
RowsOf(c) == /\ c \in [Entries -> Rows]
             /\ \A e \in Entries : Revoked(c[e]) => e \in Messages

LEMMA RowFacts ==
    ASSUME NEW row \in Rows
    PROVE  /\ Revoked(row) \in BOOLEAN
           /\ row # None => row.at \in Nat /\ row.revoked \in BOOLEAN
           /\ \A o \in Observations, at \in Nat :
                 /\ Upserted(row, o, at) \in Row /\ Upserted(row, o, at).at = at
                 /\ Upserted(row, o, at).revoked <=> o.revoked \/ Revoked(row)
           /\ \A at \in Nat : row # None =>
                 /\ Touched(row, at) \in Row /\ Touched(row, at).at = at
                 /\ Touched(row, at).revoked = row.revoked
           /\ Row \subseteq Rows /\ None \in Rows /\ None \notin Row
<1>1. Revoked(row) \in BOOLEAN /\ (row # None => row.at \in Nat /\ row.revoked \in BOOLEAN)
  BY DEF Rows, Row, Revoked
<1>2. None \notin Row
  BY NoneAssumption
<1>3. \A o \in Observations : o.revoked \in BOOLEAN
  BY ObservationFacts
<1>4. ASSUME NEW o \in Observations, NEW at \in Nat
      PROVE  /\ Upserted(row, o, at) \in Row /\ Upserted(row, o, at).at = at
             /\ Upserted(row, o, at).revoked <=> o.revoked \/ Revoked(row)
  BY <1>1, <1>3 DEF Upserted, Row
<1>5. ASSUME NEW at \in Nat, row # None
      PROVE  /\ Touched(row, at) \in Row /\ Touched(row, at).at = at
             /\ Touched(row, at).revoked = row.revoked
  BY <1>1, <1>5 DEF Touched, Row, Rows
<1>6. QED
  BY <1>1, <1>2, <1>4, <1>5 DEF Rows

(* What a batch makes of the rows.                                         *)
Changed(c, d, batch, at) ==
    /\ RowsOf(d)
    /\ \A e \in Entries : Revoked(c[e]) => Revoked(d[e])
    /\ \A e \in Entries : (~\E o \in batch : o.of = e) => d[e] = c[e]
    /\ \A o \in batch :
          /\ d[o.of] # None /\ d[o.of].at = at
          /\ \E x \in batch : x.of = o.of /\ (x.revoked => Revoked(d[o.of]))

LEMMA ApplyFacts ==
    ASSUME NEW c, RowsOf(c), NEW batch \in SUBSET Observations, NEW at \in Nat
    PROVE  Changed(c, Apply(c, batch, at), batch, at)
<1> DEFINE d == Apply(c, batch, at)
           in(e) == \E o \in batch : o.of = e
           one(e) == CHOOSE o \in batch : o.of = e
<1>1. \A e \in Entries : d[e] = IF in(e) THEN Upserted(c[e], one(e), at) ELSE c[e]
  BY DEF Apply
<1>2. DOMAIN d = Entries
  BY DEF Apply
<1>3. \A e \in Entries : c[e] \in Rows /\ (Revoked(c[e]) => e \in Messages)
  BY DEF RowsOf
<1>4. \A e \in Entries : in(e) => one(e) \in batch /\ one(e).of = e
  OBVIOUS
<1>5. \A o \in batch : o \in Observations /\ (o.revoked => o.of \in Messages)
  BY ObservationFacts
<1> HIDE DEF d, in, one
<1>6. ASSUME NEW e \in Entries, in(e)
      PROVE  /\ d[e] \in Row /\ d[e].at = at
             /\ d[e].revoked <=> one(e).revoked \/ Revoked(c[e])
  BY <1>1, <1>3, <1>4, <1>5, <1>6, RowFacts
<1>7. ASSUME NEW e \in Entries, in(e)
      PROVE  /\ d[e] \in Rows /\ d[e] # None /\ d[e].at = at
             /\ Revoked(c[e]) => Revoked(d[e])
             /\ one(e).revoked => Revoked(d[e])
             /\ Revoked(d[e]) => e \in Messages
  <2>1. d[e] \in Rows /\ d[e] # None
    BY <1>6, <1>7, NoneAssumption DEF Rows
  <2>2. Revoked(d[e]) <=> one(e).revoked \/ Revoked(c[e])
    BY <1>6, <1>7, <2>1 DEF Revoked
  <2>3. QED
    BY <1>3, <1>4, <1>5, <1>6, <1>7, <2>1, <2>2
<1>8. \A e \in Entries : ~in(e) => d[e] = c[e]
  BY <1>1
<1>9. /\ \A e \in Entries : d[e] \in Rows /\ (Revoked(d[e]) => e \in Messages)
      /\ \A e \in Entries : Revoked(c[e]) => Revoked(d[e])
  BY <1>3, <1>7, <1>8
<1>10. d = [e \in Entries |-> d[e]]
  BY DEF d, Apply
<1>11. RowsOf(d)
  BY <1>9, <1>10 DEF RowsOf
<1>12. ASSUME NEW o \in batch
       PROVE  /\ d[o.of] # None /\ d[o.of].at = at
              /\ \E x \in batch : x.of = o.of /\ (x.revoked => Revoked(d[o.of]))
  <2>1. in(o.of) /\ o.of \in Entries
    BY ObservationFacts DEF in
  <2>2. d[o.of] # None /\ d[o.of].at = at /\ (one(o.of).revoked => Revoked(d[o.of]))
    BY <1>7, <2>1
  <2>3. one(o.of) \in batch /\ one(o.of).of = o.of
    BY <1>4, <2>1
  <2>4. QED
    BY <2>2, <2>3
<1>13. \A e \in Entries : (~\E o \in batch : o.of = e) => d[e] = c[e]
  BY <1>8 DEF in
<1>14. QED
  BY <1>9, <1>11, <1>12, <1>13 DEF d, Changed
-----------------------------------------------------------------------------
(* Type correctness, with what it needs to be inductive. *)
Typed ==
    /\ TypeOK
    /\ IsFiniteSet(phone)
    /\ handler # "idle" => inbox # <<>>
    /\ historian.pc \in {"filtered", "applied"} => queue # <<>>
    /\ \A e \in Entries : Revoked(cache[e]) => e \in Messages
    /\ run.pc # "none" => run.base \in Checkpoints
    /\ OnePage

LEMMA TypedFacts ==
    ASSUME Typed
    PROVE  /\ RowsOf(cache) /\ now \in Nat /\ now > 0
           /\ inbox # <<>> => Item \in Items
           /\ \A obs \in SUBSET Observations : StampedLate(obs) \subseteq Entries
<1>1. RowsOf(cache) /\ now \in Nat /\ now > 0
  BY DEF Typed, TypeOK, RowsOf
<1>2. inbox # <<>> => Item \in Items
  BY Removed DEF Typed, TypeOK, Item
<1>3. \A obs \in SUBSET Observations : StampedLate(obs) \subseteq Entries
  <2> TAKE obs \in SUBSET Observations
  <2>1. \A o \in obs : o.of \in Entries
    BY ObservationFacts
  <2>2. late \subseteq Entries
    BY DEF Typed, TypeOK
  <2>3. QED
    BY <2>1, <2>2 DEF StampedLate
<1>4. QED
  BY <1>1, <1>2, <1>3

LEMMA EventFacts ==
    /\ \A obs \in SUBSET Observations : \A kind \in {"data", "receipt", "deletion"} :
          [kind |-> kind, obs |-> obs] \in Events
    /\ \A kind \in {"connected", "disconnected"} : [kind |-> kind] \in Events
    /\ \A event \in Events :
          /\ event.kind \in {"data", "receipt", "deletion", "page"} =>
                event.obs \in SUBSET Observations
          /\ event.kind = "page" =>
                event.snapshot \in Nat /\ event.next \in Cursor \cup {None}
BY DEF Events, Pages

LEMMA CheckpointFacts ==
    ASSUME NEW base \in Checkpoints
    PROVE  /\ Since(base) \in Nat
           /\ Resuming(base) => base.source.resync.cursor \in Cursor
           /\ AsRequested(base) \in Checkpoints
           /\ First(base.source, NoSource) \in SourceCursors
           /\ \A n \in Nat : [base EXCEPT !.success = n] \in Checkpoints
<1>1. base.source # None => base.source \in SourceCursors
  BY DEF Checkpoints
<1>2. base.success \in Nat \cup {None}
  BY DEF Checkpoints
<1>3. base.source # None /\ base.source.resync # None => base.source.resync \in Resyncs
  BY <1>1 DEF SourceCursors
<1>4. base.source # None => base.source.last \in Nat \cup {None}
  BY <1>1 DEF SourceCursors
<1>5. Since(base) \in Nat
  BY <1>2, <1>3, <1>4 DEF Since, Resyncs
<1>6. NoSource \in SourceCursors /\ [NoSource EXCEPT !.requested = TRUE] \in SourceCursors
  BY DEF NoSource, SourceCursors
<1>7. base.source # None => [base.source EXCEPT !.requested = TRUE] \in SourceCursors
  BY <1>1 DEF SourceCursors
<1>8. AsRequested(base) \in Checkpoints
  BY <1>6, <1>7 DEF AsRequested, Checkpoints
<1>9. \A n \in Nat : [base EXCEPT !.success = n] \in Checkpoints
  BY DEF Checkpoints
<1>10. QED
  BY <1>1, <1>3, <1>5, <1>6, <1>8, <1>9 DEF Resuming, Resyncs, First

Runs == [pc : {"none", "backfill", "asked", "answered", "done"},
         since : Nat, cursor : Cursor \cup {None}, snapshot : Nat, pages : Nat,
         base : Checkpoints \cup {None}]

LEMMA NoRunIsRun == NoRun \in Runs
BY DEF NoRun, Runs

LEMMA RunTyped == Typed => run \in Runs
BY DEF Typed, TypeOK, Runs

LEMMA FaultType == Typed /\ Fault => faults' \in 0..MaxFaults
BY HelperAssumption DEF Typed, TypeOK, Fault

(* What happens to the pipe leaves it with one page. *)
LEMMA OnePageAppended ==
    ASSUME Typed, NEW event \in Events, event.kind # "page",
           pipe' = Append(pipe, event), run' = run
    PROVE  OnePage' /\ pipe' \in Seq(Events)
<1>1. pipe \in Seq(Events)
  BY DEF Typed, TypeOK
<1>2. /\ Append(pipe, event) \in Seq(Events)
      /\ \A i \in DOMAIN Append(pipe, event) :
            (i \in DOMAIN pipe /\ Append(pipe, event)[i] = pipe[i]) \/ Append(pipe, event)[i] = event
  BY <1>1, Appended
<1>3. QED
  BY <1>2 DEF Typed, OnePage

LEMMA PipeTold ==
    ASSUME Typed, NEW kind \in {"data", "receipt", "deletion"},
           NEW obs \in SUBSET Observations,
           pipe' = Append(pipe, [kind |-> kind, obs |-> obs]), run' = run
    PROVE  OnePage' /\ pipe' \in Seq(Events)
<1> DEFINE event == [kind |-> kind, obs |-> obs]
<1>1. event \in Events /\ event.kind # "page"
  BY EventFacts
<1> HIDE DEF event
<1>2. QED
  BY <1>1, OnePageAppended DEF event

LEMMA OnePageKept == Typed /\ pipe' = pipe /\ run' = run => OnePage'
BY DEF Typed, OnePage

LEMMA OnePageRead ==
    ASSUME Typed, pipe # <<>>, pipe' = Tail(pipe), run' = run
    PROVE  OnePage'
<1>1. \A i \in DOMAIN Tail(pipe) : i + 1 \in DOMAIN pipe /\ Tail(pipe)[i] = pipe[i + 1]
  BY Removed DEF Typed, TypeOK
<1>2. \A i \in DOMAIN Tail(pipe) : i \in Nat
  BY Removed, LenProperties DEF Typed, TypeOK
<1>3. QED
  BY <1>1, <1>2 DEF Typed, OnePage

LEMMA PageRead ==
    ASSUME Typed, pipe # <<>>, Head(pipe).kind = "page"
    PROVE  /\ run.pc = "answered" /\ 1 \in DOMAIN pipe /\ pipe[1] = Head(pipe)
           /\ \A i \in DOMAIN Tail(pipe) : Tail(pipe)[i].kind # "page"
<1>1. /\ 1 \in DOMAIN pipe /\ Head(pipe) = pipe[1]
      /\ \A i \in DOMAIN Tail(pipe) : i + 1 \in DOMAIN pipe /\ Tail(pipe)[i] = pipe[i + 1]
      /\ Tail(pipe) \in Seq(Events)
  BY Removed DEF Typed, TypeOK
<1>2. \A i \in DOMAIN Tail(pipe) : i \in Nat /\ i + 1 # 1
  BY <1>1, LenProperties
<1>3. QED
  BY <1>1, <1>2 DEF Typed, OnePage

LEMMA TypedInit == Init => Typed
<1> SUFFICES ASSUME Init PROVE Typed
  OBVIOUS
<1>1. /\ inbox \in Seq(Items) /\ phone \subseteq Items /\ IsFiniteSet(phone)
  BY HelperAssumption DEF Init
<1>2. cache \in [Entries -> Rows] /\ \A e \in Entries : ~Revoked(cache[e])
  BY DEF Init, Rows, Revoked
<1>3. run \in Runs /\ run.pc = "none"
  BY NoRunIsRun DEF Init, NoRun
<1>4. checkpoint \in Checkpoints
  BY DEF Init, Checkpoints
<1>5. queue \in Seq(SUBSET Observations) /\ pipe \in Seq(Events) /\ OnePage
  BY EmptySeq DEF Init, OnePage
<1>6. now \in 1..MaxTime /\ faults \in 0..MaxFaults
  BY HelperAssumption DEF Init
<1>7. historian \in [pc : {"idle", "loading", "filtered", "applied", "backoff"},
                     batch : SUBSET Observations] /\ historian.pc = "loading"
  BY DEF Init, Loading
<1>8. stored \in [Entries -> {"none", "plain", "revoked"}]
  BY DEF Init
<1>9. QED
  BY <1>1, <1>2, <1>3, <1>4, <1>5, <1>6, <1>7, <1>8 DEF Init, Typed, TypeOK, Runs

LEMMA TypedHandling == Typed /\ Handling => Typed'
<1> SUFFICES ASSUME Typed, Handling PROVE Typed'
  OBVIOUS
<1> USE DEF Stored, helperVars, cacheVars, daemonVars
<1>10. pipe' = pipe /\ run' = run => OnePage'
  BY OnePageKept
<1>0. /\ RowsOf(cache) /\ now \in Nat
      /\ inbox # <<>> => Item \in Items
      /\ \A obs \in SUBSET Observations : StampedLate(obs) \subseteq Entries
  BY TypedFacts
<1>00. /\ inbox \in Seq(Items) /\ pipe \in Seq(Events) /\ queue \in Seq(SUBSET Observations)
       /\ handler \in {"idle", "checked", "stored"}
       /\ acked \subseteq Items /\ deleted \subseteq Calls /\ late \subseteq Entries
  BY DEF Typed, TypeOK
<1>000. handler # "idle" => /\ inbox # <<>> /\ Item \in Items /\ Item.obs \in SUBSET Observations
                            /\ StampedLate(Item.obs) \subseteq Entries
  BY <1>0, ItemFacts DEF Typed
<1>1. CASE HandleEvent
  BY <1>1, <1>10 DEF HandleEvent, Typed, TypeOK
<1>2. CASE StoreObservation
  <2>1. RowsOf(cache') /\ late' \subseteq Entries
    BY <1>2, <1>0, <1>000, ApplyFacts DEF StoreObservation, Changed
  <2>2. pipe' \in Seq(Events) /\ OnePage'
    BY <1>2, <1>000, PipeTold DEF StoreObservation
  <2>3. QED
    BY <1>2, <1>000, <2>1, <2>2 DEF StoreObservation, Typed, TypeOK, RowsOf
<1>3. CASE StoreReceipt
  <2>1. PICK o \in Observations : Item.obs = {o} /\ o = Told /\ o.of \in Messages
    BY <1>3, <1>000, ItemFacts DEF StoreReceipt, Told
  <2>2. Told.of \in Entries /\ Told.of \in Messages
    BY <2>1, EntryFacts
  <2>3. cache[Told.of] \in Rows /\ Touched(cache[Told.of], now) \in Rows
    BY <1>0, <2>2, RowFacts DEF RowsOf, Touched
  <2>4. RowsOf(cache')
    BY <1>3, <1>0, <2>2, <2>3 DEF StoreReceipt, RowsOf
  <2>5. late' \subseteq Entries
    BY <1>3, <1>00, <1>000 DEF StoreReceipt
  <2>6. pipe' \in Seq(Events) /\ OnePage'
    BY <1>3, <1>000, PipeTold DEF StoreReceipt
  <2>7. QED
    BY <1>3, <1>000, <2>4, <2>5, <2>6 DEF StoreReceipt, Typed, TypeOK, RowsOf
<1>4. CASE DeleteCalls
  <2>1. PICK o \in Observations : Item.obs = {o} /\ o = Told /\ o.of \in Calls
    BY <1>4, <1>000, ItemFacts DEF DeleteCalls, Told
  <2>2. Told.of \in Entries /\ Told.of \in Calls
    BY <2>1, EntryFacts
  <2>3. RowsOf(cache')
    BY <1>4, <1>0, <2>2, RowFacts DEF DeleteCalls, RowsOf, Revoked, Rows
  <2>4. pipe' \in Seq(Events) /\ OnePage' /\ deleted' \subseteq Calls
    BY <1>4, <1>00, <1>000, <2>2, PipeTold DEF DeleteCalls
  <2>5. QED
    BY <1>4, <1>000, <2>3, <2>4 DEF DeleteCalls, Typed, TypeOK, RowsOf
<1>5. CASE AnnounceHistory
  <2>1. queue' \in Seq(SUBSET Observations) /\ queue' # <<>>
    BY <1>5, <1>00, <1>000, Appended DEF AnnounceHistory
  <2>2. QED
    BY <1>5, <1>10, <1>000, <2>1 DEF AnnounceHistory, Typed, TypeOK
<1>6. CASE Acknowledge
  <2>1. inbox' \in Seq(Items) /\ acked' \subseteq Items
    BY <1>6, <1>00, <1>000, Removed DEF Acknowledge
  <2>2. QED
    BY <1>6, <1>10, <2>1 DEF Acknowledge, Typed, TypeOK
<1>7. CASE ReturnOffline
  BY <1>7, <1>10 DEF ReturnOffline, Typed, TypeOK
<1>8. QED
  BY <1>1, <1>2, <1>3, <1>4, <1>5, <1>6, <1>7 DEF Handling

LEMMA BatchOfHistory ==
    ASSUME RowsOf(cache), NEW chunk \in SUBSET Observations
    PROVE  LET batch == Unrevoked(cache, Batch(chunk))
           IN  /\ batch \in SUBSET Observations
               /\ \A b, c \in batch : b.of = c.of => b = c
               /\ \A o \in chunk :
                     InCache(o) \/ \E b \in batch : b.of = o.of /\ (o.revoked => b.revoked)
<1> DEFINE batch == Unrevoked(cache, Batch(chunk))
           twin(o) == [o EXCEPT !.revoked = TRUE]
<1>1. \A o : o \in batch <=> /\ o \in chunk /\ (o.revoked \/ twin(o) \notin chunk)
                             /\ o.revoked \/ ~Revoked(cache[o.of])
  BY DEF Unrevoked, Batch
<1>2. \A o, p \in Observations : o.of = p.of /\ (o.revoked <=> p.revoked) => o = p
  <2>1. \A o \in Observations : o = [of |-> o.of, revoked |-> o.revoked] /\ o.revoked \in BOOLEAN
    <3>1. \A o \in [of : Messages, revoked : BOOLEAN] : o = [of |-> o.of, revoked |-> o.revoked]
      OBVIOUS
    <3>2. \A o \in [of : Calls, revoked : {FALSE}] : o = [of |-> o.of, revoked |-> o.revoked]
      OBVIOUS
    <3>3. QED
      BY <3>1, <3>2, ObservationFacts DEF Observations
  <2>2. \A o, p \in Observations : (o.revoked <=> p.revoked) => o.revoked = p.revoked
    BY <2>1
  <2>3. QED
    BY <2>1, <2>2
<1>3. \A o \in Observations : twin(o).of = o.of /\ twin(o).revoked
  BY DEF Observations
<1>4. \A o \in Observations : o.revoked => twin(o) = o
  BY DEF Observations
<1>5. \A o, p \in Observations : o.of = p.of /\ p.revoked => twin(o) = p
  BY DEF Observations
<1> HIDE DEF batch, twin
<1>6. ASSUME NEW b \in batch, NEW c \in batch, b.of = c.of PROVE b = c
  <2>1. b \in Observations /\ c \in Observations /\ b \in chunk /\ c \in chunk
    BY <1>1
  <2>2. b.revoked <=> c.revoked
    BY <1>1, <1>5, <1>6, <2>1
  <2>3. QED
    BY <1>2, <1>6, <2>1, <2>2
<1>7. ASSUME NEW o \in chunk, ~InCache(o)
      PROVE  \E b \in batch : b.of = o.of /\ (o.revoked => b.revoked)
  <2>1. ~o.revoked => ~Revoked(cache[o.of])
    BY <1>7 DEF InCache, Revoked
  <2>2. CASE o.revoked \/ twin(o) \notin chunk
    BY <1>1, <2>1, <2>2
  <2>3. CASE twin(o) \in chunk
    BY <1>1, <1>3, <2>3
  <2>4. QED
    BY <2>2, <2>3
<1>8. batch \in SUBSET Observations
  BY <1>1
<1>9. QED
  BY <1>6, <1>7, <1>8 DEF batch

LEMMA TypedApplying == Typed /\ (Applying \/ DownloadFails) => Typed'
<1> SUFFICES ASSUME Typed, Applying \/ DownloadFails PROVE Typed'
  OBVIOUS
<1> USE DEF Historian, helperVars, cacheVars, daemonVars
<1>10. pipe' = pipe /\ run' = run => OnePage'
  BY OnePageKept
<1>0. /\ RowsOf(cache) /\ now \in Nat
      /\ \A obs \in SUBSET Observations : StampedLate(obs) \subseteq Entries
  BY TypedFacts
<1>00. /\ pipe \in Seq(Events) /\ queue \in Seq(SUBSET Observations)
       /\ historian.batch \in SUBSET Observations
  BY DEF Typed, TypeOK
<1>1. CASE Wake
  BY <1>1, <1>10 DEF Wake, Loading, Typed, TypeOK
<1>2. CASE DownloadHistory
  <2>1. CASE queue = <<>>
    BY <1>2, <1>10, <2>1 DEF DownloadHistory, Loading, Typed, TypeOK
  <2>2. CASE queue # <<>>
    <3>1. Head(queue) \in SUBSET Observations
      BY <1>00, <2>2, Removed
    <3> DEFINE batch == Unrevoked(cache, Batch(Head(queue)))
    <3>2. batch \in SUBSET Observations
      BY <1>0, <3>1, BatchOfHistory
    <3>3. historian' = [pc |-> "filtered", batch |-> batch]
      BY <1>2, <2>2 DEF DownloadHistory
    <3> HIDE DEF batch
    <3>4. historian' \in [pc : {"idle", "loading", "filtered", "applied", "backoff"},
                          batch : SUBSET Observations]
      BY <3>2, <3>3
    <3>5. UNCHANGED <<now, inbox, phone, handler, cache, queue, wake, helper, pipe, session, run,
                      checkpoint, stored, faults, acked, deleted, late, taken>>
      BY <1>2 DEF DownloadHistory
    <3>6. QED
      BY <1>10, <2>2, <3>4, <3>5 DEF Typed, TypeOK
  <2>3. QED
    BY <2>1, <2>2
<1>3. CASE DownloadFails
  BY <1>3, <1>10, FaultType DEF DownloadFails, Loading, Typed, TypeOK
<1>4. CASE RetryDownload
  BY <1>4, <1>10 DEF RetryDownload, Loading, Typed, TypeOK
<1>5. CASE ApplyHistory
  <2>1. RowsOf(cache') /\ late' \subseteq Entries
    BY <1>5, <1>0, <1>00, ApplyFacts DEF ApplyHistory, Changed
  <2>2. pipe' \in Seq(Events) /\ OnePage'
    BY <1>5, <1>00, PipeTold DEF ApplyHistory
  <2>3. /\ historian' \in [pc : {"idle", "loading", "filtered", "applied", "backoff"},
                           batch : SUBSET Observations]
        /\ queue # <<>>
    BY <1>5 DEF ApplyHistory, Loading, Typed, TypeOK
  <2>4. QED
    BY <1>5, <2>1, <2>2, <2>3 DEF ApplyHistory, Typed, TypeOK, RowsOf
<1>6. CASE DeleteNotification
  <2>1. queue' \in Seq(SUBSET Observations)
    BY <1>6, <1>00, Removed DEF DeleteNotification, Typed
  <2>2. QED
    BY <1>6, <1>10, <2>1 DEF DeleteNotification, Loading, Typed, TypeOK
<1>7. QED
  BY <1>1, <1>2, <1>3, <1>4, <1>5, <1>6 DEF Applying
LEMMA InsertedType ==
    ASSUME Typed, NEW obs
    PROVE  /\ Inserted(obs) \in [Entries -> {"none", "plain", "revoked"}]
           /\ \A e \in Entries : stored[e] # "none" => Inserted(obs)[e] # "none"
           /\ \A e \in Entries : (\E o \in obs : o.of = e) => Inserted(obs)[e] # "none"
BY DEF Typed, TypeOK, Inserted

LEMMA TypedReading == Typed /\ (Reading \/ IngestFails) => Typed'
<1> SUFFICES ASSUME Typed, Reading \/ IngestFails PROVE Typed'
  OBVIOUS
<1> USE DEF Read, daemonOnly, helperVars, cacheVars
<1>0. /\ pipe # <<>> /\ pipe \in Seq(Events)
      /\ Tail(pipe) \in Seq(Events) /\ Head(pipe) \in Events
  <2>1. pipe # <<>> /\ pipe \in Seq(Events)
    BY DEF Reading, ReadConnected, ReadDisconnected, Ingest, IngestReceipt, IngestDeletion,
           ReadPage, IngestFails, Typed, TypeOK
  <2>2. QED
    BY <2>1, Removed
<1>00. run' = run /\ pipe' = Tail(pipe) => OnePage'
  BY <1>0, OnePageRead
<1>1. CASE ReadConnected
  BY <1>0, <1>00, <1>1 DEF ReadConnected, Typed, TypeOK
<1>2. CASE ReadDisconnected
  <2>1. /\ pipe' \in Seq(Events)
        /\ \A k \in DOMAIN pipe' : pipe'[k].kind # "page"
    <3>1. \A i, j \in DOMAIN Tail(pipe) :
              Tail(pipe)[i].kind = "page" /\ Tail(pipe)[j].kind = "page" => i = j
      <4>1. \A i \in DOMAIN Tail(pipe) : i \in Nat /\ i + 1 \in DOMAIN pipe /\ Tail(pipe)[i] = pipe[i + 1]
        BY <1>0, Removed, LenProperties
      <4>2. QED
        BY <4>1 DEF Typed, OnePage
    <3>2. QED
      BY <1>0, <1>2, <3>1, WithoutPagesFacts DEF ReadDisconnected
  <2>2. QED
    BY <1>2, <2>1 DEF ReadDisconnected, NoRun, Typed, TypeOK, OnePage
<1>3. CASE Ingest
  <2>1. stored' \in [Entries -> {"none", "plain", "revoked"}]
    BY <1>3, InsertedType DEF Ingest
  <2>2. checkpoint' \in Checkpoints
    BY <1>3, TypedFacts, CheckpointFacts DEF Ingest, Typed, TypeOK
  <2>3. QED
    BY <1>0, <1>00, <1>3, <2>1, <2>2 DEF Ingest, Typed, TypeOK
<1>4. CASE IngestReceipt
  BY <1>0, <1>00, <1>4 DEF IngestReceipt, Typed, TypeOK
<1>5. CASE IngestDeletion
  <2>1. checkpoint' \in Checkpoints
    BY <1>5, TypedFacts, CheckpointFacts DEF IngestDeletion, Typed, TypeOK
  <2>2. QED
    BY <1>0, <1>00, <1>5, <2>1 DEF IngestDeletion, Typed, TypeOK
<1>6. CASE ReadPage
  <2>1. stored' \in [Entries -> {"none", "plain", "revoked"}]
    BY <1>6, InsertedType DEF ReadPage
  <2>2. Head(pipe).next \in Cursor \cup {None} /\ Head(pipe).snapshot \in Nat
    BY <1>0, <1>6, EventFacts DEF ReadPage
  <2>3. /\ run.pc = "answered"
        /\ \A i \in DOMAIN pipe' : pipe'[i].kind # "page"
    BY <1>0, <1>6, PageRead DEF ReadPage
  <2>4. /\ run' \in Runs
        /\ run'.base = run.base /\ run'.pc # "none"
    <3> DEFINE page == Head(pipe)
               pc == IF page.next # None /\ run.pages + 1 < PageBudget
                     THEN "asked" ELSE "done"
               pages == run.pages + 1
    <3>1. run' = [run EXCEPT !.pc = pc, !.cursor = page.next,
                             !.snapshot = page.snapshot, !.pages = pages]
      BY <1>6 DEF ReadPage
    <3>2. page.next \in Cursor \cup {None} /\ page.snapshot \in Nat /\ pc \in {"asked", "done"}
      BY <2>2
    <3>3. run \in Runs /\ pages \in Nat
      BY RunTyped DEF Runs
    <3> HIDE DEF page, pc, pages
    <3>4. QED
      BY <3>1, <3>2, <3>3 DEF Runs
  <2>5. run.base \in Checkpoints
    BY <2>3 DEF Typed
  <2>6. OnePage' /\ pipe' \in Seq(Events)
    BY <1>0, <1>6, <2>3 DEF ReadPage, OnePage
  <2>7. UNCHANGED <<now, inbox, phone, handler, cache, queue, historian, wake, helper, session,
                    checkpoint, faults, acked, deleted, late, taken>>
    BY <1>6 DEF ReadPage
  <2>8. QED
    BY <2>1, <2>4, <2>5, <2>6, <2>7 DEF Typed, TypeOK, Runs
<1>7. CASE IngestFails
  BY <1>0, <1>00, <1>7, FaultType DEF IngestFails, Typed, TypeOK
<1>8. QED
  BY <1>1, <1>2, <1>3, <1>4, <1>5, <1>6, <1>7 DEF Reading
AnsweredFrom == IF run.cursor = None THEN FirstCursor(now) ELSE run.cursor

LEMMA AnswerFacts ==
    ASSUME Typed, Answer
    PROVE  /\ AnsweredFrom \in Cursor
           /\ taken' = IF taken < AnsweredFrom.snapshot THEN AnsweredFrom.snapshot ELSE taken
           /\ \E page \in Pages : /\ pipe' = Append(pipe, page)
                                 /\ Complete(page, cache, run.since, AnsweredFrom)
<1> DEFINE page == ResyncPage(cache, run.since, AnsweredFrom, PageLimit)
           event == [kind |-> "page", obs |-> page.obs, snapshot |-> page.snapshot,
                     next |-> page.next]
<1>1. AnsweredFrom \in Cursor /\ run.since \in Nat
  BY RunTyped, TypedFacts DEF AnsweredFrom, Runs, FirstCursor, Cursor
<1>2. Complete(page, cache, run.since, AnsweredFrom)
  <2>1. \A e \in Entries : cache[e] # None /\ cache[e].revoked => e \in Messages
    BY DEF Typed, Revoked
  <2>2. QED
    BY <1>1, <2>1, ResyncPageComplete, HelperAssumption DEF Typed, TypeOK
<1>3. /\ pipe' = Append(pipe, event)
      /\ taken' = IF taken < AnsweredFrom.snapshot THEN AnsweredFrom.snapshot ELSE taken
  BY DEF Answer, AnsweredFrom
<1> HIDE DEF page
<1>4. page.snapshot \in Nat /\ page.next \in Cursor \cup {None} /\ page.obs \in SUBSET Observations
  BY <1>1, <1>2 DEF Complete, Cursor
<1>5. event \in Pages
  BY <1>4 DEF Pages
<1>6. Complete(event, cache, run.since, AnsweredFrom)
  BY <1>2 DEF Complete
<1> HIDE DEF event
<1>7. QED
  BY <1>1, <1>3, <1>5, <1>6

LEMMA TypedRuns ==
    Typed /\ (StartRun \/ RequestBackfill \/ BackfillFails \/ Answer \/ FinishRun \/ RequestTimeout)
    => Typed'
<1> SUFFICES ASSUME Typed, \/ StartRun \/ RequestBackfill \/ BackfillFails
                           \/ Answer \/ FinishRun \/ RequestTimeout
             PROVE Typed'
  OBVIOUS
<1> USE DEF daemonOnly, helperVars, cacheVars
<1>0. /\ run \in Runs /\ NoRun \in Runs /\ NoRun.pc = "none"
      /\ run.pc # "none" => run.base \in Checkpoints
      /\ pipe \in Seq(Events) /\ checkpoint \in Checkpoints /\ OnePage
  BY RunTyped, NoRunIsRun DEF NoRun, Typed, TypeOK
<1>1. CASE StartRun
  <2>1. PICK pc \in {"backfill", "asked"} :
            run' = [NoRun EXCEPT !.pc = pc, !.base = checkpoint, !.since = Since(checkpoint),
                                 !.cursor = IF Resuming(checkpoint)
                                            THEN checkpoint.source.resync.cursor ELSE None]
    BY <1>1 DEF StartRun
  <2> DEFINE cursor == IF Resuming(checkpoint) THEN checkpoint.source.resync.cursor ELSE None
  <2>2. cursor \in Cursor \cup {None} /\ Since(checkpoint) \in Nat
    BY <1>0, CheckpointFacts
  <2>3. run' = [NoRun EXCEPT !.pc = pc, !.base = checkpoint, !.since = Since(checkpoint),
                             !.cursor = cursor]
    BY <2>1
  <2> HIDE DEF cursor
  <2>4. run' \in Runs /\ run'.base = checkpoint
    BY <1>0, <2>2, <2>3 DEF Runs
  <2>5. OnePage'
    BY <1>0, <1>1 DEF StartRun, OnePage
  <2>6. QED
    BY <1>0, <1>1, <2>4, <2>5 DEF StartRun, Typed, TypeOK, Runs
<1>2. CASE AskThePhone /\ (RequestBackfill \/ BackfillFails)
  <2>1. PICK sent \in SUBSET phone : inbox' = inbox \o SetToSeq(sent) /\ phone' = phone \ sent
    BY <1>2 DEF AskThePhone
  <2>2. IsFiniteSet(sent) /\ IsFiniteSet(phone') /\ phone' \subseteq Items /\ sent \subseteq Items
    BY <2>1, FS_Subset DEF Typed, TypeOK
  <2>3. SetToSeq(sent) \in Seq(Items) /\ inbox \in Seq(Items)
    BY <2>2, SentIsSequence, SeqMonotonic DEF Typed, TypeOK
  <2> DEFINE more == SetToSeq(sent)
  <2> HIDE DEF more
  <2>4. inbox' \in Seq(Items) /\ (inbox # <<>> => inbox' # <<>>)
    <3>1. inbox' = inbox \o more /\ more \in Seq(Items)
      BY <2>1, <2>3 DEF more
    <3>2. QED
      BY <2>3, <3>1, ConcatProperties, ConcatEqualIffEmpty
  <2>5. /\ run' \in Runs /\ run'.base \in Checkpoints /\ run'.pc = "asked"
        /\ faults' \in 0..MaxFaults
    <3>1. CASE RequestBackfill
      <4> DEFINE base == AsRequested(run.base)
      <4>1. run' = [run EXCEPT !.pc = "asked", !.base = base] /\ base \in Checkpoints
        BY <1>0, <1>2, <3>1, CheckpointFacts DEF RequestBackfill, AskThePhone
      <4> HIDE DEF base
      <4>2. faults' \in 0..MaxFaults
        BY <3>1 DEF RequestBackfill, Typed, TypeOK
      <4>3. QED
        BY <1>0, <4>1, <4>2 DEF Runs
    <3>2. CASE BackfillFails
      <4>1. run' = [run EXCEPT !.pc = "asked"] /\ run.base \in Checkpoints
        BY <1>0, <1>2, <3>2 DEF BackfillFails, AskThePhone
      <4>2. faults' \in 0..MaxFaults
        BY <3>2, FaultType DEF BackfillFails
      <4>3. QED
        BY <1>0, <4>1, <4>2 DEF Runs
    <3>3. QED
      BY <1>2, <3>1, <3>2
  <2>6. OnePage'
    BY <1>0, <1>2 DEF AskThePhone, OnePage
  <2>7. QED
    BY <1>2, <2>2, <2>4, <2>5, <2>6 DEF AskThePhone, Typed, TypeOK, Runs
<1>3. CASE Answer
  <2>1. AnsweredFrom \in Cursor
        /\ taken' = IF taken < AnsweredFrom.snapshot THEN AnsweredFrom.snapshot ELSE taken
    BY <1>3, AnswerFacts
  <2>2. PICK page \in Pages : pipe' = Append(pipe, page)
    BY <1>3, AnswerFacts
  <2>3. page \in Events
    BY DEF Events
  <2>4. /\ pipe' \in Seq(Events)
        /\ \A i \in DOMAIN pipe' : (i \in DOMAIN pipe /\ pipe'[i] = pipe[i]) \/ i = Len(pipe) + 1
    BY <1>0, <2>2, <2>3, Appended
  <2>5. \A i \in DOMAIN pipe : pipe[i].kind # "page"
    BY <1>0, <1>3 DEF Answer, OnePage
  <2>6. run' \in Runs /\ run'.base = run.base /\ run'.pc = "answered" /\ run.base \in Checkpoints
    BY <1>0, <1>3 DEF Runs, Answer
  <2>7. OnePage'
    BY <2>4, <2>5, <2>6 DEF OnePage
  <2>8. taken' \in Nat
    BY <2>1 DEF Cursor, Typed, TypeOK
  <2>9. QED
    BY <1>3, <2>4, <2>6, <2>7, <2>8 DEF Answer, Typed, TypeOK, Runs
<1>4. CASE FinishRun
  <2> DEFINE source == First(run.base.source, NoSource)
             hasMore == run.cursor # None
             last == IF hasMore THEN First(source.last, run.base.success) ELSE run.snapshot
             resync == IF hasMore THEN [cursor |-> run.cursor, since |-> run.since] ELSE None
             success == IF hasMore THEN First(run.base.success, run.snapshot) ELSE run.snapshot
  <2>1. checkpoint' = [source |-> [last |-> last, requested |-> source.requested,
                                   resync |-> resync],
                       success |-> success]
    BY <1>4 DEF FinishRun
  <2>2. source \in SourceCursors /\ run.base \in Checkpoints
    BY <1>0, <1>4, CheckpointFacts DEF FinishRun
  <2> HIDE DEF source
  <2>3. last \in Nat \cup {None} /\ success \in Nat \cup {None}
    BY <1>0, <2>2 DEF First, SourceCursors, Checkpoints, Runs
  <2>4. resync \in Resyncs \cup {None} /\ source.requested \in BOOLEAN
    BY <1>0, <2>2 DEF SourceCursors, Runs, Resyncs
  <2> HIDE DEF last, resync, success
  <2>5. checkpoint' \in Checkpoints
    BY <2>1, <2>3, <2>4 DEF Checkpoints, SourceCursors
  <2>6. OnePage'
    BY <1>0, <1>4 DEF FinishRun, OnePage
  <2>7. QED
    BY <1>0, <1>4, <2>5, <2>6 DEF FinishRun, Typed, TypeOK, Runs
<1>5. CASE RequestTimeout
  <2>1. pipe' \in Seq(Events) /\ \A k \in DOMAIN pipe' : pipe'[k].kind # "page"
    BY <1>0, <1>5, WithoutPagesFacts DEF RequestTimeout, OnePage
  <2>2. QED
    BY <1>0, <1>5, <2>1, FaultType DEF RequestTimeout, Typed, TypeOK, Runs, OnePage
<1>6. QED
  BY <1>1, <1>2, <1>3, <1>4, <1>5 DEF RequestBackfill, BackfillFails

LEMMA TypedProcess ==
    Typed /\ (Tick \/ Spawn \/ Connect \/ Disconnect \/ Exit \/ DaemonRestart) => Typed'
<1> SUFFICES ASSUME Typed, Tick \/ Spawn \/ Connect \/ Disconnect \/ Exit \/ DaemonRestart
             PROVE Typed'
  OBVIOUS
<1> USE DEF helperVars, cacheVars, daemonVars, ProcessOnly
<1>0. /\ run \in Runs /\ NoRun \in Runs /\ NoRun.pc = "none"
      /\ pipe \in Seq(Events) /\ OnePage
  BY RunTyped, NoRunIsRun DEF NoRun, Typed, TypeOK
<1>1. CASE Tick
  BY <1>1, HelperAssumption DEF Tick, Typed, TypeOK, OnePage
<1>2. CASE Spawn
  BY <1>2 DEF Spawn, Loading, Typed, TypeOK, OnePage
<1>3. ASSUME NEW from, NEW to \in {"offline", "online"},
             NEW kind \in {"connected", "disconnected"}, Connection(from, to, kind),
             faults' \in 0..MaxFaults
      PROVE  Typed'
  <2> DEFINE event == [kind |-> kind]
  <2>1. event \in Events /\ event.kind # "page"
    BY EventFacts
  <2>2. pipe' = Append(pipe, event) /\ run' = run
    BY <1>3 DEF Connection
  <2> HIDE DEF event
  <2>3. OnePage' /\ pipe' \in Seq(Events)
    BY <2>1, <2>2, OnePageAppended
  <2>4. QED
    BY <1>3, <2>3 DEF Connection, Typed, TypeOK
<1>4. CASE Connect
  BY <1>3, <1>4 DEF Connect, Typed, TypeOK
<1>5. CASE Disconnect
  BY <1>3, <1>5, FaultType DEF Disconnect
<1>6. CASE Exit \/ DaemonRestart
  <2>1. pipe' = <<>> /\ run' \in Runs /\ (run'.pc # "none" => run'.base \in Checkpoints)
    BY <1>0, <1>6 DEF Exit, DaemonRestart, Typed
  <2>2. pipe' \in Seq(Events) /\ OnePage'
    BY <2>1, EmptySeq DEF OnePage
  <2>3. faults' \in 0..MaxFaults
    BY <1>6, FaultType DEF Exit, DaemonRestart
  <2>4. QED
    BY <1>6, <2>1, <2>2, <2>3 DEF Exit, DaemonRestart, Typed, TypeOK, Runs
<1>7. QED
  BY <1>1, <1>2, <1>4, <1>5, <1>6

LEMMA TypedStep == Typed /\ [Next]_vars => Typed'
<1>1. Typed /\ UNCHANGED vars => Typed'
  BY DEF vars, helperVars, cacheVars, daemonVars, Typed, TypeOK, OnePage
<1>2. QED
  BY <1>1, TypedHandling, TypedApplying, TypedReading, TypedRuns, TypedProcess DEF Next, Syncing

(* The helper and the daemon keep the shape of their state. *)
THEOREM WhatsAppTypeCorrect == Spec => []TypeOK
<1>1. Typed => TypeOK
  BY DEF Typed
<1>2. QED
  BY <1>1, TypedInit, TypedStep, PTL DEF Spec
-----------------------------------------------------------------------------
(* What is acknowledged is kept. *)
LEMMA AppliedRows ==
    ASSUME RowsOf(cache), now \in Nat, NEW batch \in SUBSET Observations, NEW o \in batch,
           cache' = Apply(cache, batch, now)
    PROVE  /\ cache'[o.of] # None
           /\ \E x \in batch : x.of = o.of /\ (x.revoked => Revoked(cache'[o.of]))
<1> DEFINE d == Apply(cache, batch, now)
<1>1. Changed(cache, d, batch, now)
  BY ApplyFacts
<1> HIDE DEF d
<1>2. d[o.of] # None /\ \E x \in batch : x.of = o.of /\ (x.revoked => Revoked(d[o.of]))
  BY <1>1 DEF Changed
<1>3. QED
  BY <1>2 DEF d

LEMMA CacheSteps ==
    Typed /\ [Next]_vars =>
        \/ StoreObservation \/ StoreReceipt \/ DeleteCalls \/ ApplyHistory
        \/ cache' = cache /\ late' = late /\ deleted' = deleted
<1> USE DEF cacheVars, Stored, Historian, Read, daemonOnly, AskThePhone, ProcessOnly, Connection
<1>1. Handling => StoreObservation \/ StoreReceipt \/ DeleteCalls
                  \/ (cache' = cache /\ late' = late /\ deleted' = deleted)
  BY DEF Handling, HandleEvent, AnnounceHistory, Acknowledge, ReturnOffline
<1>2. Applying \/ DownloadFails => ApplyHistory
                  \/ (cache' = cache /\ late' = late /\ deleted' = deleted)
  BY DEF Applying, Wake, DownloadHistory, DownloadFails, RetryDownload, DeleteNotification
<1>3. Reading \/ IngestFails => cache' = cache /\ late' = late /\ deleted' = deleted
  BY DEF Reading, ReadConnected, ReadDisconnected, Ingest, IngestReceipt, IngestDeletion,
         ReadPage, IngestFails
<1>4. Syncing \/ StartRun \/ BackfillFails \/ RequestTimeout =>
          cache' = cache /\ late' = late /\ deleted' = deleted
  BY DEF Syncing, RequestBackfill, Answer, FinishRun, StartRun, BackfillFails, RequestTimeout
<1>5. Tick \/ Spawn \/ Connect \/ Disconnect \/ Exit \/ DaemonRestart \/ UNCHANGED vars =>
          cache' = cache /\ late' = late /\ deleted' = deleted
  BY DEF Tick, Spawn, Connect, Disconnect, Exit, DaemonRestart, vars
<1>6. QED
  BY <1>1, <1>2, <1>3, <1>4, <1>5 DEF Next

LEMMA InCacheStays ==
    ASSUME Typed, [Next]_vars, NEW o \in Observations, InCache(o)
    PROVE  InCache(o)'
<1>0. /\ RowsOf(cache) /\ now \in Nat /\ o.of \in Entries /\ o.revoked \in BOOLEAN
      /\ o.revoked => o.of \in Messages
  BY TypedFacts, ObservationFacts
<1>1. handler # "idle" => Item \in Items /\ Item.obs \in SUBSET Observations
  BY TypedFacts, ItemFacts DEF Typed
<1>2. ASSUME NEW batch \in SUBSET Observations, cache' = Apply(cache, batch, now),
             deleted' = deleted
      PROVE  InCache(o)'
  <2>0. Changed(cache, cache', batch, now)
    BY <1>0, <1>2, ApplyFacts
  <2>1. Revoked(cache[o.of]) => Revoked(cache'[o.of])
    BY <1>0, <2>0 DEF Changed
  <2>2. cache[o.of] # None => cache'[o.of] # None
    BY <1>0, <2>0 DEF Changed
  <2>3. QED
    BY <1>2, <2>1, <2>2 DEF InCache
<1>3. CASE StoreObservation
  BY <1>1, <1>2, <1>3 DEF StoreObservation, Stored
<1>4. CASE ApplyHistory
  <2>1. historian.batch \in SUBSET Observations
    BY DEF Typed, TypeOK
  <2>2. QED
    BY <1>2, <1>4, <2>1 DEF ApplyHistory
<1>5. CASE StoreReceipt
  <2>1. PICK m \in Observations : Item.obs = {m} /\ m = Told /\ m.of \in Messages
    BY <1>1, <1>5, ItemFacts DEF StoreReceipt, Stored, Told
  <2>2. Told.of \in Entries
    BY <2>1, EntryFacts
  <2>3. cache' = [cache EXCEPT ![Told.of] = Touched(cache[Told.of], now)] /\ deleted' = deleted
    BY <1>5 DEF StoreReceipt
  <2>4. \A row \in Rows : /\ row # None => Touched(row, now) # None
                          /\ Revoked(row) => Revoked(Touched(row, now))
    BY <1>0, RowFacts DEF Revoked
  <2>5. cache \in [Entries -> Rows]
    BY <1>0 DEF RowsOf
  <2>6. /\ cache[o.of] # None => cache'[o.of] # None
        /\ Revoked(cache[o.of]) => Revoked(cache'[o.of])
    BY <1>0, <2>2, <2>3, <2>4, <2>5
  <2>7. QED
    BY <2>3, <2>6 DEF InCache
<1>6. CASE DeleteCalls
  <2>1. PICK c \in Observations : Item.obs = {c} /\ c = Told /\ c.of \in Calls
    BY <1>1, <1>6, ItemFacts DEF DeleteCalls, Stored, Told
  <2>2. cache' = [cache EXCEPT ![Told.of] = None] /\ deleted' = deleted \cup {Told.of}
    BY <1>6 DEF DeleteCalls
  <2>3. CASE o.of = Told.of
    BY <1>0, <2>1, <2>2, <2>3, EntryFacts DEF InCache
  <2>4. CASE o.of # Told.of
    BY <1>0, <2>2, <2>4 DEF InCache, RowsOf
  <2>5. QED
    BY <2>3, <2>4
<1>7. CASE cache' = cache /\ deleted' = deleted
  BY <1>7 DEF InCache
<1>8. QED
  BY <1>3, <1>4, <1>5, <1>6, <1>7, CacheSteps

LEMMA QueueSteps ==
    [Next]_vars => AnnounceHistory \/ DeleteNotification \/ queue' = queue
<1> USE DEF cacheVars, Stored, Historian, Read, daemonOnly, AskThePhone, ProcessOnly, Connection
<1>1. Handling => AnnounceHistory \/ queue' = queue
  BY DEF Handling, HandleEvent, StoreObservation, StoreReceipt, DeleteCalls, Acknowledge,
         ReturnOffline
<1>2. Applying \/ DownloadFails => DeleteNotification \/ queue' = queue
  BY DEF Applying, Wake, DownloadHistory, DownloadFails, RetryDownload, ApplyHistory
<1>3. Reading \/ IngestFails => queue' = queue
  BY DEF Reading, ReadConnected, ReadDisconnected, Ingest, IngestReceipt, IngestDeletion,
         ReadPage, IngestFails
<1>4. Syncing \/ StartRun \/ BackfillFails \/ RequestTimeout => queue' = queue
  BY DEF Syncing, RequestBackfill, Answer, FinishRun, StartRun, BackfillFails, RequestTimeout
<1>5. Tick \/ Spawn \/ Connect \/ Disconnect \/ Exit \/ DaemonRestart \/ UNCHANGED vars =>
          queue' = queue
  BY DEF Tick, Spawn, Connect, Disconnect, Exit, DaemonRestart, vars
<1>6. QED
  BY <1>1, <1>2, <1>3, <1>4, <1>5 DEF Next

(* A chunk leaves the queue when all of it is in the cache. *)
LEMMA KeptStays ==
    ASSUME Typed, HistorianHolds, [Next]_vars, NEW o \in Observations, Kept(o)
    PROVE  Kept(o)'
<1>1. CASE InCache(o)
  BY <1>1, InCacheStays DEF Kept
<1>2. ASSUME NEW i \in DOMAIN queue, o \in queue[i]
      PROVE  Kept(o)'
  <2>0. queue \in Seq(SUBSET Observations)
    BY DEF Typed, TypeOK
  <2>1. CASE AnnounceHistory
    <3>1. Item.obs \in SUBSET Observations
      BY <2>1, TypedFacts, ItemFacts DEF AnnounceHistory, Stored, Typed
    <3>2. i \in DOMAIN queue' /\ queue'[i] = queue[i]
      BY <1>2, <2>0, <2>1, <3>1, Appended DEF AnnounceHistory
    <3>3. QED
      BY <1>2, <3>2 DEF Kept
  <2>2. CASE DeleteNotification
    <3>1. queue # <<>> /\ \A x \in Head(queue) : InCache(x)
      BY <2>2 DEF DeleteNotification, Historian, HistorianHolds, Typed
    <3>2. CASE i = 1
      BY <1>2, <2>0, <3>1, <3>2, Removed, InCacheStays DEF Kept
    <3>3. CASE i # 1
      <4>1. queue' = Tail(queue)
        BY <2>2 DEF DeleteNotification
      <4>2. i - 1 \in DOMAIN queue' /\ queue'[i - 1] = queue[i]
        BY <1>2, <2>0, <3>1, <3>3, <4>1, Removed
      <4>3. QED
        BY <1>2, <4>2 DEF Kept
    <3>4. QED
      BY <3>2, <3>3
  <2>3. CASE queue' = queue
    BY <1>2, <2>3 DEF Kept
  <2>4. QED
    BY <2>1, <2>2, <2>3, QueueSteps
<1>3. QED
  BY <1>1, <1>2 DEF Kept
LEMMA HandlerSteps ==
    Typed /\ [Next]_vars =>
        \/ HandleEvent \/ StoreObservation \/ StoreReceipt \/ DeleteCalls \/ AnnounceHistory
        \/ handler' = "idle"
        \/ handler' = handler /\ (handler # "idle" => Item' = Item)
<1> USE DEF helperVars, cacheVars, Historian, Read, daemonOnly, ProcessOnly, Connection
<1>1. Handling => \/ HandleEvent \/ StoreObservation \/ StoreReceipt \/ DeleteCalls
                  \/ AnnounceHistory \/ handler' = "idle"
  BY DEF Handling, Acknowledge, ReturnOffline
<1>2. Applying \/ DownloadFails => handler' = handler /\ inbox' = inbox
  BY DEF Applying, Wake, DownloadHistory, DownloadFails, RetryDownload, ApplyHistory,
         DeleteNotification
<1>3. Reading \/ IngestFails => handler' = handler /\ inbox' = inbox
  BY DEF Reading, ReadConnected, ReadDisconnected, Ingest, IngestReceipt, IngestDeletion,
         ReadPage, IngestFails
<1>4. Answer \/ FinishRun \/ StartRun \/ RequestTimeout => handler' = handler /\ inbox' = inbox
  BY DEF Answer, FinishRun, StartRun, RequestTimeout
<1>5. Tick \/ Connect \/ Disconnect \/ Exit \/ DaemonRestart \/ UNCHANGED vars =>
          handler' = handler /\ inbox' = inbox
  BY DEF Tick, Connect, Disconnect, Exit, DaemonRestart, vars
<1>6. Spawn => handler' = "idle"
  BY DEF Spawn
<1>7. Typed /\ AskThePhone => handler' = handler /\ (handler # "idle" => Item' = Item)
  <2> SUFFICES ASSUME Typed, AskThePhone, handler # "idle" PROVE Item' = Item
    BY DEF AskThePhone
  <2>1. PICK sent \in SUBSET phone : inbox' = inbox \o SetToSeq(sent)
    BY DEF AskThePhone
  <2>2. IsFiniteSet(sent) /\ sent \subseteq Items /\ inbox \in Seq(Items) /\ inbox # <<>>
    BY <2>1, FS_Subset DEF Typed, TypeOK
  <2> DEFINE more == SetToSeq(sent)
  <2>3. more \in Seq(Items)
    BY <2>2, SentIsSequence, SeqMonotonic
  <2> HIDE DEF more
  <2>4. Len(inbox) \in Nat \ {0} /\ Len(more) \in Nat
    BY <2>2, <2>3, LenProperties, EmptySeq
  <2>5. (inbox \o more)[1] = inbox[1]
    BY <2>2, <2>3, <2>4, ConcatProperties
  <2>6. inbox' = inbox \o more
    BY <2>1 DEF more
  <2>7. Head(inbox') = inbox'[1] /\ Head(inbox) = inbox[1]
    OBVIOUS
  <2>8. QED
    BY <2>5, <2>6, <2>7 DEF Item
<1>8. inbox' = inbox => Item' = Item
  BY DEF Item
<1>9. QED
  BY <1>1, <1>2, <1>3, <1>4, <1>5, <1>6, <1>7, <1>8
     DEF Next, Syncing, RequestBackfill, BackfillFails

LEMMA HandlerStep ==
    Typed /\ HandlerHolds /\ HistorianHolds /\ [Next]_vars => HandlerHolds'
<1> SUFFICES ASSUME Typed, HandlerHolds, HistorianHolds, [Next]_vars,
                    handler' = "stored",
                    Item'.kind \in {"message", "call", "history"}, NEW o \in Item'.obs
             PROVE  Kept(o)'
  BY DEF HandlerHolds
<1>0. /\ handler # "idle" => inbox # <<>>
      /\ inbox # <<>> => Item \in Items /\ Item.obs \in SUBSET Observations
      /\ inbox' = inbox => Item' = Item
      /\ RowsOf(cache) /\ now \in Nat
  BY TypedFacts, ItemFacts DEF Typed, Item
<1>1. CASE HandleEvent
  <2>1. /\ inbox # <<>> /\ Item' = Item /\ cache' = cache /\ queue' = queue
        /\ Item.kind = "message" /\ ~Told.revoked /\ Revoked(cache[Told.of])
    BY <1>0, <1>1 DEF HandleEvent, cacheVars
  <2>2. o = Told /\ o \in Observations
    BY <1>0, <2>1, ItemFacts DEF Told
  <2>3. InCache(o)'
    BY <2>1, <2>2 DEF InCache, Revoked
  <2>4. QED
    BY <2>3 DEF Kept
<1>2. CASE StoreObservation
  <2>1. /\ inbox # <<>> /\ Item' = Item /\ cache' = Apply(cache, Item.obs, now)
        /\ Item.kind \in {"message", "call"}
    BY <1>0, <1>2 DEF StoreObservation, Stored
  <2>2. Item.obs = {o} /\ o \in Observations
    BY <1>0, <2>1, ItemFacts
  <2>3. o.of \in Entries /\ o \in Item.obs
    BY <2>2, ObservationFacts
  <2>4. cache'[o.of] # None /\ \E x \in Item.obs : x.revoked => Revoked(cache'[o.of])
    BY <1>0, <2>1, <2>3, AppliedRows
  <2>5. QED
    BY <2>2, <2>4 DEF Kept, InCache
<1>3. CASE AnnounceHistory
  <2>1. inbox # <<>> /\ Item' = Item /\ queue' = Append(queue, Item.obs)
    BY <1>0, <1>3 DEF AnnounceHistory, Stored
  <2>2. queue \in Seq(SUBSET Observations) /\ Item.obs \in SUBSET Observations
    BY <1>0, <2>1 DEF Typed, TypeOK
  <2>3. PICK i \in DOMAIN queue' : queue'[i] = Item.obs
    BY <2>1, <2>2, Appended
  <2>4. QED
    BY <2>1, <2>3 DEF Kept
<1>4. CASE handler' = handler /\ (handler # "idle" => Item' = Item)
  <2>1. Item' = Item /\ Kept(o) /\ o \in Observations
    BY <1>0, <1>4 DEF HandlerHolds
  <2>2. QED
    BY <2>1, KeptStays
<1>5. CASE StoreReceipt \/ DeleteCalls
  BY <1>0, <1>5 DEF StoreReceipt, DeleteCalls, Stored
<1>6. QED
  BY <1>1, <1>2, <1>3, <1>4, <1>5, HandlerSteps

LEMMA HistorianSteps ==
    [Next]_vars =>
        \/ DownloadHistory \/ ApplyHistory
        \/ historian'.pc \notin {"filtered", "applied"}
        \/ historian' = historian
<1> USE DEF helperVars, cacheVars, Stored, Historian, Read, daemonOnly, AskThePhone,
            ProcessOnly, Connection, Loading
<1>1. Handling => historian' = historian
  BY DEF Handling, HandleEvent, StoreObservation, StoreReceipt, DeleteCalls, AnnounceHistory,
         Acknowledge, ReturnOffline
<1>2. Applying \/ DownloadFails => \/ DownloadHistory \/ ApplyHistory
                                   \/ historian'.pc \notin {"filtered", "applied"}
  BY DEF Applying, Wake, DownloadFails, RetryDownload, DeleteNotification
<1>3. Reading \/ IngestFails => historian' = historian
  BY DEF Reading, ReadConnected, ReadDisconnected, Ingest, IngestReceipt, IngestDeletion,
         ReadPage, IngestFails
<1>4. Syncing \/ StartRun \/ BackfillFails \/ RequestTimeout => historian' = historian
  BY DEF Syncing, RequestBackfill, Answer, FinishRun, StartRun, BackfillFails, RequestTimeout
<1>5. Tick \/ Connect \/ Disconnect \/ Exit \/ DaemonRestart \/ UNCHANGED vars =>
          historian' = historian
  BY DEF Tick, Connect, Disconnect, Exit, DaemonRestart, vars
<1>6. Spawn => historian'.pc \notin {"filtered", "applied"}
  BY DEF Spawn
<1>7. QED
  BY <1>1, <1>2, <1>3, <1>4, <1>5, <1>6 DEF Next

LEMMA HistorianStep ==
    Typed /\ HistorianHolds /\ [Next]_vars => HistorianHolds'
<1> SUFFICES ASSUME Typed, HistorianHolds, [Next]_vars PROVE HistorianHolds'
  OBVIOUS
<1>0. /\ RowsOf(cache) /\ now \in Nat /\ queue \in Seq(SUBSET Observations)
      /\ historian.batch \in SUBSET Observations
      /\ historian.pc \in {"filtered", "applied"} => queue # <<>>
      /\ queue # <<>> => Head(queue) \in SUBSET Observations
  BY TypedFacts, Removed DEF Typed, TypeOK
<1>1. CASE historian'.pc \notin {"filtered", "applied"}
  BY <1>1 DEF HistorianHolds
<1>2. CASE DownloadHistory /\ queue # <<>>
  <2> DEFINE batch == Unrevoked(cache, Batch(Head(queue)))
  <2>1. /\ historian' = [pc |-> "filtered", batch |-> batch]
        /\ queue' = queue /\ cache' = cache /\ deleted' = deleted
    BY <1>2 DEF DownloadHistory, Historian, cacheVars
  <2>2. /\ \A b, c \in batch : b.of = c.of => b = c
        /\ \A o \in Head(queue) :
              InCache(o) \/ \E b \in batch : b.of = o.of /\ (o.revoked => b.revoked)
    BY <1>0, <1>2, BatchOfHistory
  <2> HIDE DEF batch
  <2>3. historian'.pc = "filtered" /\ historian'.batch = batch
    BY <2>1
  <2>4. \A o : InCache(o)' <=> InCache(o)
    BY <2>1 DEF InCache
  <2>5. QED
    BY <2>1, <2>2, <2>3, <2>4 DEF HistorianHolds
<1>3. CASE ApplyHistory
  <2>1. /\ historian.pc = "filtered" /\ historian'.pc = "applied" /\ queue' = queue
        /\ cache' = Apply(cache, historian.batch, now)
    BY <1>3 DEF ApplyHistory, Historian, Loading
  <2>2. ASSUME NEW o \in Head(queue), ~InCache(o)
        PROVE  InCache(o)'
    <3>1. PICK b \in historian.batch : b.of = o.of /\ (o.revoked => b.revoked)
      BY <2>1, <2>2 DEF HistorianHolds
    <3>2. o \in Observations /\ o.of \in Entries
      BY <1>0, <2>1, <2>2, ObservationFacts
    <3>3. /\ cache'[o.of] # None
          /\ \E x \in historian.batch : x.of = o.of /\ (x.revoked => Revoked(cache'[o.of]))
      BY <1>0, <2>1, <3>1, AppliedRows
    <3>4. b.revoked => Revoked(cache'[o.of])
      BY <2>1, <3>1, <3>3 DEF HistorianHolds
    <3>5. QED
      BY <3>1, <3>3, <3>4 DEF InCache
  <2>3. \A o \in Head(queue) : InCache(o)'
    <3>1. \A o \in Head(queue) : o \in Observations
      BY <1>0, <2>1
    <3>2. QED
      BY <2>2, <3>1, InCacheStays
  <2>4. QED
    BY <2>1, <2>3 DEF HistorianHolds
<1>4. CASE historian' = historian /\ historian.pc \in {"filtered", "applied"}
  <2>1. Head(queue') = Head(queue)
    <3>1. CASE AnnounceHistory
      <4>1. Item.obs \in SUBSET Observations
        BY <3>1, TypedFacts, ItemFacts DEF AnnounceHistory, Stored, Typed
      <4>2. QED
        BY <1>0, <1>4, <3>1, <4>1, Appended DEF AnnounceHistory
    <3>2. CASE DeleteNotification
      BY <1>4, <3>2 DEF DeleteNotification, Loading, Historian
    <3>3. QED
      BY <3>1, <3>2, QueueSteps
  <2>2. \A o \in Head(queue) : InCache(o) => InCache(o)'
    <3>1. \A o \in Head(queue) : o \in Observations
      BY <1>0, <1>4
    <3>2. QED
      BY <3>1, InCacheStays
  <2>3. QED
    BY <1>4, <2>1, <2>2 DEF HistorianHolds
<1>5. CASE DownloadHistory /\ queue = <<>>
  BY <1>5 DEF DownloadHistory, Loading, HistorianHolds
<1>6. QED
  BY <1>1, <1>2, <1>3, <1>4, <1>5, HistorianSteps DEF HistorianHolds

LEMMA AckedStep ==
    Typed /\ HandlerHolds /\ HistorianHolds /\ AckedIsKept /\ [Next]_vars => AckedIsKept'
<1> SUFFICES ASSUME Typed, HandlerHolds, HistorianHolds, AckedIsKept, [Next]_vars,
                    NEW item \in acked', item.kind \in {"message", "call", "history"},
                    NEW o \in item.obs
             PROVE  Kept(o)'
  BY DEF AckedIsKept
<1>1. item \in acked \/ (Acknowledge /\ item = Item)
  <2> USE DEF Stored, Historian, Read, daemonOnly, AskThePhone, ProcessOnly, Connection
  <2>1. Handling => Acknowledge \/ acked' = acked
    BY DEF Handling, HandleEvent, StoreObservation, StoreReceipt, DeleteCalls, AnnounceHistory,
           ReturnOffline
  <2>2. Applying \/ DownloadFails => acked' = acked
    BY DEF Applying, Wake, DownloadHistory, DownloadFails, RetryDownload, ApplyHistory,
           DeleteNotification
  <2>3. Reading \/ IngestFails => acked' = acked
    BY DEF Reading, ReadConnected, ReadDisconnected, Ingest, IngestReceipt, IngestDeletion,
           ReadPage, IngestFails
  <2>4. Syncing \/ StartRun \/ BackfillFails \/ RequestTimeout => acked' = acked
    BY DEF Syncing, RequestBackfill, Answer, FinishRun, StartRun, BackfillFails, RequestTimeout
  <2>5. Tick \/ Spawn \/ Connect \/ Disconnect \/ Exit \/ DaemonRestart \/ UNCHANGED vars =>
            acked' = acked
    BY DEF Tick, Spawn, Connect, Disconnect, Exit, DaemonRestart, vars
  <2>6. Acknowledge => acked' = acked \cup {Item}
    BY DEF Acknowledge
  <2>7. QED
    BY <2>1, <2>2, <2>3, <2>4, <2>5, <2>6 DEF Next
<1>2. Kept(o) /\ item \in Items
  <2>1. CASE item \in acked
    BY <2>1 DEF AckedIsKept, Typed, TypeOK
  <2>2. CASE Acknowledge /\ item = Item
    BY <2>2, TypedFacts DEF Acknowledge, HandlerHolds, Typed
  <2>3. QED
    BY <1>1, <2>1, <2>2
<1>3. o \in Observations
  BY <1>2, ItemFacts
<1>4. QED
  BY <1>2, <1>3, KeptStays

(* What the provider was told is handled is in the cache or in a chunk     *)
(* that is yet to be applied, wherever the helper, its connection or the   *)
(* daemon end.                                                             *)
THEOREM AckedKept == Spec => []AckedIsKept
<1> DEFINE Holds == Typed /\ HandlerHolds /\ HistorianHolds /\ AckedIsKept
<1>1. Init => Holds
  <2>1. Init => HandlerHolds /\ HistorianHolds /\ AckedIsKept
    BY DEF Init, Loading, HandlerHolds, HistorianHolds, AckedIsKept
  <2>2. QED
    BY <2>1, TypedInit
<1>2. Holds /\ [Next]_vars => Holds'
  BY TypedStep, HandlerStep, HistorianStep, AckedStep
<1>3. QED
  BY <1>1, <1>2, PTL DEF Spec
-----------------------------------------------------------------------------
(* Nothing is skipped. *)

(* A row that is stored is stamped above every snapshot that was taken, or  *)
(* is told to be late.                                                      *)
LEMMA StampedRows ==
    ASSUME Typed, StoreObservation \/ StoreReceipt \/ DeleteCalls \/ ApplyHistory,
           NEW e \in Entries
    PROVE  \/ cache'[e] = None
           \/ cache'[e] = cache[e] /\ (e \in late <=> e \in late')
           \/ cache'[e].at = now /\ (e \in late' \/ now > taken)
<1>0. /\ RowsOf(cache) /\ now \in Nat /\ taken \in Nat /\ historian.batch \in SUBSET Observations
      /\ handler # "idle" => Item \in Items /\ Item.obs \in SUBSET Observations
  BY TypedFacts, ItemFacts DEF Typed, TypeOK
<1>1. ASSUME NEW batch \in SUBSET Observations, cache' = Apply(cache, batch, now),
             late' = StampedLate(batch)
      PROVE  \/ cache'[e] = cache[e] /\ (e \in late <=> e \in late')
             \/ cache'[e].at = now /\ (e \in late' \/ now > taken)
  <2>1. Changed(cache, cache', batch, now)
    BY <1>0, <1>1, ApplyFacts
  <2>2. CASE \E o \in batch : o.of = e
    <3>1. cache'[e].at = now
      BY <2>1, <2>2 DEF Changed
    <3>2. now <= taken => e \in late'
      BY <1>1, <2>2 DEF StampedLate
    <3>3. QED
      BY <1>0, <3>1, <3>2
  <2>3. CASE ~\E o \in batch : o.of = e
    <3>1. cache'[e] = cache[e]
      BY <2>1, <2>3 DEF Changed
    <3>2. e \in late <=> e \in late'
      BY <1>1, <2>3 DEF StampedLate
    <3>3. QED
      BY <3>1, <3>2
  <2>4. QED
    BY <2>2, <2>3
<1>2. CASE StoreObservation
  BY <1>0, <1>1, <1>2 DEF StoreObservation, Stored
<1>3. CASE ApplyHistory
  BY <1>0, <1>1, <1>3 DEF ApplyHistory
<1>4. CASE StoreReceipt
  <2>1. PICK m \in Observations : Item.obs = {m} /\ m = Told /\ m.of \in Messages
    BY <1>0, <1>4, ItemFacts DEF StoreReceipt, Stored, Told
  <2>2. Told.of \in Entries
    BY <2>1, EntryFacts
  <2>3. cache' = [cache EXCEPT ![Told.of] = Touched(cache[Told.of], now)]
    BY <1>4 DEF StoreReceipt
  <2>4. cache \in [Entries -> Rows]
    BY <1>0 DEF RowsOf
  <2>5. CASE e # Told.of
    <3>1. cache'[e] = cache[e]
      BY <2>3, <2>4, <2>5
    <3>2. e \in late <=> e \in late'
      BY <1>4, <2>1, <2>5 DEF StoreReceipt, StampedLate
    <3>3. QED
      BY <3>1, <3>2
  <2>6. CASE e = Told.of /\ cache[e] = None
    BY <2>3, <2>4, <2>6 DEF Touched
  <2>7. CASE e = Told.of /\ cache[e] # None
    <3>1. cache'[e].at = now
      BY <1>0, <2>3, <2>4, <2>7, RowFacts
    <3>2. now <= taken => e \in late'
      BY <1>4, <2>1, <2>7 DEF StoreReceipt, StampedLate
    <3>3. QED
      BY <1>0, <3>1, <3>2
  <2>8. QED
    BY <2>5, <2>6, <2>7
<1>5. CASE DeleteCalls
  BY <1>0, <1>5 DEF DeleteCalls, RowsOf
<1>6. QED
  BY <1>2, <1>3, <1>4, <1>5

LEMMA StoringSteps ==
    StoreObservation \/ StoreReceipt \/ DeleteCalls \/ ApplyHistory =>
        /\ run' = run /\ checkpoint' = checkpoint /\ stored' = stored
        /\ taken' = taken /\ now' = now
BY DEF StoreObservation, StoreReceipt, DeleteCalls, ApplyHistory, Stored, Historian, daemonVars

(* What the daemon has, it keeps. *)
LEMMA StoredSteps ==
    ASSUME Typed, [Next]_vars, NEW e \in Entries, stored[e] # "none"
    PROVE  stored'[e] # "none"
<1> USE DEF Stored, Historian, Read, daemonOnly, AskThePhone, ProcessOnly, Connection, daemonVars
<1>1. Handling => stored' = stored
  BY DEF Handling, HandleEvent, StoreObservation, StoreReceipt, DeleteCalls, AnnounceHistory,
         Acknowledge, ReturnOffline
<1>2. Applying \/ DownloadFails => stored' = stored
  BY DEF Applying, Wake, DownloadHistory, DownloadFails, RetryDownload, ApplyHistory,
         DeleteNotification
<1>3. ReadConnected \/ ReadDisconnected \/ IngestReceipt \/ IngestDeletion \/ IngestFails =>
          stored' = stored
  BY DEF ReadConnected, ReadDisconnected, IngestReceipt, IngestDeletion, IngestFails
<1>4. Ingest \/ ReadPage => stored' = Inserted(Head(pipe).obs)
  BY DEF Ingest, ReadPage
<1>5. Syncing \/ StartRun \/ BackfillFails \/ RequestTimeout => stored' = stored
  BY DEF Syncing, RequestBackfill, Answer, FinishRun, StartRun, BackfillFails, RequestTimeout
<1>6. Tick \/ Spawn \/ Connect \/ Disconnect \/ Exit \/ DaemonRestart \/ UNCHANGED vars =>
          stored' = stored
  BY DEF Tick, Spawn, Connect, Disconnect, Exit, DaemonRestart, vars
<1>7. stored' = Inserted(Head(pipe).obs) => stored'[e] # "none"
  BY InsertedType
<1>8. QED
  BY <1>1, <1>2, <1>3, <1>4, <1>5, <1>6, <1>7 DEF Next, Reading

(* What is unseen was unseen before, with the same stamp, or has a stamp    *)
(* above all snapshots.                                                     *)
LEMMA UnseenSteps ==
    ASSUME Typed, [Next]_vars, NEW e \in Entries, Unseen(e)'
    PROVE  \/ Unseen(e) /\ cache'[e] = cache[e]
           \/ /\ cache'[e].at > taken
              /\ run' = run /\ checkpoint' = checkpoint /\ taken' = taken
<1>1. cache'[e] # None /\ stored[e] = "none" /\ e \notin late'
  BY StoredSteps DEF Unseen
<1>2. CASE StoreObservation \/ StoreReceipt \/ DeleteCalls \/ ApplyHistory
  BY <1>1, <1>2, StampedRows, StoringSteps DEF Unseen
<1>3. CASE cache' = cache /\ late' = late
  BY <1>1, <1>3 DEF Unseen
<1>4. QED
  BY <1>2, <1>3, CacheSteps
LEMMA RunSteps ==
    Typed /\ [Next]_vars =>
        \/ run' = run \/ run' = NoRun
        \/ StartRun \/ RequestBackfill \/ BackfillFails \/ Answer \/ ReadPage
<1> USE DEF Stored, Historian, Read, daemonOnly, AskThePhone, ProcessOnly, Connection, daemonVars
<1>1. Handling => run' = run
  BY DEF Handling, HandleEvent, StoreObservation, StoreReceipt, DeleteCalls, AnnounceHistory,
         Acknowledge, ReturnOffline
<1>2. Applying \/ DownloadFails => run' = run
  BY DEF Applying, Wake, DownloadHistory, DownloadFails, RetryDownload, ApplyHistory,
         DeleteNotification
<1>3. Reading \/ IngestFails => run' = run \/ run' = NoRun \/ ReadPage
  BY DEF Reading, ReadConnected, ReadDisconnected, Ingest, IngestReceipt, IngestDeletion,
         IngestFails
<1>4. FinishRun \/ RequestTimeout => run' = NoRun
  BY DEF FinishRun, RequestTimeout
<1>5. Tick \/ Spawn \/ Connect \/ Disconnect \/ Exit \/ DaemonRestart \/ UNCHANGED vars =>
          run' = run \/ run' = NoRun
  BY DEF Tick, Spawn, Connect, Disconnect, Exit, DaemonRestart, vars
<1>6. QED
  BY <1>1, <1>2, <1>3, <1>4, <1>5 DEF Next, Syncing

LEMMA CheckpointSteps ==
    Typed /\ [Next]_vars => checkpoint'.source = checkpoint.source \/ FinishRun
<1> USE DEF Stored, Historian, Read, daemonOnly, AskThePhone, ProcessOnly, Connection, daemonVars
<1>1. Handling => checkpoint' = checkpoint
  BY DEF Handling, HandleEvent, StoreObservation, StoreReceipt, DeleteCalls, AnnounceHistory,
         Acknowledge, ReturnOffline
<1>2. Applying \/ DownloadFails => checkpoint' = checkpoint
  BY DEF Applying, Wake, DownloadHistory, DownloadFails, RetryDownload, ApplyHistory,
         DeleteNotification
<1>3. Typed /\ (Reading \/ IngestFails) => checkpoint'.source = checkpoint.source
  <2>1. Typed => [checkpoint EXCEPT !.success = now].source = checkpoint.source
    BY DEF Typed, TypeOK, Checkpoints
  <2>2. QED
    BY <2>1 DEF Reading, ReadConnected, ReadDisconnected, Ingest, IngestReceipt,
                IngestDeletion, ReadPage, IngestFails
<1>4. RequestBackfill \/ Answer \/ StartRun \/ BackfillFails \/ RequestTimeout =>
          checkpoint' = checkpoint
  BY DEF RequestBackfill, Answer, StartRun, BackfillFails, RequestTimeout
<1>5. Tick \/ Spawn \/ Connect \/ Disconnect \/ Exit \/ DaemonRestart \/ UNCHANGED vars =>
          checkpoint' = checkpoint
  BY DEF Tick, Spawn, Connect, Disconnect, Exit, DaemonRestart, vars
<1>6. QED
  BY <1>1, <1>2, <1>3, <1>4, <1>5 DEF Next, Syncing

LEMMA TakenSteps == [Next]_vars => taken' = taken \/ Answer
<1> USE DEF Stored, Historian, Read, daemonOnly, AskThePhone, ProcessOnly, Connection
<1>1. Handling => taken' = taken
  BY DEF Handling, HandleEvent, StoreObservation, StoreReceipt, DeleteCalls, AnnounceHistory,
         Acknowledge, ReturnOffline
<1>2. Applying \/ DownloadFails => taken' = taken
  BY DEF Applying, Wake, DownloadHistory, DownloadFails, RetryDownload, ApplyHistory,
         DeleteNotification
<1>3. Reading \/ IngestFails => taken' = taken
  BY DEF Reading, ReadConnected, ReadDisconnected, Ingest, IngestReceipt, IngestDeletion,
         ReadPage, IngestFails
<1>4. RequestBackfill \/ FinishRun \/ StartRun \/ BackfillFails \/ RequestTimeout =>
          taken' = taken
  BY DEF RequestBackfill, FinishRun, StartRun, BackfillFails, RequestTimeout
<1>5. Tick \/ Spawn \/ Connect \/ Disconnect \/ Exit \/ DaemonRestart \/ UNCHANGED vars =>
          taken' = taken
  BY DEF Tick, Spawn, Connect, Disconnect, Exit, DaemonRestart, vars
<1>6. QED
  BY <1>1, <1>2, <1>3, <1>4, <1>5 DEF Next, Syncing

(* A page on its way was there before, or is the answer to the run. *)
LEMMA PageSteps ==
    ASSUME Typed, [Next]_vars, NEW i \in DOMAIN pipe', pipe'[i].kind = "page"
    PROVE  Answer \/ (run' = run /\ \E j \in DOMAIN pipe : pipe[j] = pipe'[i])
<1>0. /\ pipe \in Seq(Events) /\ run'.pc = "answered"
      /\ run \in Runs /\ run' \in Runs /\ OnePage
  BY TypedStep, RunTyped DEF Typed, TypeOK, OnePage, Runs
<1>1. run' = run \/ Answer
  <2>1. run' # NoRun
    BY <1>0 DEF NoRun
  <2>2. ~StartRun
    <3> SUFFICES ASSUME StartRun PROVE FALSE
      OBVIOUS
    <3>1. PICK pc \in {"backfill", "asked"} :
              run' = [NoRun EXCEPT !.pc = pc, !.base = checkpoint, !.since = Since(checkpoint),
                                   !.cursor = IF Resuming(checkpoint)
                                              THEN checkpoint.source.resync.cursor ELSE None]
      BY DEF StartRun
    <3>2. run'.pc = pc
      BY <3>1 DEF NoRun
    <3>3. QED
      BY <1>0, <3>2
  <2>3. ~RequestBackfill /\ ~BackfillFails
    BY <1>0 DEF RequestBackfill, BackfillFails, Runs
  <2>4. ~ReadPage
    BY <1>0 DEF ReadPage, Runs
  <2>5. QED
    BY <2>1, <2>2, <2>3, <2>4, RunSteps
<1>2. CASE pipe' = pipe
  BY <1>1, <1>2
<1>3. ASSUME pipe # <<>>, pipe' = Tail(pipe) PROVE \E j \in DOMAIN pipe : pipe[j] = pipe'[i]
  BY <1>0, <1>3, Removed
<1>4. ASSUME NEW kind \in {"data", "receipt", "deletion"}, NEW obs \in SUBSET Observations,
             pipe' = Append(pipe, [kind |-> kind, obs |-> obs])
      PROVE  \E j \in DOMAIN pipe : pipe[j] = pipe'[i]
  <2> DEFINE event == [kind |-> kind, obs |-> obs]
  <2>1. event \in Events /\ event.kind # "page"
    BY EventFacts
  <2>2. pipe' = Append(pipe, event)
    BY <1>4
  <2> HIDE DEF event
  <2>3. QED
    BY <1>0, <2>1, <2>2, Appended
<1>5. ASSUME NEW kind \in {"connected", "disconnected"}, pipe' = Append(pipe, [kind |-> kind])
      PROVE  \E j \in DOMAIN pipe : pipe[j] = pipe'[i]
  <2> DEFINE event == [kind |-> kind]
  <2>1. event \in Events /\ event.kind # "page"
    BY EventFacts
  <2>2. pipe' = Append(pipe, event)
    BY <1>5
  <2> HIDE DEF event
  <2>3. QED
    BY <1>0, <2>1, <2>2, Appended
<1>6. /\ handler # "idle" => Item.obs \in SUBSET Observations
      /\ historian.batch \in SUBSET Observations
  BY TypedFacts, ItemFacts DEF Typed, TypeOK
<1>7. CASE Handling
  <2>1. StoreObservation \/ StoreReceipt \/ DeleteCalls \/ pipe' = pipe
    BY <1>7 DEF Handling, HandleEvent, AnnounceHistory, Acknowledge, ReturnOffline
  <2>2. StoreObservation => \E j \in DOMAIN pipe : pipe[j] = pipe'[i]
    BY <1>4, <1>6 DEF StoreObservation, Stored
  <2>3. StoreReceipt => \E j \in DOMAIN pipe : pipe[j] = pipe'[i]
    BY <1>4, <1>6 DEF StoreReceipt, Stored
  <2>4. DeleteCalls => \E j \in DOMAIN pipe : pipe[j] = pipe'[i]
    BY <1>4, <1>6 DEF DeleteCalls, Stored
  <2>5. QED
    BY <1>1, <2>1, <2>2, <2>3, <2>4
<1>8. CASE Applying \/ DownloadFails
  <2>1. ApplyHistory \/ pipe' = pipe
    BY <1>8 DEF Applying, Wake, DownloadHistory, DownloadFails, RetryDownload,
                DeleteNotification
  <2>2. ApplyHistory => \E j \in DOMAIN pipe : pipe[j] = pipe'[i]
    BY <1>4, <1>6 DEF ApplyHistory
  <2>3. QED
    BY <1>1, <2>1, <2>2
<1>9. CASE Reading \/ IngestFails
  <2>1. ReadDisconnected \/ (pipe # <<>> /\ pipe' = Tail(pipe))
    BY <1>9 DEF Reading, Read, ReadConnected, Ingest, IngestReceipt, IngestDeletion, ReadPage,
                IngestFails
  <2>2. ASSUME ReadDisconnected PROVE FALSE
    <3>1. run.pc # "answered" \/ run' = NoRun
      BY <2>2 DEF ReadDisconnected, Requested
    <3>2. run' = run \/ run' = NoRun
      BY <2>2 DEF ReadDisconnected
    <3>3. QED
      BY <1>0, <3>1, <3>2 DEF NoRun
  <2>3. QED
    BY <1>1, <1>3, <2>1, <2>2
<1>10. CASE RequestBackfill \/ FinishRun \/ StartRun \/ BackfillFails
  BY <1>1, <1>2, <1>10 DEF RequestBackfill, AskThePhone, FinishRun, StartRun, BackfillFails
<1>11. CASE RequestTimeout \/ Exit \/ DaemonRestart
  <2>1. run' = NoRun \/ pipe' = <<>>
    BY <1>11 DEF RequestTimeout, Exit, DaemonRestart
  <2>2. QED
    BY <1>0, <2>1 DEF NoRun
<1>12. CASE Connect \/ Disconnect
  BY <1>1, <1>5, <1>12 DEF Connect, Disconnect, Connection
<1>13. CASE Tick \/ Spawn \/ UNCHANGED vars
  BY <1>1, <1>2, <1>13 DEF Tick, Spawn, vars
<1>14. QED
  BY <1>7, <1>8, <1>9, <1>10, <1>11, <1>12, <1>13 DEF Next, Syncing
LEMMA NowSteps == [Next]_vars => now' = now \/ Tick
<1> USE DEF Stored, Historian, Read, daemonOnly, AskThePhone, ProcessOnly, Connection
<1>1. Handling => now' = now
  BY DEF Handling, HandleEvent, StoreObservation, StoreReceipt, DeleteCalls, AnnounceHistory,
         Acknowledge, ReturnOffline
<1>2. Applying \/ DownloadFails => now' = now
  BY DEF Applying, Wake, DownloadHistory, DownloadFails, RetryDownload, ApplyHistory,
         DeleteNotification
<1>3. Reading \/ IngestFails => now' = now
  BY DEF Reading, ReadConnected, ReadDisconnected, Ingest, IngestReceipt, IngestDeletion,
         ReadPage, IngestFails
<1>4. Syncing \/ StartRun \/ BackfillFails \/ RequestTimeout => now' = now
  BY DEF Syncing, RequestBackfill, Answer, FinishRun, StartRun, BackfillFails, RequestTimeout
<1>5. Spawn \/ Connect \/ Disconnect \/ Exit \/ DaemonRestart \/ UNCHANGED vars => now' = now
  BY DEF Spawn, Connect, Disconnect, Exit, DaemonRestart, vars
<1>6. QED
  BY <1>1, <1>2, <1>3, <1>4, <1>5 DEF Next

(* The parts of Snapshots. *)
RowsAreOld == \A e \in Entries : cache[e] # None => cache[e].at \in 1..now

CheckpointIsOld ==
    checkpoint.source # None =>
        IF checkpoint.source.resync = None
        THEN checkpoint.source.last # None /\ checkpoint.source.last <= taken
        ELSE /\ checkpoint.source.resync.since <= taken
             /\ checkpoint.source.resync.cursor.snapshot <= taken

RunIsOld ==
    /\ run.since <= taken /\ run.snapshot <= taken
    /\ run.cursor # None => run.cursor.snapshot <= taken

PagesAreOld ==
    \A i \in DOMAIN pipe : pipe[i].kind = "page" =>
        /\ pipe[i].snapshot <= taken
        /\ pipe[i].next # None => pipe[i].next.snapshot = pipe[i].snapshot

LEMMA SnapshotParts == Snapshots <=> RowsAreOld /\ CheckpointIsOld /\ RunIsOld /\ PagesAreOld
BY DEF Snapshots, RowsAreOld, CheckpointIsOld, RunIsOld, PagesAreOld

LEMMA Numbers ==
    ASSUME Typed
    PROVE  /\ now \in Nat /\ taken \in Nat
           /\ run.since \in Nat /\ run.snapshot \in Nat
           /\ run.cursor # None => run.cursor \in Cursor /\ run.cursor.snapshot \in Nat
           /\ checkpoint.source # None =>
                 /\ checkpoint.source.last # None => checkpoint.source.last \in Nat
                 /\ checkpoint.source.resync # None =>
                       /\ checkpoint.source.resync.since \in Nat
                       /\ checkpoint.source.resync.cursor \in Cursor
                       /\ checkpoint.source.resync.cursor.snapshot \in Nat
           /\ \A e \in Entries : cache[e] # None => cache[e].at \in Nat
           /\ \A i \in DOMAIN pipe : pipe[i].kind = "page" =>
                 /\ pipe[i].snapshot \in Nat
                 /\ pipe[i].next # None => pipe[i].next \in Cursor
<1>1. now \in Nat /\ taken \in Nat
  BY TypedFacts DEF Typed, TypeOK
<1>2. /\ run.since \in Nat /\ run.snapshot \in Nat
      /\ run.cursor # None => run.cursor \in Cursor /\ run.cursor.snapshot \in Nat
  BY RunTyped DEF Runs, Cursor
<1>3. checkpoint.source # None =>
          /\ checkpoint.source.last # None => checkpoint.source.last \in Nat
          /\ checkpoint.source.resync # None => checkpoint.source.resync \in Resyncs
  BY DEF Typed, TypeOK, Checkpoints, SourceCursors
<1>4. \A resync \in Resyncs : /\ resync.since \in Nat /\ resync.cursor \in Cursor
                              /\ resync.cursor.snapshot \in Nat
  BY DEF Resyncs, Cursor
<1>5. \A e \in Entries : cache[e] # None => cache[e].at \in Nat
  BY TypedFacts, RowFacts DEF RowsOf
<1>6. \A i \in DOMAIN pipe : pipe[i] \in Events
  BY LenProperties, ElementOfSeq DEF Typed, TypeOK
<1>7. \A i \in DOMAIN pipe : pipe[i].kind = "page" =>
          /\ pipe[i].snapshot \in Nat
          /\ pipe[i].next # None => pipe[i].next \in Cursor
  BY <1>6, EventFacts
<1>8. QED
  BY <1>1, <1>2, <1>3, <1>4, <1>5, <1>7

LEMMA TakenGrows == Typed /\ [Next]_vars => taken <= taken'
<1> SUFFICES ASSUME Typed, [Next]_vars PROVE taken <= taken'
  OBVIOUS
<1>1. taken \in Nat
  BY Numbers
<1>2. CASE Answer
  BY <1>1, <1>2, AnswerFacts DEF Cursor
<1>3. QED
  BY <1>1, <1>2, TakenSteps

LEMMA RowsOldStep == Typed /\ RowsAreOld /\ [Next]_vars => RowsAreOld'
<1> SUFFICES ASSUME Typed, RowsAreOld, [Next]_vars, NEW e \in Entries, cache'[e] # None
             PROVE  cache'[e].at \in 1..now'
  BY DEF RowsAreOld
<1>1. now \in Nat /\ now > 0 /\ (now' = now \/ now' = now + 1)
  BY NowSteps, TypedFacts DEF Tick
<1>2. cache'[e] = cache[e] \/ cache'[e].at = now
  BY CacheSteps, StampedRows
<1>3. CASE cache'[e] = cache[e]
  <2>1. cache[e].at \in 1..now
    BY <1>3 DEF RowsAreOld
  <2>2. QED
    BY <1>1, <1>3, <2>1
<1>4. CASE cache'[e].at = now
  BY <1>1, <1>4
<1>5. QED
  BY <1>2, <1>3, <1>4

LEMMA CheckpointOldStep ==
    Typed /\ CheckpointIsOld /\ RunIsOld /\ [Next]_vars => CheckpointIsOld'
<1> SUFFICES ASSUME Typed, CheckpointIsOld, RunIsOld, [Next]_vars PROVE CheckpointIsOld'
  OBVIOUS
<1>1. CASE checkpoint'.source = checkpoint.source
  <2>1. Typed' /\ taken <= taken' /\ taken \in Nat /\ taken' \in Nat
    BY TypedStep, TakenGrows DEF Typed, TypeOK
  <2>2. checkpoint.source # None =>
            /\ checkpoint.source.last # None => checkpoint.source.last \in Nat
            /\ checkpoint.source.resync # None =>
                  /\ checkpoint.source.resync.since \in Nat
                  /\ checkpoint.source.resync.cursor.snapshot \in Nat
    BY Numbers
  <2>3. QED
    BY <1>1, <2>1, <2>2 DEF CheckpointIsOld
<1>2. CASE FinishRun
  <2> DEFINE hasMore == run.cursor # None
             source == First(run.base.source, NoSource)
             last == IF hasMore THEN First(source.last, run.base.success) ELSE run.snapshot
             resync == IF hasMore THEN [cursor |-> run.cursor, since |-> run.since] ELSE None
  <2>1. /\ checkpoint'.source = [last |-> last, requested |-> source.requested,
                                 resync |-> resync]
        /\ taken' = taken
    BY <1>2 DEF FinishRun
  <2>2. hasMore => resync # None /\ resync.since <= taken /\ resync.cursor.snapshot <= taken
    <3>1. hasMore => resync \in Resyncs
      BY RunTyped DEF Runs, Resyncs
    <3>2. QED
      BY <3>1, HelperAssumption DEF RunIsOld
  <2>3. ~hasMore => resync = None /\ last = run.snapshot /\ last # None /\ last <= taken
    BY Numbers, NoneAssumption DEF RunIsOld
  <2> HIDE DEF last, resync, hasMore
  <2>4. QED
    BY <2>1, <2>2, <2>3 DEF CheckpointIsOld
<1>3. QED
  BY <1>1, <1>2, CheckpointSteps

LEMMA StartedRun ==
    ASSUME Typed, CheckpointIsOld, StartRun
    PROVE  /\ run'.pc \in {"backfill", "asked"} /\ run'.base = checkpoint /\ run'.snapshot = 0
           /\ IF checkpoint.source = None THEN run'.since = 0 /\ run'.cursor = None
              ELSE IF checkpoint.source.resync = None
              THEN run'.since = checkpoint.source.last /\ run'.cursor = None
              ELSE /\ run'.since = checkpoint.source.resync.since
                   /\ run'.cursor = checkpoint.source.resync.cursor
           /\ pipe' = pipe /\ checkpoint' = checkpoint /\ cache' = cache /\ late' = late
           /\ stored' = stored /\ taken' = taken
<1>1. PICK pc \in {"backfill", "asked"} :
          run' = [NoRun EXCEPT !.pc = pc, !.base = checkpoint, !.since = Since(checkpoint),
                               !.cursor = IF Resuming(checkpoint)
                                          THEN checkpoint.source.resync.cursor ELSE None]
  BY DEF StartRun
<1> DEFINE cursor == IF Resuming(checkpoint) THEN checkpoint.source.resync.cursor ELSE None
           since == Since(checkpoint)
<1>2. run' = [NoRun EXCEPT !.pc = pc, !.base = checkpoint, !.since = since, !.cursor = cursor]
  BY <1>1
<1>3. cursor = IF checkpoint.source = None \/ checkpoint.source.resync = None
               THEN None ELSE checkpoint.source.resync.cursor
  BY DEF Resuming
<1>4. since = IF checkpoint.source = None THEN 0
              ELSE IF checkpoint.source.resync = None THEN checkpoint.source.last
              ELSE checkpoint.source.resync.since
  BY DEF Since, CheckpointIsOld
<1> HIDE DEF cursor, since
<1>5. run'.pc = pc /\ run'.base = checkpoint /\ run'.since = since /\ run'.cursor = cursor
      /\ run'.snapshot = 0
  BY <1>2 DEF NoRun
<1>6. /\ pipe' = pipe /\ checkpoint' = checkpoint /\ cache' = cache /\ late' = late
      /\ stored' = stored /\ taken' = taken
  BY DEF StartRun, daemonOnly, cacheVars
<1>7. QED
  BY <1>3, <1>4, <1>5, <1>6

LEMMA AskedRun ==
    ASSUME Typed, RequestBackfill \/ BackfillFails
    PROVE  /\ run.pc = "backfill" /\ run'.pc = "asked" /\ run'.since = run.since
           /\ run'.snapshot = run.snapshot /\ run'.cursor = run.cursor
BY RunTyped DEF Runs, RequestBackfill, BackfillFails, AskThePhone

LEMMA AnsweredRun ==
    ASSUME Typed, Answer
    PROVE  /\ run.pc = "asked" /\ run'.pc = "answered" /\ run'.since = run.since
           /\ run'.snapshot = run.snapshot /\ run'.cursor = run.cursor
BY RunTyped DEF Runs, Answer

LEMMA ReadRun ==
    ASSUME Typed, ReadPage
    PROVE  /\ run'.since = run.since /\ run'.snapshot = Head(pipe).snapshot
           /\ run'.cursor = Head(pipe).next
           /\ run'.pc \in {"asked", "done"} /\ (run'.pc = "asked" => run'.cursor # None)
           /\ stored' = Inserted(Head(pipe).obs)
           /\ pipe # <<>> /\ 1 \in DOMAIN pipe /\ pipe[1] = Head(pipe) /\ pipe[1].kind = "page"
<1>1. pipe # <<>> /\ Head(pipe).kind = "page" /\ stored' = Inserted(Head(pipe).obs)
  BY DEF ReadPage, Read
<1>2. 1 \in DOMAIN pipe /\ pipe[1] = Head(pipe)
  BY <1>1, PageRead
<1> DEFINE page == Head(pipe)
           pc == IF page.next # None /\ run.pages + 1 < PageBudget THEN "asked" ELSE "done"
           pages == run.pages + 1
<1>3. run' = [run EXCEPT !.pc = pc, !.cursor = page.next, !.snapshot = page.snapshot,
                         !.pages = pages]
  BY DEF ReadPage
<1>4. pc \in {"asked", "done"} /\ (pc = "asked" => page.next # None)
  OBVIOUS
<1> HIDE DEF pc, pages
<1>5. QED
  BY <1>1, <1>2, <1>3, <1>4, RunTyped DEF Runs

LEMMA RunOldStep ==
    Typed /\ CheckpointIsOld /\ RunIsOld /\ PagesAreOld /\ [Next]_vars => RunIsOld'
<1> SUFFICES ASSUME Typed, CheckpointIsOld, RunIsOld, PagesAreOld, [Next]_vars PROVE RunIsOld'
  OBVIOUS
<1>0. Typed' /\ taken <= taken' /\ taken \in Nat /\ taken' \in Nat
  BY TypedStep, TakenGrows DEF Typed, TypeOK
<1>1. CASE run'.since = run.since /\ run'.snapshot = run.snapshot /\ run'.cursor = run.cursor
  <2>1. run.since \in Nat /\ run.snapshot \in Nat /\ (run.cursor # None => run.cursor.snapshot \in Nat)
    BY Numbers
  <2>2. QED
    BY <1>0, <1>1, <2>1 DEF RunIsOld
<1>2. CASE run' = NoRun
  BY <1>0, <1>2 DEF NoRun, RunIsOld
<1>3. CASE StartRun
  <2>1. taken' = taken /\ run'.snapshot = 0
    BY <1>3, StartedRun
  <2>2. run'.since <= taken
    BY <1>0, <1>3, StartedRun DEF CheckpointIsOld
  <2>3. run'.cursor # None => run'.cursor.snapshot <= taken
    BY <1>3, StartedRun DEF CheckpointIsOld
  <2>4. QED
    BY <1>0, <2>1, <2>2, <2>3 DEF RunIsOld
<1>4. CASE ReadPage
  <2>1. /\ run'.since = run.since /\ run'.snapshot = pipe[1].snapshot
        /\ run'.cursor = pipe[1].next /\ 1 \in DOMAIN pipe /\ pipe[1].kind = "page"
    BY <1>4, ReadRun
  <2>2. pipe[1].snapshot <= taken /\ (pipe[1].next # None => pipe[1].next.snapshot = pipe[1].snapshot)
    BY <2>1 DEF PagesAreOld
  <2>3. taken' = taken
    BY <1>4 DEF ReadPage, Read
  <2>4. QED
    BY <2>1, <2>2, <2>3 DEF RunIsOld
<1>5. QED
  BY <1>1, <1>2, <1>3, <1>4, RunSteps, AskedRun, AnsweredRun

(* The page that is answered. *)
LEMMA AnsweredPage ==
    ASSUME Typed, Answer, NEW i \in DOMAIN pipe', pipe'[i].kind = "page"
    PROVE  Complete(pipe'[i], cache, run.since, AnsweredFrom)
<1>1. PICK page \in Pages : /\ pipe' = Append(pipe, page)
                            /\ Complete(page, cache, run.since, AnsweredFrom)
  BY AnswerFacts
<1>2. pipe \in Seq(Events) /\ page \in Events
  BY DEF Typed, TypeOK, Events
<1>3. \A j \in DOMAIN pipe : pipe[j].kind # "page"
  BY AnsweredRun DEF Typed, OnePage
<1>4. (i \in DOMAIN pipe /\ pipe'[i] = pipe[i]) \/ pipe'[i] = page
  BY <1>1, <1>2, Appended
<1>5. QED
  BY <1>1, <1>3, <1>4

LEMMA PagesOldStep == Typed /\ PagesAreOld /\ [Next]_vars => PagesAreOld'
<1> SUFFICES ASSUME Typed, PagesAreOld, [Next]_vars, NEW i \in DOMAIN pipe',
                    pipe'[i].kind = "page"
             PROVE  /\ pipe'[i].snapshot <= taken'
                    /\ pipe'[i].next # None => pipe'[i].next.snapshot = pipe'[i].snapshot
  BY DEF PagesAreOld
<1>0. taken <= taken' /\ taken \in Nat /\ taken' \in Nat /\ pipe'[i].snapshot \in Nat
  <2>1. Typed'
    BY TypedStep
  <2>2. pipe'[i].snapshot \in Nat
    <3>1. pipe' \in Seq(Events)
      BY <2>1 DEF Typed, TypeOK
    <3>2. pipe'[i] \in Events
      BY <3>1, LenProperties, ElementOfSeq
    <3>3. QED
      BY <3>2, EventFacts
  <2>3. QED
    BY <2>1, <2>2, TakenGrows DEF Typed, TypeOK
<1>1. CASE Answer
  <2>1. /\ pipe'[i].snapshot = AnsweredFrom.snapshot
        /\ pipe'[i].next # None => pipe'[i].next.snapshot = AnsweredFrom.snapshot
    BY <1>1, AnsweredPage DEF Complete
  <2>2. AnsweredFrom.snapshot <= taken'
    BY <1>0, <1>1, AnswerFacts DEF Cursor
  <2>3. QED
    BY <2>1, <2>2
<1>2. CASE ~Answer
  <2>1. PICK j \in DOMAIN pipe : pipe[j] = pipe'[i]
    BY <1>2, PageSteps
  <2>2. /\ pipe[j].snapshot <= taken
        /\ pipe[j].next # None => pipe[j].next.snapshot = pipe[j].snapshot
    BY <2>1 DEF PagesAreOld
  <2>3. QED
    BY <1>0, <2>1, <2>2
<1>3. QED
  BY <1>1, <1>2

LEMMA SnapshotsStep == Typed /\ Snapshots /\ [Next]_vars => Snapshots'
<1>1. Typed /\ Snapshots /\ [Next]_vars =>
          RowsAreOld' /\ CheckpointIsOld' /\ RunIsOld' /\ PagesAreOld'
  BY RowsOldStep, CheckpointOldStep, RunOldStep, PagesOldStep, SnapshotParts
<1>2. RowsAreOld' /\ CheckpointIsOld' /\ RunIsOld' /\ PagesAreOld' => Snapshots'
  BY DEF Snapshots, RowsAreOld, CheckpointIsOld, RunIsOld, PagesAreOld
<1>3. QED
  BY <1>1, <1>2
LEMMA RunHoldsStep ==
    Typed /\ Snapshots /\ RunHolds /\ PagesHold /\ NothingIsSkipped /\ [Next]_vars => RunHolds'
<1> SUFFICES ASSUME Typed, Snapshots, RunHolds, PagesHold, NothingIsSkipped, [Next]_vars,
                    NEW e \in Entries, Unseen(e)'
             PROVE  /\ run'.pc \in {"backfill", "asked"} =>
                           IF run'.cursor = None THEN cache'[e].at > run'.since
                           ELSE Ahead(e, run.since, run.cursor)'
                    /\ run'.pc = "done" =>
                           IF run'.cursor = None THEN cache'[e].at > run'.snapshot
                           ELSE Ahead(e, run.since, run.cursor)'
  BY DEF RunHolds
<1>0. RunIsOld /\ CheckpointIsOld /\ RowsAreOld
  BY SnapshotParts
<1>1. \/ Unseen(e) /\ cache'[e] = cache[e]
      \/ cache'[e].at > taken /\ run' = run
  BY UnseenSteps
<1>2. /\ taken \in Nat /\ run.since \in Nat /\ run.snapshot \in Nat
      /\ run.cursor # None => run.cursor.snapshot \in Nat
  BY Numbers
<1>3. cache'[e] # None /\ cache'[e].at \in Nat
  <2>1. Typed'
    BY TypedStep
  <2>2. cache'[e] \in Rows /\ cache'[e] # None
    BY <2>1 DEF Typed, TypeOK, Unseen
  <2>3. QED
    BY <2>2, RowFacts
<1>4. CASE cache'[e].at > taken /\ run' = run
  <2>1. cache'[e].at > run.since /\ cache'[e].at > run.snapshot
        /\ (run.cursor # None => cache'[e].at > run.cursor.snapshot)
    BY <1>0, <1>2, <1>3, <1>4 DEF RunIsOld
  <2>2. QED
    BY <1>4, <2>1 DEF Ahead
<1>5. CASE Unseen(e) /\ cache'[e] = cache[e] /\ run' = run
  BY <1>5 DEF RunHolds, Ahead
<1>6. CASE run' = NoRun
  BY <1>6 DEF NoRun
<1>7. CASE Unseen(e) /\ cache'[e] = cache[e] /\ StartRun
  <2>1. Owed(e)
    BY <1>7 DEF NothingIsSkipped
  <2>2. cache[e].at \in 1..now
    BY <1>0, <1>7 DEF RowsAreOld, Unseen
  <2>3. run'.pc \in {"backfill", "asked"}
    BY <1>0, <1>7, StartedRun
  <2>4. CASE checkpoint.source = None
    <3>1. run'.since = 0 /\ run'.cursor = None
      BY <1>0, <1>7, <2>4, StartedRun
    <3>2. QED
      BY <1>7, <2>2, <2>3, <3>1
  <2>5. CASE checkpoint.source # None /\ checkpoint.source.resync = None
    <3>1. run'.since = checkpoint.source.last /\ run'.cursor = None
      BY <1>0, <1>7, <2>5, StartedRun
    <3>2. checkpoint.source.last # None
      BY <1>0, <2>5 DEF CheckpointIsOld
    <3>3. cache[e].at > checkpoint.source.last
      BY <2>1, <2>5, <3>2 DEF Owed
    <3>4. QED
      BY <1>7, <2>3, <3>1, <3>3
  <2>6. CASE checkpoint.source # None /\ checkpoint.source.resync # None
    <3>1. /\ run'.since = checkpoint.source.resync.since
          /\ run'.cursor = checkpoint.source.resync.cursor
      BY <1>0, <1>7, <2>6, StartedRun
    <3>2. checkpoint.source.resync.cursor # None
      BY <2>6, Numbers, NoneAssumption
    <3>3. Ahead(e, run.since, run.cursor)'
      BY <1>7, <2>1, <2>6, <3>1 DEF Owed, Ahead
    <3>4. QED
      BY <2>3, <3>1, <3>2, <3>3
  <2>7. QED
    BY <2>4, <2>5, <2>6
<1>8. CASE Unseen(e) /\ cache'[e] = cache[e] /\ (RequestBackfill \/ BackfillFails)
  BY <1>8, AskedRun DEF RunHolds, Ahead
<1>9. CASE Answer
  BY <1>9, AnsweredRun
<1>10. CASE Unseen(e) /\ cache'[e] = cache[e] /\ ReadPage
  <2> DEFINE page == Head(pipe)
  <2>1. /\ run'.since = run.since /\ run'.snapshot = page.snapshot /\ run'.cursor = page.next
        /\ run'.pc = "asked" => run'.cursor # None
        /\ run'.pc \in {"asked", "done"}
        /\ stored' = Inserted(page.obs) /\ 1 \in DOMAIN pipe /\ pipe[1] = page
        /\ pipe[1].kind = "page"
    BY <1>10, ReadRun
  <2>2. Brings(page, e)
    BY <1>10, <2>1 DEF PagesHold
  <2>3. page.next # None => page.next.snapshot = page.snapshot
    BY <2>1 DEF Snapshots
  <2>4. ~\E o \in page.obs : o.of = e
    BY <2>1, InsertedType DEF Unseen
  <2>5. \/ cache[e].at > page.snapshot
        \/ page.next # None /\ cache[e].at > run.since /\ Beyond(e, page.next)
    BY <2>2, <2>4 DEF Brings
  <2> HIDE DEF page
  <2>6. CASE page.next = None
    BY <1>10, <2>1, <2>5, <2>6
  <2>7. CASE page.next # None
    <3>1. Ahead(e, run.since, run.cursor)'
      BY <1>10, <2>1, <2>3, <2>5, <2>7 DEF Ahead
    <3>2. QED
      BY <2>1, <2>7, <3>1
  <2>8. QED
    BY <2>6, <2>7
<1>11. (run' = run /\ (cache'[e].at > taken \/ (Unseen(e) /\ cache'[e] = cache[e])))
       \/ (Unseen(e) /\ cache'[e] = cache[e])
  BY <1>1
<1>12. QED
  BY <1>4, <1>5, <1>6, <1>7, <1>8, <1>9, <1>10, <1>11, RunSteps

LEMMA PagesHoldStep ==
    Typed /\ Snapshots /\ RunHolds /\ PagesHold /\ [Next]_vars => PagesHold'
<1> SUFFICES ASSUME Typed, Snapshots, RunHolds, PagesHold, [Next]_vars,
                    NEW i \in DOMAIN pipe', pipe'[i].kind = "page",
                    NEW e \in Entries, Unseen(e)'
             PROVE  Brings(pipe[i], e)'
  BY DEF PagesHold
<1> DEFINE page == pipe'[i]
<1>1. CASE Answer
  <2>1. Complete(page, cache, run.since, AnsweredFrom) /\ AnsweredFrom \in Cursor
    BY <1>1, AnsweredPage, AnswerFacts
  <2>2. /\ run.pc = "asked" /\ run'.since = run.since
        /\ cache' = cache /\ late' = late /\ stored' = stored
    BY <1>1, AnsweredRun DEF Answer, daemonOnly, cacheVars
  <2>3. Unseen(e) /\ cache[e] # None
    BY <2>2 DEF Unseen
  <2>4. /\ cache[e].at \in 1..now /\ now \in Nat /\ run.since \in Nat
        /\ AnsweredFrom.snapshot \in Nat /\ cache[e].at \in Nat
    BY <2>1, <2>3, Numbers DEF Snapshots, Cursor
  <2>5. \/ cache[e].at > AnsweredFrom.snapshot
        \/ cache[e].at > run.since /\ Beyond(e, AnsweredFrom)
    <3>1. CASE run.cursor = None
      <4>1. cache[e].at > run.since
        BY <2>2, <2>3, <3>1 DEF RunHolds
      <4>2. Beyond(e, FirstCursor(now))
        BY EntryFacts DEF Beyond, FirstCursor, Entries
      <4>3. QED
        BY <3>1, <4>1, <4>2 DEF AnsweredFrom
    <3>2. CASE run.cursor # None
      BY <2>2, <2>3, <3>2 DEF RunHolds, Ahead, AnsweredFrom
    <3>3. QED
      BY <3>1, <3>2
  <2>6. CASE cache[e].at > AnsweredFrom.snapshot
    BY <2>1, <2>2, <2>6 DEF Complete, Brings
  <2>7. CASE ~(cache[e].at > AnsweredFrom.snapshot)
    <3>1. InWindow(cache[e], run.since, AnsweredFrom.snapshot) /\ Beyond(e, AnsweredFrom)
      BY <2>3, <2>4, <2>5, <2>7 DEF InWindow
    <3>2. \/ \E o \in page.obs : o.of = e
          \/ page.next # None /\ Beyond(e, page.next)
      BY <2>1, <3>1 DEF Complete
    <3>3. cache[e].at > run.since
      BY <2>5, <2>7
    <3>4. QED
      BY <2>2, <3>2, <3>3 DEF Brings
  <2>8. QED
    BY <2>6, <2>7
<1>2. CASE ~Answer
  <2>1. run' = run
    BY <1>2, PageSteps
  <2>2. PICK j \in DOMAIN pipe : pipe[j] = page
    BY <1>2, PageSteps
  <2>3. CASE Unseen(e) /\ cache'[e] = cache[e]
    <3>1. Brings(page, e)
      BY <2>2, <2>3 DEF PagesHold
    <3>2. QED
      BY <2>1, <2>3, <3>1 DEF Brings
  <2>4. CASE cache'[e].at > taken
    <3>1. page.snapshot <= taken /\ page.snapshot \in Nat /\ taken \in Nat
      BY <2>2, Numbers DEF Snapshots
    <3>2. cache'[e].at \in Nat
      <4>1. cache'[e] \in Rows /\ cache'[e] # None
        BY TypedStep DEF Typed, TypeOK, Unseen
      <4>2. QED
        BY <4>1, RowFacts
    <3>3. QED
      BY <2>4, <3>1, <3>2 DEF Brings
  <2>5. QED
    BY <2>3, <2>4, UnseenSteps
<1>3. QED
  BY <1>1, <1>2

LEMMA SkippedStep ==
    Typed /\ Snapshots /\ RunHolds /\ NothingIsSkipped /\ [Next]_vars => NothingIsSkipped'
<1> SUFFICES ASSUME Typed, Snapshots, RunHolds, NothingIsSkipped, [Next]_vars,
                    NEW e \in Entries, Unseen(e)'
             PROVE  Owed(e)'
  BY DEF NothingIsSkipped
<1>1. CASE FinishRun
  <2> DEFINE hasMore == run.cursor # None
             source == First(run.base.source, NoSource)
             last == IF hasMore THEN First(source.last, run.base.success) ELSE run.snapshot
             resync == IF hasMore THEN [cursor |-> run.cursor, since |-> run.since] ELSE None
             next == [last |-> last, requested |-> source.requested, resync |-> resync]
  <2>1. /\ checkpoint'.source = next /\ run.pc = "done"
        /\ cache' = cache /\ late' = late /\ stored' = stored
    BY <1>1 DEF FinishRun, daemonOnly, cacheVars
  <2>2. Unseen(e)
    BY <2>1 DEF Unseen
  <2>3. next # None
    <3>1. Typed'
      BY TypedStep
    <3>2. checkpoint' \in Checkpoints
      BY <3>1 DEF Typed, TypeOK
    <3>3. source \in SourceCursors /\ run.base \in Checkpoints
      BY <2>1, CheckpointFacts DEF Typed
    <3>4. resync \in Resyncs \cup {None}
      BY RunTyped DEF Runs, Resyncs
    <3>5. last \in Nat \cup {None}
      <4> HIDE DEF source
      <4>1. QED
        BY <3>3, RunTyped DEF First, SourceCursors, Checkpoints, Runs
    <3> HIDE DEF source, last, resync
    <3>6. next \in SourceCursors
      BY <3>3, <3>4, <3>5 DEF SourceCursors
    <3>7. QED
      BY <3>6, HelperAssumption
  <2>4. CASE hasMore
    <3>1. resync = [cursor |-> run.cursor, since |-> run.since] /\ resync \in Resyncs
      BY <2>4, RunTyped DEF Runs, Resyncs
    <3>2. resync # None /\ resync.cursor = run.cursor /\ resync.since = run.since
      BY <3>1, HelperAssumption
    <3>3. Ahead(e, run.since, run.cursor)
      BY <2>1, <2>2, <2>4 DEF RunHolds
    <3> HIDE DEF resync, last
    <3>4. QED
      BY <2>1, <2>3, <3>2, <3>3 DEF Owed, Ahead
  <2>5. CASE ~hasMore
    <3>1. resync = None /\ last = run.snapshot
      BY <2>5
    <3>2. cache[e].at > run.snapshot
      BY <2>1, <2>2, <2>5 DEF RunHolds
    <3> HIDE DEF resync, last
    <3>3. QED
      BY <2>1, <2>3, <3>1, <3>2 DEF Owed
  <2>6. QED
    BY <2>4, <2>5
<1>2. CASE checkpoint'.source = checkpoint.source /\ Unseen(e) /\ cache'[e] = cache[e]
  BY <1>2 DEF NothingIsSkipped, Owed
<1>3. CASE checkpoint'.source = checkpoint.source /\ cache'[e].at > taken
  <2>1. cache'[e].at \in Nat /\ taken \in Nat
    <3>1. cache'[e] \in Rows /\ cache'[e] # None
      BY TypedStep DEF Typed, TypeOK, Unseen
    <3>2. QED
      BY <3>1, RowFacts, Numbers
  <2>2. CASE checkpoint.source = None
    BY <1>3, <2>2 DEF Owed
  <2>3. CASE checkpoint.source # None /\ checkpoint.source.resync = None
    <3>1. checkpoint.source.last # None /\ checkpoint.source.last <= taken
          /\ checkpoint.source.last \in Nat
      BY <2>3, Numbers DEF Snapshots
    <3>2. QED
      BY <1>3, <2>1, <2>3, <3>1 DEF Owed
  <2>4. CASE checkpoint.source # None /\ checkpoint.source.resync # None
    <3>1. checkpoint.source.resync.cursor.snapshot <= taken
          /\ checkpoint.source.resync.cursor.snapshot \in Nat
      BY <2>4, Numbers DEF Snapshots
    <3>2. QED
      BY <1>3, <2>1, <2>4, <3>1 DEF Owed
  <2>5. QED
    BY <2>2, <2>3, <2>4
<1>4. QED
  BY <1>1, <1>2, <1>3, CheckpointSteps, UnseenSteps

(* What the daemon has not heard of, a resync is still to bring: whatever  *)
(* became of the events, of a page or of a run, and wherever the budget of *)
(* pages ended one.                                                        *)
THEOREM NothingSkipped == Spec => []NothingIsSkipped
<1> DEFINE Holds == Typed /\ Snapshots /\ RunHolds /\ PagesHold /\ NothingIsSkipped
<1>1. Init => Holds
  <2>1. Init => Snapshots /\ RunHolds /\ PagesHold /\ NothingIsSkipped
    BY DEF Init, NoRun, Snapshots, RunHolds, PagesHold, NothingIsSkipped, Unseen
  <2>2. QED
    BY <2>1, TypedInit
<1>2. Holds /\ [Next]_vars => Holds'
  BY TypedStep, SnapshotsStep, RunHoldsStep, PagesHoldStep, SkippedStep
<1>3. QED
  BY <1>1, <1>2, PTL DEF Spec
=============================================================================
