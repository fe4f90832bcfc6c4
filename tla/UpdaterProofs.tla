---------------------------- MODULE UpdaterProofs ----------------------------
(***************************************************************************)
(* Proofs about Updater, for any releases in any order, any channels and   *)
(* any number of installs and of stops of the machine.                     *)
(*                                                                         *)
(* The order of versions comes first: without its transitivity a database  *)
(* that fits one bundle need not fit the next.  Then what an update has in *)
(* hand at each of its steps: which bundle is installed and which is kept  *)
(* (BundlesInHand), which databases these understand (Fits), and whose     *)
(* rows are in the copy of the database (RowsKept).                        *)
(***************************************************************************)
EXTENDS Updater, FiniteSetTheorems, SequenceTheorems, TLAPS

-----------------------------------------------------------------------------
(* A finite set has a least element under any strict order. *)
LEMMA LeastElement ==
    ASSUME NEW S, IsFiniteSet(S), S # {}, NEW R,
           \A x \in S : <<x, x>> \notin R,
           \A x, y, z \in S : <<x, y>> \in R /\ <<y, z>> \in R => <<x, z>> \in R
    PROVE  \E m \in S : \A k \in S : <<k, m>> \notin R
<1> DEFINE Below(x) == {y \in S : <<y, x>> \in R}
           T == {Below(x) : x \in S}
<1>0. /\ \A x, y \in S : y \in Below(x) <=> <<y, x>> \in R
      /\ \A x \in S : Below(x) \in SUBSET S
  OBVIOUS
<1> HIDE DEF Below
<1>1. IsWellFoundedOn(StrictSubsetOrdering(S), FiniteSubsetsOf(S))
  BY FS_StrictSubsetOrderingWellFounded
<1>2. T \subseteq FiniteSubsetsOf(S) /\ T # {}
  <2>1. FiniteSubsetsOf(S) = SUBSET S
    BY FS_FiniteSubsetsOfFinite
  <2>2. T \subseteq SUBSET S /\ T # {}
    BY <1>0
  <2>3. QED
    BY <2>1, <2>2
<1>3. \E x \in T : \A y \in T : ~(<<y, x>> \in StrictSubsetOrdering(S))
  BY <1>1, <1>2, WFMin
<1>4. PICK m \in S : \A y \in T : ~(<<y, Below(m)>> \in StrictSubsetOrdering(S))
  BY <1>3
<1>5. ASSUME NEW k \in S, <<k, m>> \in R PROVE FALSE
  <2>1. Below(k) \subseteq Below(m) /\ k \in Below(m) /\ k \notin Below(k)
    BY <1>0, <1>5
  <2>2. Below(k) # Below(m) /\ Below(k) \in SUBSET S /\ Below(m) \in SUBSET S
    BY <1>0, <2>1
  <2>3. <<Below(k), Below(m)>> \in StrictSubsetOrdering(S)
    BY <2>1, <2>2 DEF StrictSubsetOrdering
  <2>4. Below(k) \in T
    OBVIOUS
  <2>5. QED
    BY <1>4, <2>3, <2>4
<1>6. QED
  BY <1>5

-----------------------------------------------------------------------------
(* Versions.  CompareIdentifiers is the difference of two numbers.         *)
LEMMA IdentifiersCompare ==
    ASSUME NEW a \in Identifier, NEW b \in Identifier, NEW c \in Identifier
    PROVE  /\ CompareIdentifiers(a, b) \in Int
           /\ CompareIdentifiers(a, b) = 0 <=> a = b
           /\ CompareIdentifiers(a, b) > 0 <=> CompareIdentifiers(b, a) < 0
           /\ CompareIdentifiers(a, b) < 0 /\ CompareIdentifiers(b, c) < 0
                => CompareIdentifiers(a, c) < 0
<1>1. /\ a = [number |-> a.number, at |-> a.at] /\ a.number \in BOOLEAN /\ a.at \in Nat
      /\ b = [number |-> b.number, at |-> b.at] /\ b.number \in BOOLEAN /\ b.at \in Nat
      /\ c.number \in BOOLEAN /\ c.at \in Nat
  BY DEF Identifier
<1>2. a.number = b.number /\ a.at = b.at => a = b
  BY <1>1
<1>3. QED
  BY <1>1, <1>2 DEF CompareIdentifiers

(* l comes before r: they agree up to a place where l has ended or has the *)
(* lesser identifier.                                                      *)
BeforeAt(l, r, i) ==
    /\ \A j \in 1..(i - 1) : j <= Len(l) /\ j <= Len(r) /\ l[j] = r[j]
    /\ i <= Len(r)
    /\ i <= Len(l) => CompareIdentifiers(l[i], r[i]) < 0

Before(l, r) == \E i \in Nat \ {0} : BeforeAt(l, r, i)

Differ(left, right) ==
    LET longer == IF Len(left) > Len(right) THEN Len(left) ELSE Len(right)
    IN  {i \in 1..longer : \/ i > Len(left) \/ i > Len(right)
                           \/ CompareIdentifiers(left[i], right[i]) # 0}


(* Lists that differ do so in a first place. *)
LEMMA FirstDifference ==
    ASSUME NEW l \in Seq(Identifier), NEW r \in Seq(Identifier), Differ(l, r) # {}
    PROVE  /\ (CHOOSE k \in Differ(l, r) : \A j \in Differ(l, r) : k <= j) \in Differ(l, r)
           /\ \A j \in Differ(l, r) : (CHOOSE k \in Differ(l, r) :
                                         \A i \in Differ(l, r) : k <= i) <= j
<1> DEFINE n == IF Len(l) > Len(r) THEN Len(l) ELSE Len(r)
           S == Differ(l, r)
           R == {p \in S \X S : p[1] < p[2]}
<1>1. n \in Nat /\ S \subseteq 1..n
  BY DEF Differ
<1>2. IsFiniteSet(S)
  <2>1. IsFiniteSet(1..n)
    BY <1>1, FS_Interval
  <2>2. QED
    BY <1>1, <2>1, FS_Subset
<1>3. \A x \in S : x \in Nat
  BY <1>1
<1>4. \A x, y \in S : <<x, y>> \in R <=> x < y
  OBVIOUS
<1> HIDE DEF R, S
<1>5. \E m \in S : \A k \in S : <<k, m>> \notin R
  <2>1. \A x \in S : <<x, x>> \notin R
    BY <1>3, <1>4
  <2>2. \A x, y, z \in S : <<x, y>> \in R /\ <<y, z>> \in R => <<x, z>> \in R
    BY <1>3, <1>4
  <2>3. S # {}
    BY DEF S
  <2>4. QED
    BY <1>2, <2>1, <2>2, <2>3, LeastElement
<1>6. \E m \in S : \A k \in S : m <= k
  <2>1. PICK m \in S : \A k \in S : <<k, m>> \notin R
    BY <1>5
  <2>2. \A k \in S : m \in Nat /\ k \in Nat /\ ~(k < m)
    BY <1>3, <1>4, <2>1
  <2>3. \A k \in S : m <= k
    BY <2>2
  <2>4. QED
    BY <2>3
<1>7. QED
  BY <1>6 DEF S

LEMMA PrereleasesCompare ==
    ASSUME NEW l \in Seq(Identifier), NEW r \in Seq(Identifier)
    PROVE  /\ ComparePrereleases(l, r) \in Int
           /\ ComparePrereleases(l, r) = 0 <=> l = r
           /\ ComparePrereleases(l, r) < 0 <=> Before(l, r)
           /\ ComparePrereleases(l, r) > 0 <=> Before(r, l)
<1>1. CASE Differ(l, r) = {}
  <2>1. ComparePrereleases(l, r) = 0
    BY <1>1 DEF ComparePrereleases, Differ
  <2> DEFINE n == IF Len(l) > Len(r) THEN Len(l) ELSE Len(r)
  <2>0. \A i \in 1..n : i <= Len(l) /\ i <= Len(r) /\ CompareIdentifiers(l[i], r[i]) = 0
    BY <1>1 DEF Differ
  <2>2. Len(l) = Len(r) /\ \A i \in 1..Len(l) : l[i] = r[i]
    <3>1. Len(l) \in Nat /\ Len(r) \in Nat /\ n \in Nat /\ Len(l) <= n /\ Len(r) <= n
      OBVIOUS
    <3> HIDE DEF n
    <3>2. n > 0 => n <= Len(l) /\ n <= Len(r)
      BY <2>0, <3>1
    <3>3. Len(l) = n /\ Len(r) = n
      BY <3>1, <3>2
    <3>4. ASSUME NEW i \in 1..Len(l) PROVE l[i] = r[i]
      <4>1. l[i] \in Identifier /\ r[i] \in Identifier
        BY <3>3
      <4>2. QED
        BY <2>0, <3>3, <4>1, IdentifiersCompare
    <3>5. QED
      BY <3>3, <3>4
  <2>3. l = r
    BY <2>2
  <2>4. ~Before(l, l)
    BY IdentifiersCompare DEF Before, BeforeAt
  <2>5. QED
    BY <2>1, <2>3, <2>4
<1>2. CASE Differ(l, r) # {}
  <2> DEFINE i == CHOOSE k \in Differ(l, r) : \A j \in Differ(l, r) : k <= j
  <2>1. i \in Differ(l, r) /\ \A j \in Differ(l, r) : i <= j
    BY <1>2, FirstDifference
  <2>2. ComparePrereleases(l, r) = IF i > Len(l) THEN -1
                                   ELSE IF i > Len(r) THEN 1
                                   ELSE CompareIdentifiers(l[i], r[i])
    BY <1>2 DEF ComparePrereleases, Differ
  <2> HIDE DEF i
  <2>3. i \in Nat \ {0} /\ (i <= Len(l) \/ i <= Len(r))
    BY <2>1 DEF Differ
  <2>4. i <= Len(l) /\ i <= Len(r) =>
            /\ l[i] \in Identifier /\ r[i] \in Identifier
            /\ CompareIdentifiers(l[i], r[i]) \in Int /\ CompareIdentifiers(l[i], r[i]) # 0
            /\ CompareIdentifiers(l[i], r[i]) > 0 <=> CompareIdentifiers(r[i], l[i]) < 0
            /\ CompareIdentifiers(l[i], r[i]) < 0 <=> CompareIdentifiers(r[i], l[i]) > 0
            /\ l[i] # r[i]
    <3>1. SUFFICES ASSUME i <= Len(l), i <= Len(r)
                   PROVE  /\ l[i] \in Identifier /\ r[i] \in Identifier
                          /\ CompareIdentifiers(l[i], r[i]) # 0
      BY IdentifiersCompare
    <3>2. QED
      BY <2>1, <2>3, <3>1 DEF Differ
  <2>5. \A j \in 1..(i - 1) : j <= Len(l) /\ j <= Len(r) /\ l[j] = r[j]
    <3>1. SUFFICES ASSUME NEW j \in 1..(i - 1)
                   PROVE  j <= Len(l) /\ j <= Len(r) /\ l[j] = r[j]
      OBVIOUS
    <3>2. j \notin Differ(l, r) /\ j \in Nat \ {0} /\ (j <= Len(l) \/ j <= Len(r))
      BY <2>1, <2>3
    <3>3. j <= Len(l) /\ j <= Len(r) /\ CompareIdentifiers(l[j], r[j]) = 0
      BY <3>2 DEF Differ
    <3>4. l[j] \in Identifier /\ r[j] \in Identifier
      BY <3>2, <3>3
    <3>5. QED
      BY <3>3, <3>4, IdentifiersCompare
  <2>6. ASSUME NEW k \in Nat \ {0}, BeforeAt(l, r, k) \/ BeforeAt(r, l, k)
        PROVE  k = i
    <3>1. CASE k < i
      <4>1. k <= Len(l) /\ k <= Len(r) /\ l[k] = r[k]
        BY <2>3, <2>5, <3>1
      <4>2. l[k] \in Identifier
        BY <4>1
      <4>3. CompareIdentifiers(l[k], l[k]) = 0
        BY <4>2, IdentifiersCompare
      <4>4. ~(CompareIdentifiers(l[k], r[k]) < 0) /\ ~(CompareIdentifiers(r[k], l[k]) < 0)
        BY <4>1, <4>3
      <4>5. QED
        BY <2>6, <4>1, <4>4 DEF BeforeAt
    <3>2. CASE i < k
      BY <2>3, <2>4, <2>6, <3>2 DEF BeforeAt
    <3>3. QED
      BY <2>3, <3>1, <3>2
  <2>7. /\ Before(l, r) <=> BeforeAt(l, r, i)
        /\ Before(r, l) <=> BeforeAt(r, l, i)
    BY <2>3, <2>6 DEF Before
  <2>8. l # r
    BY <2>3, <2>4
  <2>9. QED
    BY <2>2, <2>3, <2>4, <2>5, <2>7, <2>8 DEF BeforeAt
<1>3. QED
  BY <1>1, <1>2

LEMMA BeforeIsTransitive ==
    ASSUME NEW a \in Seq(Identifier), NEW b \in Seq(Identifier), NEW c \in Seq(Identifier),
           Before(a, b), Before(b, c)
    PROVE  Before(a, c)
<1>1. PICK i \in Nat \ {0} : BeforeAt(a, b, i)
  BY DEF Before
<1>2. PICK k \in Nat \ {0} : BeforeAt(b, c, k)
  BY DEF Before
<1>3. CASE i < k
  <2>1. i <= Len(b) /\ i <= Len(c) /\ b[i] = c[i]
    BY <1>2, <1>3 DEF BeforeAt
  <2>2. BeforeAt(a, c, i)
    BY <1>1, <1>2, <1>3, <2>1 DEF BeforeAt
  <2>3. QED
    BY <2>2 DEF Before
<1>4. CASE k < i
  <2>1. k <= Len(a) /\ a[k] = b[k]
    BY <1>1, <1>4 DEF BeforeAt
  <2>2. BeforeAt(a, c, k)
    BY <1>1, <1>2, <1>4, <2>1 DEF BeforeAt
  <2>3. QED
    BY <2>2 DEF Before
<1>5. CASE i = k
  <2>1. i <= Len(a) => CompareIdentifiers(a[i], c[i]) < 0
    <3>1. ASSUME i <= Len(a) PROVE a[i] \in Identifier /\ b[i] \in Identifier /\ c[i] \in Identifier
      BY <1>1, <1>2, <1>5, <3>1 DEF BeforeAt
    <3>2. QED
      BY <1>1, <1>2, <1>5, <3>1, IdentifiersCompare DEF BeforeAt
  <2>2. BeforeAt(a, c, i)
    BY <1>1, <1>2, <1>5, <2>1 DEF BeforeAt
  <2>3. QED
    BY <2>2 DEF Before
<1>6. QED
  BY <1>3, <1>4, <1>5

(* compareVersions orders all versions, whatever their pre-releases.       *)
THEOREM VersionsAreOrdered ==
    \A u, v, w \in Version :
        /\ ~Newer(v, v)
        /\ Newer(u, v) /\ Newer(v, w) => Newer(u, w)
        /\ u = v \/ Newer(u, v) \/ Newer(v, u)
<1> SUFFICES ASSUME NEW u \in Version, NEW v \in Version, NEW w \in Version
             PROVE  /\ ~Newer(v, v)
                    /\ Newer(u, v) /\ Newer(v, w) => Newer(u, w)
                    /\ u = v \/ Newer(u, v) \/ Newer(v, u)
  OBVIOUS
<1> DEFINE Later(x, y) == \/ x.core > y.core
                          \/ x.core = y.core /\ x.pre = <<>> /\ y.pre # <<>>
                          \/ x.core = y.core /\ x.pre # <<>> /\ y.pre # <<>>
                               /\ Before(y.pre, x.pre)
<1>1. \A x \in Version : x.core \in Nat /\ x.pre \in Seq(Identifier)
  BY DEF Version
<1>2. ASSUME NEW x \in Version, NEW y \in Version PROVE Newer(x, y) <=> Later(x, y)
  <2>1. /\ ComparePrereleases(x.pre, y.pre) \in Int
        /\ ComparePrereleases(x.pre, y.pre) > 0 <=> Before(y.pre, x.pre)
    BY <1>1, PrereleasesCompare
  <2>2. x.core \in Nat /\ y.core \in Nat
    BY <1>1
  <2>3. QED
    BY <2>1, <2>2 DEF Newer, CompareVersions
<1>3. ~Before(v.pre, v.pre)
  BY <1>1, PrereleasesCompare
<1>4. Before(w.pre, v.pre) /\ Before(v.pre, u.pre) => Before(w.pre, u.pre)
  BY <1>1, BeforeIsTransitive
<1>5. u.pre = v.pre \/ Before(u.pre, v.pre) \/ Before(v.pre, u.pre)
  <2>1. ComparePrereleases(u.pre, v.pre) \in Int
    BY <1>1, PrereleasesCompare
  <2>2. QED
    BY <1>1, <2>1, PrereleasesCompare
<1>6. u.core = v.core /\ u.pre = v.pre => u = v
  BY DEF Version
<1>7. QED
  <2>1. ~Later(v, v)
    BY <1>1, <1>3
  <2>2. Later(u, v) /\ Later(v, w) => Later(u, w)
    BY <1>1, <1>4
  <2>3. u = v \/ Later(u, v) \/ Later(v, u)
    BY <1>1, <1>5, <1>6
  <2>4. QED
    BY <1>2, <2>1, <2>2, <2>3

LEMMA NotNewerIsTransitive ==
    ASSUME NEW u \in Version, NEW v \in Version, NEW w \in Version,
           ~Newer(u, v), ~Newer(v, w)
    PROVE  ~Newer(u, w)
  BY VersionsAreOrdered

(* pickReleaseForChannel returns the newest of the releases that the       *)
(* channel may install, and nothing only if there is none.                 *)
THEOREM NewestIsPicked ==
    ASSUME NEW releases \in Seq([version : Version, prerelease : BOOLEAN, installable : BOOLEAN])
    PROVE  LET picked == PickReleaseForChannel(releases)
               offered == {releases[i].version : i \in {j \in DOMAIN releases : Offered(releases[j])}}
           IN  IF offered = {} THEN picked = None
               ELSE /\ picked \in offered
                    /\ \A v \in offered : v = picked \/ Newer(picked, v)
<1> DEFINE places == {j \in DOMAIN releases : Offered(releases[j])}
           offered == {releases[i].version : i \in places}
           R == {p \in offered \X offered : Newer(p[1], p[2])}
<1>0. \A i \in DOMAIN releases : releases[i].version \in Version
  <2>1. \A i \in DOMAIN releases :
            releases[i] \in [version : Version, prerelease : BOOLEAN, installable : BOOLEAN]
    BY ElementOfSeq, LenProperties
  <2>2. QED
    BY <2>1
<1>1. offered \subseteq Version
  BY <1>0
<1>2. IsFiniteSet(offered)
  <2>1. IsFiniteSet(DOMAIN releases)
    <3>1. DOMAIN releases = 1..Len(releases) /\ Len(releases) \in Nat
      OBVIOUS
    <3>2. QED
      BY <3>1, FS_Interval
  <2>2. IsFiniteSet(places)
    BY <2>1, FS_Subset
  <2> DEFINE f == [i \in places |-> releases[i].version]
  <2>3. f \in Surjection(places, offered)
    BY DEF Surjection
  <2>4. QED
    BY <2>2, <2>3, FS_Surjection
<1>3. \A x, y \in offered : <<x, y>> \in R <=> Newer(x, y)
  OBVIOUS
<1> HIDE DEF R, offered
<1>4. ASSUME offered # {}
      PROVE  \E m \in offered : \A k \in offered : ~Newer(k, m)
  <2>1. \A x \in offered : <<x, x>> \notin R
    BY <1>1, <1>3, VersionsAreOrdered
  <2>2. \A x, y, z \in offered : <<x, y>> \in R /\ <<y, z>> \in R => <<x, z>> \in R
    BY <1>1, <1>3, VersionsAreOrdered
  <2>3. \E m \in offered : \A k \in offered : <<k, m>> \notin R
    BY <1>2, <1>4, <2>1, <2>2, LeastElement
  <2>4. QED
    BY <1>3, <2>3
<1>5. PickReleaseForChannel(releases) =
          IF offered = {} THEN None
          ELSE CHOOSE v \in offered : \A w \in offered : ~Newer(w, v)
  BY DEF PickReleaseForChannel, offered
<1>6. ASSUME offered # {}
      PROVE  /\ PickReleaseForChannel(releases) \in offered
             /\ \A v \in offered : ~Newer(v, PickReleaseForChannel(releases))
  BY <1>4, <1>5, <1>6
<1>7. ASSUME offered # {}, NEW v \in offered
      PROVE  v = PickReleaseForChannel(releases) \/ Newer(PickReleaseForChannel(releases), v)
  BY <1>1, <1>6, <1>7, VersionsAreOrdered
<1>8. QED
  BY <1>5, <1>6, <1>7 DEF offered

-----------------------------------------------------------------------------
(* The types, with those of records.                                       *)
Eras == {"usual", "revived", "target"}
Installing == {"prepared", "asked", "stopped", "copied", "backedUp", "recorded"}
InScript == {"waiting", "killed", "replacing", "copying", "opening", "opened",
             "restoring", "restored", "reopening", "reporting"}

Checks == [current : Known, latest : Known \cup {None}, etag : Nat, available : Known \cup {None}]
Database == [schema : Known, rows : SUBSET Eras, release : {None} \cup Checks,
             pending : Known \cup {None}, error : {"none", "check", "install"},
             status : {"stopped", "running"}, version : Known]
Backups == [app : Known \cup {None}, db : Database \cup {None}]
Installs == [pc : Installing \cup {"idle"}, target : Known \cup {None},
             previous : Known \cup {None}]
Daemons == [version : Known, era : Eras, ready : BOOLEAN, asked : BOOLEAN]

Backed == cli.pc \in {"backedUp", "recorded"} \/ helper \in InScript

Typed ==
    /\ channel \in Channels /\ published \in 1..Len(Feed)
    /\ bundle \in Known \cup {Torn}
    /\ db \in Database
    /\ backup \in Backups
    /\ ui \in Known \cup {None}
    /\ daemon = None \/ daemon \in Daemons
    /\ cli \in Installs
    /\ helper \in InScript \cup {"idle", "dead"}
    /\ mixed \in BOOLEAN
    /\ cli.pc # "idle" => helper \in {"idle", "dead"} /\ bundle # Torn
    /\ cli.pc # "idle" \/ helper \in InScript => cli.target \in Known /\ cli.previous \in Known
    /\ Backed => backup.db \in Database

(* Which bundle is installed, and which is kept.                           *)
BundlesInHand ==
    /\ cli.pc # "idle" => bundle = cli.previous
    /\ helper \in {"waiting", "killed", "replacing", "restored", "reopening", "reporting"} =>
          bundle = cli.previous
    /\ helper \in {"copying", "restoring"} => bundle = Torn
    /\ helper \in {"opening", "opened"} => bundle = cli.target
    /\ cli.pc = "copied" \/ Backed => backup.app = cli.previous

(* The daemon that reported itself last had migrated the database.         *)
Reported(d) == d.status = "running" => ~Newer(d.version, d.schema)

(* Which databases the bundles understand.                                 *)
Fits ==
    ~mixed =>
        /\ /\ helper \notin {"copying", "restoring", "restored"}
           /\ helper = "dead" => bundle # Torn
           => ~Newer(db.schema, bundle)
        /\ helper = "copying" => ~Newer(db.schema, cli.previous)
        /\ helper \in InScript => ~Newer(cli.previous, cli.target)
        /\ daemon # None => /\ helper \notin {"restoring", "restored"}
                            /\ ~Newer(db.schema, daemon.version)
                            /\ ~Newer(daemon.version, db.schema)
        /\ Reported(db)
        /\ Backed => ~Newer(backup.db.schema, cli.previous) /\ Reported(backup.db)

(* Once the daemon has been waited for, none from before the update runs;  *)
(* what they wrote is in the copy of the database.                         *)
RowsKept ==
    /\ "usual" \in written => "usual" \in db.rows
    /\ Backed /\ "usual" \in written => "usual" \in backup.db.rows
    /\ daemon # None /\ daemon.era = "usual" =>
          /\ cli.pc = "asked" => daemon.ready
          /\ ~(cli.pc \in {"stopped", "copied"} \/ Backed)

Inv == Typed /\ BundlesInHand /\ Fits /\ RowsKept

-----------------------------------------------------------------------------
LEMMA KnownVersions == Known \subseteq Version /\ Torn \in Version
<1>1. First \in Version /\ \A i \in DOMAIN Feed : Feed[i].version \in Version
  <2> DEFINE E == [version : Version, prerelease : BOOLEAN, installable : BOOLEAN]
  <2>1. Feed \in Seq(E)
    BY UpdaterAssumption
  <2>2. \A i \in DOMAIN Feed : Feed[i] \in E
    <3> HIDE DEF E
    <3>1. QED
      BY <2>1, ElementOfSeq, LenProperties
  <2>3. QED
    BY <2>2, UpdaterAssumption
<1>2. Torn \in Version
  <2>1. [number |-> FALSE, at |-> 0] \in Identifier
    BY DEF Identifier
  <2>2. <<[number |-> FALSE, at |-> 0]>> \in Seq(Identifier)
    BY <2>1
  <2>3. QED
    BY <2>2 DEF Torn, Version
<1>3. QED
  BY <1>1, <1>2 DEF Known

LEMMA UpdateStateSet ==
    ASSUME db \in Database, NEW p \in Known \cup {None}, NEW e \in {"none", "check", "install"}
    PROVE  /\ SetUpdateState(p, e) \in Database
           /\ SetUpdateState(p, e).pending = p /\ SetUpdateState(p, e).error = e
           /\ SetUpdateState(p, e).schema = db.schema
           /\ SetUpdateState(p, e).rows = db.rows
           /\ SetUpdateState(p, e).status = db.status
           /\ SetUpdateState(p, e).version = db.version
  BY DEF SetUpdateState, Database

LEMMA DaemonStateSet ==
    ASSUME NEW d \in Database, NEW s \in {"stopped", "running"}, NEW v \in Known
    PROVE  /\ UpsertDaemonState(d, s, v) \in Database
           /\ UpsertDaemonState(d, s, v).status = s /\ UpsertDaemonState(d, s, v).version = v
           /\ UpsertDaemonState(d, s, v).schema = d.schema
           /\ UpsertDaemonState(d, s, v).rows = d.rows
  BY DEF UpsertDaemonState, Database

LEMMA CheckStored ==
    ASSUME Typed, NEW v \in Known, NEW force \in BOOLEAN, NEW after,
           CheckForUpdates(v, force, after)
    PROVE  /\ after \in Database
           /\ after.schema = db.schema /\ after.rows = db.rows
           /\ after.status = db.status /\ after.version = db.version
<1> DEFINE store(c) == [db EXCEPT !.release = c, !.error = "none"]
<1>1. ASSUME NEW c \in Checks
      PROVE  /\ store(c) \in Database
             /\ store(c).schema = db.schema /\ store(c).rows = db.rows
             /\ store(c).status = db.status /\ store(c).version = db.version
  BY DEF Typed, Database
<1>2. PickReleaseForChannel(SubSeq(Feed, 1, published)) \in Known \cup {None}
  <2> DEFINE releases == SubSeq(Feed, 1, published)
  <2>1. /\ releases \in Seq([version : Version, prerelease : BOOLEAN, installable : BOOLEAN])
        /\ \A i \in DOMAIN releases : i \in DOMAIN Feed /\ releases[i] = Feed[i]
    <3>1. published \in 1..Len(Feed) /\ Len(Feed) \in Nat
      BY UpdaterAssumption DEF Typed
    <3> DEFINE E == [version : Version, prerelease : BOOLEAN, installable : BOOLEAN]
    <3>2. Feed \in Seq(E)
      BY UpdaterAssumption
    <3> HIDE DEF E
    <3>3. \A i \in 1..published : Feed[i] \in E /\ i \in DOMAIN Feed
      BY <3>1, <3>2, ElementOfSeq, LenProperties
    <3>4. /\ releases \in Seq(E) /\ Len(releases) = published
          /\ \A i \in 1..published : releases[i] = Feed[i]
      BY <3>1, <3>3, SubSeqProperties
    <3>5. DOMAIN releases = 1..published
      BY <3>4, LenProperties
    <3>6. QED
      BY <3>3, <3>4, <3>5 DEF E
  <2> HIDE DEF releases
  <2>2. \A i \in DOMAIN releases : releases[i].version \in Known
    BY <2>1 DEF Known
  <2>3. QED
    BY <2>1, <2>2, NewestIsPicked DEF releases
<1>3. ASSUME NEW latest \in Known \cup {None}
      PROVE  [current |-> v, latest |-> latest, etag |-> published,
              available |-> IF latest # None /\ Newer(latest, v) THEN latest ELSE None] \in Checks
  BY UpdaterAssumption DEF Checks, Typed
<1>4. Checked(v, FALSE) \in Checks
  BY <1>2, <1>3 DEF Checked
<1>5. db.release # None => Checked(v, TRUE) \in Checks
  <2>1. db.release # None => db.release.latest \in Known \cup {None} /\ db.release.current \in Known
    BY DEF Typed, Database, Checks
  <2>2. QED
    BY <1>3, <2>1 DEF Checked
<1>6. db \in Database /\ db.pending \in Known \cup {None}
  BY DEF Typed, Database
<1>7. CASE after = SetUpdateState(db.pending, "check")
  BY <1>6, <1>7, UpdateStateSet
<1>8. CASE after = store(Checked(v, FALSE))
  BY <1>1, <1>4, <1>8
<1>9. CASE db.release # None /\ after = store(Checked(v, TRUE))
  BY <1>1, <1>5, <1>9
<1>10. QED
  BY <1>7, <1>8, <1>9 DEF CheckForUpdates

-----------------------------------------------------------------------------
(* The type invariant. *)
LEMMA TypedInit == Init => Typed
<1>1. ASSUME Init PROVE 1 \in 1..Len(Feed)
  BY UpdaterAssumption, LenProperties, EmptySeq
<1>2. First \in Known
  BY DEF Known
<1>3. [schema |-> First, rows |-> {}, release |-> None, pending |-> None,
       error |-> "none", status |-> "stopped", version |-> First] \in Database
  BY <1>2 DEF Database
<1>4. /\ [app |-> None, db |-> None] \in Backups
      /\ [pc |-> "idle", target |-> None, previous |-> None] \in Installs
  BY DEF Backups, Installs
<1>5. ASSUME Init
      PROVE  /\ db \in Database /\ backup \in Backups /\ cli \in Installs
             /\ cli.pc = "idle" /\ helper = "idle" /\ published = 1
             /\ channel \in Channels /\ bundle = First /\ ui \in {First, None}
             /\ daemon = None /\ mixed = FALSE
  BY <1>3, <1>4, <1>5 DEF Init
<1>6. QED
  BY <1>1, <1>2, <1>5 DEF Typed, Backed, InScript

(* A daemon is started, at work or stops. *)
LEMMA TypedDaemon ==
    Typed /\ (StartIfNeeded \/ DaemonReady \/ DaemonWrites \/ DaemonChecks \/ DaemonStops)
    => Typed'
<1> SUFFICES ASSUME Typed,
                    StartIfNeeded \/ DaemonReady \/ DaemonWrites \/ DaemonChecks \/ DaemonStops
             PROVE  Typed'
  OBVIOUS
<1> DEFINE Kept == UNCHANGED <<channel, published, bundle, backup, ui, cli, helper>>
<1>1. ASSUME Kept, db' \in Database, daemon' = None \/ daemon' \in Daemons, mixed' \in BOOLEAN
      PROVE  Typed'
  BY <1>1 DEF Typed, Backed
<1>2. CASE StartIfNeeded
  <2>1. bundle \in Known
    BY <1>2 DEF StartIfNeeded, Typed
  <2>2. daemon' \in Daemons
    BY <1>2, <2>1 DEF StartIfNeeded, Daemons, Era, Eras
  <2>3. db' \in Database
    BY <1>2, <2>1 DEF StartIfNeeded, Typed, Database, Migrated
  <2>4. QED
    BY <1>1, <1>2, <2>2, <2>3 DEF StartIfNeeded, files, Typed
<1>3. CASE DaemonReady
  <2>1. daemon \in Daemons /\ daemon.version \in Known /\ db \in Database
    BY <1>3 DEF DaemonReady, Typed, Daemons
  <2>2. daemon' \in Daemons
    BY <1>3, <2>1 DEF DaemonReady, Daemons
  <2>3. db' \in Database
    BY <1>3, <2>1, UpdateStateSet, DaemonStateSet DEF DaemonReady
  <2>4. QED
    BY <1>1, <1>3, <2>2, <2>3 DEF DaemonReady, files, aux, Typed
<1>4. CASE DaemonWrites
  <2>1. daemon \in Daemons /\ daemon.era \in Eras /\ db \in Database
    BY <1>4 DEF DaemonWrites, Typed, Daemons
  <2>2. db' \in Database
    BY <1>4, <2>1 DEF DaemonWrites, Database
  <2>3. QED
    BY <1>1, <1>4, <2>2 DEF DaemonWrites, files, procs, Typed
<1>5. CASE DaemonChecks
  <2>1. daemon.version \in Known
    BY <1>5 DEF DaemonChecks, Typed, Daemons
  <2>2. db' \in Database
    BY <1>5, <2>1, CheckStored DEF DaemonChecks
  <2>3. QED
    BY <1>1, <1>5, <2>2 DEF DaemonChecks, files, procs, aux, Typed
<1>6. CASE DaemonStops
  <2>1. daemon.version \in Known /\ db \in Database
    BY <1>6 DEF DaemonStops, Typed, Daemons
  <2>2. db' \in Database
    BY <1>6, <2>1, DaemonStateSet DEF DaemonStops
  <2>3. QED
    BY <1>1, <1>6, <2>2 DEF DaemonStops, files, aux, Typed
<1>7. QED
  BY <1>2, <1>3, <1>4, <1>5, <1>6

(* Releases come out, the application is opened or installed by hand, the  *)
(* machine stops.                                                          *)
LEMMA TypedAround ==
    Typed /\ (Publish \/ OpenApp \/ InstallByHand \/ MachineStops) => Typed'
<1> SUFFICES ASSUME Typed, Publish \/ OpenApp \/ InstallByHand \/ MachineStops
             PROVE  Typed'
  OBVIOUS
<1>0. Len(Feed) \in Nat /\ published \in 1..Len(Feed)
  BY UpdaterAssumption, LenProperties DEF Typed
<1>1. CASE Publish
  BY <1>0, <1>1 DEF Publish, Typed, Backed, files, procs, aux
<1>2. CASE OpenApp
  BY <1>2 DEF OpenApp, Typed, Backed, files, aux
<1>3. CASE InstallByHand
  <2>1. Feed[published].version \in Known
    BY <1>0, UpdaterAssumption, LenProperties DEF Known
  <2>2. QED
    BY <1>3, <2>1 DEF InstallByHand, Typed, Backed, procs, aux
<1>4. CASE MachineStops
  BY <1>4 DEF MachineStops, Typed, Backed, Installs, InScript, Installing, files
<1>5. QED
  BY <1>1, <1>2, <1>3, <1>4

(* `update install`. *)
LEMMA TypedInstall == Typed /\ (PrepareReleaseInstall \/ InstallNext) => Typed'
<1> SUFFICES ASSUME Typed, PrepareReleaseInstall \/ InstallNext
             PROVE  Typed'
  OBVIOUS
<1> USE DEF Installs, Installing, InScript
<1>0. /\ db \in Database /\ db.pending \in Known \cup {None}
      /\ db.error \in {"none", "check", "install"}
  BY DEF Typed, Database
<1>1. CASE PrepareReleaseInstall
  <2>1. bundle \in Known /\ cli.pc = "idle"
    BY <1>1 DEF PrepareReleaseInstall, Typed
  <2>2. db' \in Database
    BY <1>1, <2>1, CheckStored DEF PrepareReleaseInstall
  <2>3. db'.release # None /\ db'.release.available # None => db'.release.available \in Known
    BY <2>2 DEF Database, Checks
  <2>4. CASE UNCHANGED cli
    BY <1>1, <2>2, <2>4 DEF PrepareReleaseInstall, Typed, Backed, files, procs, aux
  <2>5. CASE cli' = [pc |-> "prepared", target |-> db'.release.available, previous |-> bundle]
             /\ db'.release.available \in Known
    BY <1>1, <2>1, <2>2, <2>5 DEF PrepareReleaseInstall, Typed, Backed, files, procs, aux
  <2>6. QED
    BY <1>1, <2>3, <2>4, <2>5 DEF PrepareReleaseInstall
<1>2. CASE RequestShutdownForUpdate
  <2>1. db' \in Database
    BY <1>0, <1>2, UpdateStateSet DEF RequestShutdownForUpdate
  <2>2. daemon' = None \/ daemon' \in Daemons
    <3>1. daemon # None => /\ [daemon EXCEPT !.asked = TRUE] \in Daemons
                           /\ [daemon EXCEPT !.era = "revived"] \in Daemons
      BY DEF Typed, Daemons, Eras
    <3>2. QED
      BY <1>2, <3>1 DEF RequestShutdownForUpdate, DaemonReports
  <2>3. QED
    BY <1>2, <2>1, <2>2 DEF RequestShutdownForUpdate, Typed, Backed, files, aux
<1>3. CASE WaitForDaemonExit
  BY <1>3 DEF WaitForDaemonExit, Typed, Backed, files, procs, aux
<1>4. CASE BackUpApp
  <2>1. backup' \in Backups
    BY <1>4 DEF BackUpApp, Typed, Backups
  <2>2. QED
    BY <1>4, <2>1 DEF BackUpApp, Typed, Backed, procs, aux
<1>5. CASE BackupDatabaseSnapshot
  <2>1. backup' \in Backups /\ backup'.db \in Database
    BY <1>5 DEF BackupDatabaseSnapshot, Typed, Backups
  <2>2. QED
    BY <1>5, <2>1 DEF BackupDatabaseSnapshot, Typed, Backed, procs, aux
<1>6. CASE RecordPendingRollback
  <2>1. db' \in Database
    BY <1>0, <1>6, UpdateStateSet DEF RecordPendingRollback, Typed
  <2>2. QED
    BY <1>6, <2>1 DEF RecordPendingRollback, Typed, Backed, files, procs, aux
<1>7. CASE InstallFails
  <2>1. db' \in Database
    BY <1>0, <1>7, UpdateStateSet DEF InstallFails, Typed
  <2>2. QED
    BY <1>7, <2>1 DEF InstallFails, Typed, Backed, files, procs, aux
<1>8. CASE SpawnUpdateHelper
  BY <1>8 DEF SpawnUpdateHelper, Typed, Backed, files
<1>9. QED
  BY <1>1, <1>2, <1>3, <1>4, <1>5, <1>6, <1>7, <1>8 DEF InstallNext

(* The script. *)
LEMMA TypedScript == Typed /\ BundlesInHand /\ HelperNext => Typed'
<1> SUFFICES ASSUME Typed, BundlesInHand, HelperNext
             PROVE  Typed'
  OBVIOUS
<1> USE DEF InScript, Helper
<1>0. /\ db \in Database /\ helper \in InScript \cup {"idle", "dead"}
      /\ daemon # None => daemon.version \in Known
  BY DEF Typed, Daemons
<1>1. Killed \subseteq Database
  BY <1>0, DaemonStateSet DEF Killed
<1>2. ASSUME NEW e \in {"none", "install"} PROVE SetUpdateState(None, e) \in Database
  BY <1>0, UpdateStateSet
<1>3. CASE WaitForOldAppExit
  BY <1>3 DEF WaitForOldAppExit, Typed, Backed, files, procs, aux
<1>4. CASE KillOldApp
  BY <1>1, <1>4 DEF KillOldApp, Typed, Backed, files, aux
<1>5. CASE LookAgain
  BY <1>2, <1>5 DEF LookAgain, Typed, Backed, files, procs, aux
<1>6. CASE BeginCopy
  BY <1>6 DEF BeginCopy, Typed, Backed, procs, aux
<1>7. CASE EndCopy
  BY <1>7 DEF EndCopy, Typed, Backed, procs, aux
<1>8. CASE OpenTarget
  <2>1. bundle \in Known
    BY <1>8 DEF OpenTarget, Typed, BundlesInHand
  <2>2. QED
    BY <1>8, <2>1 DEF OpenTarget, Typed, Backed, files, aux
<1>9. CASE Succeed
  BY <1>2, <1>9 DEF Succeed, Typed, Backed, files, procs, aux
<1>10. CASE BeginRestore
  BY <1>1, <1>10 DEF BeginRestore, Typed, Backed, aux
<1>11. CASE RestoreApp
  <2>1. backup.app \in Known
    BY <1>11 DEF RestoreApp, Typed, BundlesInHand, Backed
  <2>2. QED
    BY <1>11, <2>1 DEF RestoreApp, Typed, Backed, procs, aux
<1>12. CASE RestoreDatabase
  BY <1>12 DEF RestoreDatabase, Typed, Backed, files, procs, aux
<1>13. CASE OpenPrevious
  <2>1. bundle \in Known
    BY <1>13 DEF OpenPrevious, Typed, BundlesInHand
  <2>2. QED
    BY <1>13, <2>1 DEF OpenPrevious, Typed, Backed, files, aux
<1>14. CASE ReportRollback
  BY <1>2, <1>14 DEF ReportRollback, Typed, Backed, files, procs, aux
<1>15. CASE CopyFails
  BY <1>15 DEF CopyFails, Typed, Backed, files, procs
<1>16. QED
  BY <1>3, <1>4, <1>5, <1>6, <1>7, <1>8, <1>9, <1>10, <1>11, <1>12, <1>13, <1>14, <1>15
  DEF HelperNext

-----------------------------------------------------------------------------
(* The bundles. *)
LEMMA BundlesStep == Typed /\ BundlesInHand /\ Next => BundlesInHand'
<1> SUFFICES ASSUME Typed, BundlesInHand, Next
             PROVE  BundlesInHand'
  OBVIOUS
<1> USE DEF BundlesInHand, Backed, InScript, Helper
<1>0. /\ cli.pc # "idle" => helper \in {"idle", "dead"}
      /\ cli.pc \in Installing \cup {"idle"}
      /\ helper \in InScript \cup {"idle", "dead"}
  BY DEF Typed, Installs
<1>1. CASE StartIfNeeded \/ DaemonReady \/ DaemonWrites \/ DaemonChecks \/ DaemonStops \/ Publish \/ OpenApp
  BY <1>1 DEF StartIfNeeded, DaemonReady, DaemonWrites, DaemonChecks, DaemonStops, Publish,
              OpenApp, files
<1>2. CASE InstallByHand
  BY <1>0, <1>2 DEF InstallByHand, Updating
<1>3. CASE MachineStops
  BY <1>0, <1>3 DEF MachineStops, files, Typed, Installs
<1>4. CASE PrepareReleaseInstall
  BY <1>0, <1>4 DEF PrepareReleaseInstall, files
<1>5. CASE RequestShutdownForUpdate \/ WaitForDaemonExit
  BY <1>0, <1>5 DEF RequestShutdownForUpdate, WaitForDaemonExit, files, Typed, Installs
<1>6. CASE BackUpApp
  <2>1. backup'.app = bundle
    BY <1>6 DEF BackUpApp, Typed, Backups
  <2>2. QED
    BY <1>0, <1>6, <2>1 DEF BackUpApp, Typed, Installs
<1>7. CASE BackupDatabaseSnapshot
  <2>1. backup'.app = backup.app
    BY <1>7 DEF BackupDatabaseSnapshot, Typed, Backups
  <2>2. QED
    BY <1>0, <1>7, <2>1 DEF BackupDatabaseSnapshot, Typed, Installs
<1>8. CASE RecordPendingRollback \/ InstallFails \/ SpawnUpdateHelper
  BY <1>0, <1>8 DEF RecordPendingRollback, InstallFails, SpawnUpdateHelper, files, Typed, Installs
<1>9. CASE WaitForOldAppExit \/ KillOldApp \/ LookAgain \/ BeginCopy \/ EndCopy \/ OpenTarget \/ Succeed
  BY <1>0, <1>9 DEF WaitForOldAppExit, KillOldApp, LookAgain, BeginCopy, EndCopy, OpenTarget,
                    Succeed, files
<1>10. CASE BeginRestore \/ RestoreApp \/ RestoreDatabase \/ OpenPrevious \/ ReportRollback \/ CopyFails
  BY <1>0, <1>10 DEF BeginRestore, RestoreApp, RestoreDatabase, OpenPrevious, ReportRollback,
                     CopyFails, files
<1>11. QED
  BY <1>1, <1>2, <1>3, <1>4, <1>5, <1>6, <1>7, <1>8, <1>9, <1>10
  DEF Next, DaemonNext, InstallNext, HelperNext

-----------------------------------------------------------------------------
(* The databases. *)
LEMMA VersionsInHand ==
    ASSUME Typed
    PROVE  /\ bundle \in Version /\ db.schema \in Version /\ db.version \in Version
           /\ daemon # None => daemon.version \in Version
           /\ cli.pc # "idle" \/ helper \in InScript =>
                 cli.target \in Version /\ cli.previous \in Version
           /\ Backed => backup.db.schema \in Version /\ backup.db.version \in Version
  BY KnownVersions DEF Typed, Database, Daemons

LEMMA DatabaseMigrated ==
    ASSUME NEW v \in Version, db.schema \in Version
    PROVE  /\ Migrated(v) \in Version /\ ~Newer(v, Migrated(v))
           /\ \A u \in Version : ~Newer(u, db.schema) => ~Newer(u, Migrated(v))
           /\ ~Newer(db.schema, v) => ~Newer(Migrated(v), v)
<1>1. ASSUME NEW u \in Version, ~Newer(u, db.schema), Newer(v, db.schema)
      PROVE  ~Newer(u, v)
  BY <1>1, VersionsAreOrdered
<1>2. QED
  BY <1>1, VersionsAreOrdered DEF Migrated

(* What a daemon or a command stores beside the rows does not touch them.  *)
SameFit == db'.schema = db.schema /\ db'.status = db.status /\ db'.version = db.version

LEMMA FitsStands ==
    ASSUME Typed, Fits, SameFit, UNCHANGED <<mixed, daemon, bundle, backup, helper, cli>>
    PROVE  Fits'
  BY DEF Fits, SameFit, Reported, Backed

LEMMA FitsAround ==
    Typed /\ BundlesInHand /\ Fits /\ (DaemonNext \/ DaemonWrites \/ DaemonChecks \/ Publish \/ OpenApp
                      \/ InstallByHand \/ MachineStops) => Fits'
<1> SUFFICES ASSUME Typed, BundlesInHand, Fits,
                    \/ DaemonNext \/ DaemonWrites \/ DaemonChecks \/ Publish \/ OpenApp
                    \/ InstallByHand \/ MachineStops
             PROVE  Fits'
  OBVIOUS
<1>0. db \in Database
  BY DEF Typed
<1>1. CASE StartIfNeeded
  <2>1. /\ db'.schema = Migrated(bundle) /\ db'.status = db.status /\ db'.version = db.version
        /\ daemon'.version = bundle /\ bundle # Torn
        /\ UNCHANGED <<cli, helper, bundle, backup>>
        /\ mixed' = (mixed \/ helper = "restored")
    BY <1>0, <1>1 DEF StartIfNeeded, Database, files
  <2>2. bundle \in Version /\ db.schema \in Version /\ db.version \in Version
    BY VersionsInHand
  <2>3. /\ ~Newer(bundle, Migrated(bundle))
        /\ ~Newer(db.version, db.schema) => ~Newer(db.version, Migrated(bundle))
        /\ ~Newer(db.schema, bundle) => ~Newer(Migrated(bundle), bundle)
    BY <2>2, DatabaseMigrated
  <2>4. helper \notin {"copying", "restoring"}
    BY <2>1 DEF BundlesInHand
  <2>5. SUFFICES ASSUME ~mixed' PROVE Fits'
    BY DEF Fits
  <2> DEFINE m == Migrated(bundle)
  <2>6. ~mixed /\ helper # "restored"
    BY <2>1, <2>5
  <2>7. /\ ~Newer(db.schema, bundle)
        /\ helper \in InScript => ~Newer(cli.previous, cli.target)
        /\ Reported(db)
        /\ Backed => ~Newer(backup.db.schema, cli.previous) /\ Reported(backup.db)
    BY <2>1, <2>4, <2>6 DEF Fits
  <2>8. /\ ~Newer(db'.schema, bundle') /\ ~Newer(db'.schema, daemon'.version)
        /\ ~Newer(daemon'.version, db'.schema)
    <3>1. db'.schema = m /\ daemon'.version = bundle /\ bundle' = bundle
      BY <2>1
    <3>2. ~Newer(bundle, m)
      BY <2>3
    <3>3. ~Newer(m, bundle)
      BY <2>3, <2>7
    <3> HIDE DEF m
    <3>4. QED
      BY <3>1, <3>2, <3>3
  <2>9. Reported(db)'
    <3>1. db.status = "running" => ~Newer(db.version, m)
      BY <2>2, <2>7, DatabaseMigrated DEF Reported
    <3>2. db'.schema = m /\ db'.status = db.status /\ db'.version = db.version
      BY <2>1
    <3> HIDE DEF m
    <3>3. QED
      BY <3>1, <3>2 DEF Reported
  <2>10. /\ (helper \in InScript => ~Newer(cli.previous, cli.target))'
         /\ (Backed => ~Newer(backup.db.schema, cli.previous) /\ Reported(backup.db))'
    BY <2>1, <2>7 DEF Reported, Backed
  <2>11. helper' \notin {"copying", "restoring", "restored"}
    BY <2>1, <2>4, <2>6
  <2>12. QED
    BY <2>8, <2>9, <2>10, <2>11 DEF Fits
<1>2. CASE DaemonReady
  <2>1. daemon \in Daemons /\ daemon.version \in Known
    BY <1>2 DEF DaemonReady, Typed, Daemons
  <2> DEFINE d == IF db.pending = daemon.version THEN SetUpdateState(None, "none") ELSE db
  <2>2. /\ db'.schema = db.schema /\ db'.version = daemon.version
        /\ daemon'.version = daemon.version
    <3>1. d \in Database /\ d.schema = db.schema
      BY <1>0, UpdateStateSet
    <3>2. db' = UpsertDaemonState(d, "running", daemon.version)
      BY <1>2 DEF DaemonReady
    <3>3. daemon'.version = daemon.version
      BY <1>2, <2>1 DEF DaemonReady, Daemons
    <3> HIDE DEF d
    <3>4. QED
      BY <2>1, <3>1, <3>2, <3>3, DaemonStateSet
  <2>3. daemon # None /\ UNCHANGED <<cli, helper, bundle, backup, mixed>>
    BY <1>2 DEF DaemonReady, files, aux
  <2>4. QED
    BY <2>2, <2>3 DEF Fits, Reported, Backed
<1>3. CASE DaemonWrites
  <2>1. SameFit
    BY <1>0, <1>3 DEF DaemonWrites, SameFit, Database
  <2>2. QED
    BY <1>3, <2>1, FitsStands DEF DaemonWrites, files, procs
<1>4. CASE DaemonChecks
  <2>1. daemon.version \in Known
    BY <1>4 DEF DaemonChecks, Typed, Daemons
  <2>2. SameFit
    BY <1>4, <2>1, CheckStored DEF DaemonChecks, SameFit
  <2>3. QED
    BY <1>4, <2>2, FitsStands DEF DaemonChecks, files, procs, aux
<1>5. CASE DaemonStops
  <2>1. daemon.version \in Known
    BY <1>5 DEF DaemonStops, Typed, Daemons
  <2>2. db'.schema = db.schema /\ db'.status = "stopped"
    BY <1>0, <1>5, <2>1, DaemonStateSet DEF DaemonStops
  <2>3. daemon' = None /\ UNCHANGED <<cli, helper, bundle, backup, mixed>>
    BY <1>5 DEF DaemonStops, files, aux
  <2>4. QED
    BY <2>2, <2>3 DEF Fits, Reported, Backed
<1>6. CASE Publish \/ OpenApp
  <2>1. SameFit /\ UNCHANGED <<mixed, daemon, bundle, backup, helper, cli>>
    BY <1>6 DEF Publish, OpenApp, SameFit, files, procs, aux
  <2>2. QED
    BY <2>1, FitsStands
<1>7. CASE InstallByHand
  <2>1. /\ ~Newer(db.schema, bundle') /\ helper \in {"idle", "dead"} /\ cli.pc = "idle"
        /\ daemon = None /\ UNCHANGED <<db, backup, daemon, cli, helper, mixed>>
    BY <1>7 DEF InstallByHand, Updating, procs, aux
  <2>2. QED
    BY <2>1 DEF Fits, Reported, Backed, InScript
<1>8. CASE MachineStops
  <2>1. /\ daemon' = None /\ mixed' = (mixed \/ helper = "restored")
        /\ helper' = IF helper = "idle" THEN "idle" ELSE "dead"
        /\ cli'.pc = "idle" /\ UNCHANGED <<db, bundle, backup>>
    BY <1>8 DEF MachineStops, files, Typed, Installs
  <2>2. helper \in {"copying", "restoring"} => bundle = Torn
    BY DEF BundlesInHand
  <2>3. QED
    BY <2>1, <2>2 DEF Fits, Reported, Backed, InScript
<1>9. QED
  BY <1>1, <1>2, <1>3, <1>4, <1>5, <1>6, <1>7, <1>8 DEF DaemonNext

LEMMA FitsInstall ==
    Typed /\ BundlesInHand /\ Fits /\ (PrepareReleaseInstall \/ InstallNext) => Fits'
<1> SUFFICES ASSUME Typed, BundlesInHand, Fits, PrepareReleaseInstall \/ InstallNext
             PROVE  Fits'
  OBVIOUS
<1>0. /\ db \in Database /\ db.pending \in Known \cup {None}
      /\ db.error \in {"none", "check", "install"}
      /\ cli \in Installs /\ helper \in InScript \cup {"idle", "dead"}
      /\ cli.pc # "idle" => helper \in {"idle", "dead"} /\ bundle # Torn
  BY DEF Typed, Database
<1>1. CASE PrepareReleaseInstall
  <2>1. bundle \in Known
    BY <1>1 DEF PrepareReleaseInstall, Typed
  <2>2. SameFit
    BY <1>1, <2>1, CheckStored DEF PrepareReleaseInstall, SameFit
  <2>3. /\ helper \in {"idle", "dead"} /\ cli.pc = "idle" /\ cli'.pc \in {"idle", "prepared"}
        /\ UNCHANGED <<mixed, daemon, bundle, backup, helper>>
    BY <1>1 DEF PrepareReleaseInstall, files, procs, aux
  <2>4. QED
    BY <2>2, <2>3 DEF Fits, SameFit, Reported, Backed, InScript
<1>2. CASE RequestShutdownForUpdate
  <2>1. SameFit
    BY <1>0, <1>2, UpdateStateSet DEF RequestShutdownForUpdate, SameFit
  <2>2. daemon' # None => daemon # None /\ daemon'.version = daemon.version
    BY <1>2 DEF RequestShutdownForUpdate, DaemonReports, Typed, Daemons
  <2>3. /\ cli.pc = "prepared" /\ cli'.pc = "asked"
        /\ UNCHANGED <<mixed, bundle, backup, helper>>
    BY <1>0, <1>2 DEF RequestShutdownForUpdate, files, aux, Installs
  <2>4. QED
    BY <1>0, <2>1, <2>2, <2>3 DEF Fits, SameFit, Reported, Backed, InScript
<1>3. CASE WaitForDaemonExit
  <2>1. /\ cli.pc = "asked" /\ cli'.pc = "stopped"
        /\ UNCHANGED <<db, mixed, bundle, backup, daemon, helper>>
    BY <1>0, <1>3 DEF WaitForDaemonExit, files, procs, aux, Installs
  <2>2. QED
    BY <1>0, <2>1 DEF Fits, Reported, Backed, InScript
<1>4. CASE BackUpApp
  <2>1. /\ cli.pc = "stopped" /\ cli'.pc = "copied"
        /\ UNCHANGED <<db, mixed, bundle, daemon, helper>>
    BY <1>0, <1>4 DEF BackUpApp, procs, aux, Installs
  <2>2. QED
    BY <1>0, <2>1 DEF Fits, Reported, Backed, InScript
<1>5. CASE BackupDatabaseSnapshot
  <2>1. /\ cli.pc = "copied" /\ cli'.pc = "backedUp" /\ backup'.db = db
        /\ cli'.previous = cli.previous /\ bundle = cli.previous
        /\ UNCHANGED <<db, mixed, bundle, daemon, helper>>
    BY <1>0, <1>5 DEF BackupDatabaseSnapshot, procs, aux, Typed, Installs, Backups, BundlesInHand
  <2>2. QED
    BY <1>0, <2>1 DEF Fits, Reported, Backed, InScript
<1>6. CASE RecordPendingRollback
  <2>1. SameFit
    BY <1>0, <1>6, UpdateStateSet DEF RecordPendingRollback, SameFit, Typed
  <2>2. /\ cli.pc = "backedUp" /\ cli'.pc = "recorded"
        /\ cli'.previous = cli.previous /\ cli'.target = cli.target
        /\ UNCHANGED <<mixed, bundle, daemon, helper, backup>>
    BY <1>0, <1>6 DEF RecordPendingRollback, files, procs, aux, Installs
  <2>3. QED
    BY <1>0, <2>1, <2>2 DEF Fits, SameFit, Reported, Backed, InScript
<1>7. CASE InstallFails
  <2>1. SameFit
    BY <1>0, <1>7, UpdateStateSet DEF InstallFails, SameFit
  <2>2. /\ cli.pc # "idle" /\ cli'.pc = "idle"
        /\ UNCHANGED <<mixed, bundle, daemon, helper, backup>>
    BY <1>0, <1>7 DEF InstallFails, files, procs, aux, Installs
  <2>3. QED
    BY <1>0, <2>1, <2>2 DEF Fits, SameFit, Reported, Backed, InScript
<1>8. CASE SpawnUpdateHelper
  <2>1. /\ cli.pc = "recorded" /\ cli'.pc = "idle" /\ helper' = "waiting"
        /\ cli'.previous = cli.previous /\ cli'.target = cli.target
        /\ mixed' = (mixed \/ Newer(cli.previous, cli.target))
        /\ UNCHANGED <<db, bundle, daemon, backup>>
    BY <1>0, <1>8 DEF SpawnUpdateHelper, files, Installs
  <2>2. QED
    BY <1>0, <2>1 DEF Fits, Reported, Backed, InScript
<1>9. QED
  BY <1>1, <1>2, <1>3, <1>4, <1>5, <1>6, <1>7, <1>8 DEF InstallNext

LEMMA FitsScript == Typed /\ BundlesInHand /\ Fits /\ HelperNext => Fits'
<1> SUFFICES ASSUME Typed, BundlesInHand, Fits, HelperNext
             PROVE  Fits'
  OBVIOUS
<1> USE DEF Helper
<1>0. /\ db \in Database /\ helper \in InScript \cup {"idle", "dead"}
      /\ cli.pc # "idle" => helper \in {"idle", "dead"}
      /\ daemon # None => daemon.version \in Known
  BY DEF Typed, Daemons
<1>1. ASSUME NEW d \in Killed
      PROVE  /\ d.schema = db.schema
             /\ d.status = "stopped" \/ d = db
  BY <1>0, DaemonStateSet DEF Killed
<1>2. ASSUME NEW e \in {"none", "install"}, db' = SetUpdateState(None, e)
      PROVE  SameFit
  BY <1>0, <1>2, UpdateStateSet DEF SameFit
<1>3. CASE WaitForOldAppExit
  BY <1>0, <1>3 DEF WaitForOldAppExit, Fits, Reported, Backed, InScript, files, procs, aux
<1>4. CASE KillOldApp
  <2>1. /\ helper = "waiting" /\ helper' = "killed" /\ db' \in Killed /\ daemon' = None
        /\ UNCHANGED <<mixed, bundle, backup, cli>>
    BY <1>4 DEF KillOldApp, files, aux
  <2>2. QED
    BY <1>0, <1>1, <2>1 DEF Fits, Reported, Backed, InScript
<1>5. CASE LookAgain
  <2>1. SameFit
    BY <1>2, <1>5 DEF LookAgain, SameFit
  <2>2. /\ helper = "killed" /\ helper' \in {"idle", "replacing"}
        /\ UNCHANGED <<mixed, bundle, backup, cli, daemon>>
    BY <1>5 DEF LookAgain, files, procs, aux
  <2>3. QED
    BY <1>0, <2>1, <2>2 DEF Fits, SameFit, Reported, Backed, InScript
<1>6. CASE BeginCopy
  <2>1. /\ helper = "replacing" /\ helper' = "copying" /\ bundle = cli.previous
        /\ UNCHANGED <<db, mixed, backup, cli, daemon>>
    BY <1>6 DEF BeginCopy, procs, aux, BundlesInHand
  <2>2. QED
    BY <1>0, <2>1 DEF Fits, Reported, Backed, InScript
<1>7. CASE EndCopy
  <2>1. /\ helper = "copying" /\ helper' = "opening" /\ bundle' = cli.target
        /\ UNCHANGED <<db, mixed, backup, cli, daemon>>
    BY <1>7 DEF EndCopy, procs, aux
  <2>2. ~Newer(db.schema, cli.previous) /\ ~Newer(cli.previous, cli.target)
        => ~Newer(db.schema, cli.target)
    BY <2>1, VersionsInHand, NotNewerIsTransitive DEF InScript
  <2>3. QED
    BY <1>0, <2>1, <2>2 DEF Fits, Reported, Backed, InScript
<1>8. CASE OpenTarget \/ OpenPrevious
  BY <1>0, <1>8 DEF OpenTarget, OpenPrevious, Fits, Reported, Backed, InScript, files, aux
<1>9. CASE Succeed \/ ReportRollback
  <2>1. SameFit
    BY <1>2, <1>9 DEF Succeed, ReportRollback
  <2>2. /\ helper \in {"opened", "reporting"} /\ helper' = "idle"
        /\ UNCHANGED <<mixed, bundle, backup, cli, daemon>>
    BY <1>9 DEF Succeed, ReportRollback, files, procs, aux
  <2>3. QED
    BY <1>0, <2>1, <2>2 DEF Fits, SameFit, Reported, Backed, InScript
<1>10. CASE BeginRestore
  <2>1. /\ helper = "opened" /\ helper' = "restoring" /\ db' \in Killed /\ daemon' = None
        /\ UNCHANGED <<mixed, backup, cli>>
    BY <1>10 DEF BeginRestore, aux
  <2>2. QED
    BY <1>0, <1>1, <2>1 DEF Fits, Reported, Backed, InScript
<1>11. CASE RestoreApp
  <2>1. /\ helper = "restoring" /\ helper' = "restored"
        /\ UNCHANGED <<db, mixed, backup, cli, daemon>>
    BY <1>11 DEF RestoreApp, procs, aux
  <2>2. QED
    BY <1>0, <2>1 DEF Fits, Reported, Backed, InScript
<1>12. CASE RestoreDatabase
  <2>1. /\ helper = "restored" /\ helper' = "reopening" /\ db' = backup.db
        /\ bundle = cli.previous
        /\ UNCHANGED <<bundle, mixed, backup, cli, daemon>>
    BY <1>12 DEF RestoreDatabase, files, procs, aux, BundlesInHand
  <2>2. QED
    BY <1>0, <2>1 DEF Fits, Reported, Backed, InScript
<1>13. CASE CopyFails
  <2>1. /\ helper \in {"copying", "restoring", "restored"} /\ helper' = "dead"
        /\ mixed' = (mixed \/ helper = "restored")
        /\ helper \in {"copying", "restoring"} => bundle = Torn
        /\ UNCHANGED <<db, bundle, backup, cli, daemon>>
    BY <1>13 DEF CopyFails, files, procs, BundlesInHand
  <2>2. QED
    BY <1>0, <2>1 DEF Fits, Reported, Backed, InScript
<1>14. QED
  BY <1>3, <1>4, <1>5, <1>6, <1>7, <1>8, <1>9, <1>10, <1>11, <1>12, <1>13 DEF HelperNext

-----------------------------------------------------------------------------
(* The rows. *)
LEMMA RowsAround ==
    Typed /\ RowsKept /\ (DaemonNext \/ DaemonWrites \/ DaemonChecks \/ Publish \/ OpenApp
                          \/ InstallByHand \/ MachineStops) => RowsKept'
<1> SUFFICES ASSUME Typed, RowsKept,
                    \/ DaemonNext \/ DaemonWrites \/ DaemonChecks \/ Publish \/ OpenApp
                    \/ InstallByHand \/ MachineStops
             PROVE  RowsKept'
  OBVIOUS
<1>0. db \in Database /\ (daemon # None => daemon \in Daemons /\ daemon.version \in Known)
  BY DEF Typed, Daemons
<1>1. CASE StartIfNeeded
  <2>1. /\ db'.rows = db.rows /\ daemon'.era = Era /\ UNCHANGED <<cli, helper, backup, written>>
    BY <1>0, <1>1 DEF StartIfNeeded, Database, files
  <2>2. cli.pc \in {"asked", "stopped", "copied"} \/ Backed => Updating
    BY DEF Backed, Updating, InScript
  <2>3. Updating => Era # "usual"
    BY DEF Era
  <2>4. QED
    BY <2>1, <2>2, <2>3 DEF RowsKept, Backed
<1>2. CASE DaemonReady
  <2>1. db'.rows = db.rows
    BY <1>0, <1>2, UpdateStateSet, DaemonStateSet DEF DaemonReady
  <2>2. /\ daemon # None /\ daemon'.era = daemon.era /\ daemon'.ready
        /\ UNCHANGED <<cli, helper, backup, written>>
    BY <1>0, <1>2 DEF DaemonReady, Daemons, files, aux
  <2>3. QED
    BY <2>1, <2>2 DEF RowsKept, Backed
<1>3. CASE DaemonWrites
  <2>1. /\ db'.rows = db.rows \cup {daemon.era} /\ written' = written \cup {daemon.era}
        /\ daemon # None /\ UNCHANGED <<cli, helper, backup, daemon>>
    BY <1>0, <1>3 DEF DaemonWrites, Database, files, procs
  <2>2. QED
    BY <2>1 DEF RowsKept, Backed
<1>4. CASE DaemonChecks
  <2>1. db'.rows = db.rows
    BY <1>0, <1>4, CheckStored DEF DaemonChecks
  <2>2. QED
    BY <1>4, <2>1 DEF DaemonChecks, RowsKept, Backed, files, procs, aux
<1>5. CASE DaemonStops
  <2>1. db'.rows = db.rows
    BY <1>0, <1>5, DaemonStateSet DEF DaemonStops
  <2>2. QED
    BY <1>5, <2>1 DEF DaemonStops, RowsKept, Backed, files, aux
<1>6. CASE Publish \/ OpenApp \/ InstallByHand
  BY <1>6 DEF Publish, OpenApp, InstallByHand, RowsKept, Backed, files, procs, aux
<1>7. CASE MachineStops
  <2>1. /\ daemon' = None /\ cli'.pc = "idle" /\ helper' \in {"idle", "dead"}
        /\ UNCHANGED <<db, backup, written>>
    BY <1>7 DEF MachineStops, files, Typed, Installs
  <2>2. QED
    BY <2>1 DEF RowsKept, Backed, InScript
<1>8. QED
  BY <1>1, <1>2, <1>3, <1>4, <1>5, <1>6, <1>7 DEF DaemonNext

LEMMA RowsInstall ==
    Typed /\ RowsKept /\ (PrepareReleaseInstall \/ InstallNext) => RowsKept'
<1> SUFFICES ASSUME Typed, RowsKept, PrepareReleaseInstall \/ InstallNext
             PROVE  RowsKept'
  OBVIOUS
<1>0. /\ db \in Database /\ db.pending \in Known \cup {None}
      /\ db.error \in {"none", "check", "install"}
      /\ cli \in Installs /\ backup \in Backups
      /\ cli.pc # "idle" => helper \in {"idle", "dead"}
      /\ daemon # None => daemon \in Daemons
  BY DEF Typed, Database
<1>1. CASE PrepareReleaseInstall
  <2>1. db'.rows = db.rows
    <3>1. bundle \in Known
      BY <1>1 DEF PrepareReleaseInstall, Typed
    <3>2. QED
      BY <1>1, <3>1, CheckStored DEF PrepareReleaseInstall
  <2>2. /\ helper \in {"idle", "dead"} /\ cli'.pc \in {"idle", "prepared"}
        /\ UNCHANGED <<daemon, backup, helper, written>>
    BY <1>1 DEF PrepareReleaseInstall, files, procs, aux
  <2>3. QED
    BY <2>1, <2>2 DEF RowsKept, Backed, InScript
<1>2. CASE RequestShutdownForUpdate
  <2>1. db'.rows = db.rows
    BY <1>0, <1>2, UpdateStateSet DEF RequestShutdownForUpdate
  <2>2. /\ cli.pc = "prepared" /\ cli'.pc = "asked"
        /\ UNCHANGED <<backup, helper, written>>
    BY <1>0, <1>2 DEF RequestShutdownForUpdate, files, aux, Installs
  <2>3. daemon' # None /\ daemon'.era = "usual" => daemon'.ready
    BY <1>0, <1>2 DEF RequestShutdownForUpdate, DaemonReports, Daemons
  <2>4. QED
    BY <1>0, <2>1, <2>2, <2>3 DEF RowsKept, Backed, InScript
<1>3. CASE WaitForDaemonExit
  <2>1. /\ cli.pc = "asked" /\ cli'.pc = "stopped" /\ ~(daemon # None /\ daemon.ready)
        /\ UNCHANGED <<db, backup, daemon, helper, written>>
    BY <1>0, <1>3 DEF WaitForDaemonExit, DaemonReports, files, procs, aux, Installs
  <2>2. QED
    BY <1>0, <2>1 DEF RowsKept, Backed, InScript
<1>4. CASE BackUpApp
  <2>1. /\ cli.pc = "stopped" /\ cli'.pc = "copied"
        /\ UNCHANGED <<db, daemon, helper, written>>
    BY <1>0, <1>4 DEF BackUpApp, procs, aux, Installs
  <2>2. QED
    BY <1>0, <2>1 DEF RowsKept, Backed, InScript
<1>5. CASE BackupDatabaseSnapshot
  <2>1. /\ cli.pc = "copied" /\ cli'.pc = "backedUp" /\ backup'.db = db
        /\ UNCHANGED <<db, daemon, helper, written>>
    BY <1>0, <1>5 DEF BackupDatabaseSnapshot, procs, aux, Installs, Backups
  <2>2. QED
    BY <1>0, <2>1 DEF RowsKept, Backed, InScript
<1>6. CASE RecordPendingRollback
  <2>1. db'.rows = db.rows
    BY <1>0, <1>6, UpdateStateSet DEF RecordPendingRollback, Typed
  <2>2. /\ cli.pc = "backedUp" /\ cli'.pc = "recorded"
        /\ UNCHANGED <<daemon, helper, backup, written>>
    BY <1>0, <1>6 DEF RecordPendingRollback, files, procs, aux, Installs
  <2>3. QED
    BY <1>0, <2>1, <2>2 DEF RowsKept, Backed, InScript
<1>7. CASE InstallFails
  <2>1. db'.rows = db.rows
    BY <1>0, <1>7, UpdateStateSet DEF InstallFails
  <2>2. /\ cli.pc # "idle" /\ cli'.pc = "idle"
        /\ UNCHANGED <<daemon, helper, backup, written>>
    BY <1>0, <1>7 DEF InstallFails, files, procs, aux, Installs
  <2>3. QED
    BY <1>0, <2>1, <2>2 DEF RowsKept, Backed, InScript
<1>8. CASE SpawnUpdateHelper
  <2>1. /\ cli.pc = "recorded" /\ cli'.pc = "idle"
        /\ UNCHANGED <<db, daemon, backup, written>>
    BY <1>0, <1>8 DEF SpawnUpdateHelper, files, Installs
  <2>2. QED
    BY <1>0, <2>1 DEF RowsKept, Backed, InScript
<1>9. QED
  BY <1>1, <1>2, <1>3, <1>4, <1>5, <1>6, <1>7, <1>8 DEF InstallNext

LEMMA RowsScript == Typed /\ RowsKept /\ HelperNext => RowsKept'
<1> SUFFICES ASSUME Typed, RowsKept, HelperNext
             PROVE  RowsKept'
  OBVIOUS
<1>0. db \in Database /\ (daemon # None => daemon.version \in Known)
  BY DEF Typed, Daemons
<1>1. helper \in InScript /\ helper' \in InScript \cup {"idle", "dead"} /\ cli' = cli
      /\ cli.pc = "idle"
  BY DEF HelperNext, Helper, InScript, WaitForOldAppExit, KillOldApp, LookAgain, BeginCopy, EndCopy,
         OpenTarget, Succeed, BeginRestore, RestoreApp, RestoreDatabase, OpenPrevious,
         ReportRollback, CopyFails, Typed
<1>2. backup' = backup /\ written' = written /\ daemon' \in {None, daemon}
  BY DEF HelperNext, WaitForOldAppExit, KillOldApp, LookAgain, BeginCopy, EndCopy, OpenTarget,
         Succeed, BeginRestore, RestoreApp, RestoreDatabase, OpenPrevious, ReportRollback,
         CopyFails, files, procs, aux
<1>3. db'.rows = db.rows \/ db' = backup.db
  <2>1. \A e \in {"none", "install"} : SetUpdateState(None, e).rows = db.rows
    BY <1>0, UpdateStateSet
  <2>2. \A d \in Killed : d.rows = db.rows
    BY <1>0, DaemonStateSet DEF Killed
  <2>3. QED
    BY <2>1, <2>2 DEF HelperNext, WaitForOldAppExit, KillOldApp, LookAgain, BeginCopy, EndCopy,
         OpenTarget, Succeed, BeginRestore, RestoreApp, RestoreDatabase, OpenPrevious,
         ReportRollback, CopyFails
<1>4. QED
  BY <1>1, <1>2, <1>3 DEF RowsKept, Backed

-----------------------------------------------------------------------------
LEMMA InvInit == Init => Inv
<1> SUFFICES ASSUME Init PROVE Inv
  OBVIOUS
<1>1. Typed
  BY TypedInit
<1>2. /\ cli.pc = "idle" /\ helper = "idle" /\ daemon = None /\ bundle = First
      /\ db.schema = First /\ db.status = "stopped" /\ written = {}
  BY DEF Init
<1>3. ~Newer(First, First)
  BY UpdaterAssumption, VersionsAreOrdered
<1>4. QED
  BY <1>1, <1>2, <1>3 DEF Inv, BundlesInHand, Fits, RowsKept, Reported, Backed, InScript

LEMMA InvStep == Inv /\ [Next]_vars => Inv'
<1> SUFFICES ASSUME Inv, [Next]_vars PROVE Inv'
  OBVIOUS
<1>1. CASE UNCHANGED vars
  BY <1>1 DEF Inv, Typed, BundlesInHand, Fits, RowsKept, Reported, Backed, vars, files, procs, aux
<1>2. CASE Next
  <2>1. Typed'
    BY <1>2, TypedDaemon, TypedAround, TypedInstall, TypedScript DEF Inv, Next, DaemonNext
  <2>2. BundlesInHand'
    BY <1>2, BundlesStep DEF Inv
  <2>3. Fits'
    BY <1>2, FitsAround, FitsInstall, FitsScript DEF Inv, Next
  <2>4. RowsKept'
    BY <1>2, RowsAround, RowsInstall, RowsScript DEF Inv, Next
  <2>5. QED
    BY <2>1, <2>2, <2>3, <2>4 DEF Inv
<1>3. QED
  BY <1>1, <1>2

LEMMA UpdaterInvariant == Spec => []Inv
<1>1. QED
  BY InvInit, InvStep, PTL DEF Spec

(* Versions are versions of the feed, records have their fields.           *)
THEOREM UpdaterTypeCorrect == Spec => []TypeOK
<1>1. Inv => TypeOK
  <2>1. ASSUME Inv PROVE TypeOK
    <3>1. Len(Feed) \in Nat
      BY UpdaterAssumption, LenProperties
    <3>2. QED
      BY <2>1, <3>1 DEF Inv, Typed, TypeOK, Database, Installs, Backups, Daemons, Eras
  <2>2. QED
    BY <2>1
<1>2. QED
  BY <1>1, UpdaterInvariant, PTL

(* Whatever `update install`, its script, the application, the daemons and *)
(* the machine do: no code runs on a database of a newer release, and what *)
(* was written before an update is still there after it.                   *)
THEOREM DatabaseIsKept == Spec => []DatabaseSurvives
<1>1. Inv => DatabaseSurvives
  BY DEF Inv, Fits, RowsKept, DatabaseSurvives, SchemaFits, RollbackKeepsWrites
<1>2. QED
  BY <1>1, UpdaterInvariant, PTL

LEMMA EndsDecided ==
    Inv /\ Next /\ helper \notin {"idle", "dead"} /\ helper' = "idle" =>
        /\ db'.pending = None
        /\ bundle' = IF db'.error = "none" THEN cli.target ELSE cli.previous
        /\ db'.error = "none" => db'.version = bundle' /\ (mixed \/ db'.schema = bundle')
        /\ mixed \/ ~Newer(db'.schema, bundle')
<1> SUFFICES ASSUME Inv, Next, helper \notin {"idle", "dead"}, helper' = "idle"
             PROVE  /\ db'.pending = None
                    /\ bundle' = IF db'.error = "none" THEN cli.target ELSE cli.previous
                    /\ db'.error = "none" => db'.version = bundle' /\ (mixed \/ db'.schema = bundle')
                    /\ mixed \/ ~Newer(db'.schema, bundle')
  OBVIOUS
<1>0. /\ db \in Database /\ cli.pc = "idle" /\ helper \in InScript
      /\ bundle \in Version /\ db.schema \in Version /\ db.version \in Version
  BY VersionsInHand DEF Inv, Typed
<1>1. LookAgain \/ Succeed \/ ReportRollback
  BY <1>0 DEF Next, DaemonNext, InstallNext, HelperNext, StartIfNeeded, DaemonReady, DaemonStops,
     DaemonWrites, DaemonChecks, Publish, OpenApp, InstallByHand, MachineStops,
     PrepareReleaseInstall, RequestShutdownForUpdate, WaitForDaemonExit, BackUpApp,
     BackupDatabaseSnapshot, RecordPendingRollback, InstallFails, SpawnUpdateHelper,
     WaitForOldAppExit, KillOldApp, BeginCopy, EndCopy, OpenTarget, BeginRestore, RestoreApp,
     RestoreDatabase, OpenPrevious, CopyFails, Helper
<1>2. CASE LookAgain \/ ReportRollback
  <2>1. /\ helper \in {"killed", "reporting"} /\ bundle' = bundle
        /\ db' = SetUpdateState(None, "install")
    BY <1>2 DEF LookAgain, ReportRollback, Helper, files
  <2>2. db'.pending = None /\ db'.error = "install" /\ db'.schema = db.schema
    BY <1>0, <2>1, UpdateStateSet
  <2>3. QED
    BY <2>1, <2>2 DEF Inv, BundlesInHand, Fits
<1>3. CASE Succeed
  <2>1. /\ helper = "opened" /\ bundle' = bundle /\ Healthy
        /\ db' = SetUpdateState(None, "none")
    BY <1>3 DEF Succeed, Helper, files
  <2>2. /\ db'.pending = None /\ db'.error = "none" /\ db'.schema = db.schema
        /\ db'.version = db.version
    BY <1>0, <2>1, UpdateStateSet
  <2>3. bundle = cli.target /\ db.version = bundle
    BY <2>1 DEF Inv, BundlesInHand, Healthy
  <2>4. ~mixed => ~Newer(db.schema, bundle) /\ ~Newer(db.version, db.schema)
    BY <2>1 DEF Inv, Fits, Reported, Healthy
  <2>5. ~mixed => db.schema = bundle
    BY <1>0, <2>3, <2>4, VersionsAreOrdered
  <2>6. QED
    BY <2>1, <2>2, <2>3, <2>4, <2>5
<1>4. QED
  BY <1>1, <1>2, <1>3

(* A script that ends by itself leaves the target, or the previous bundle  *)
(* with an error, on a database that fits it.                              *)
THEOREM UpdateDecided == Spec => UpdateIsDecided
<1>1. Inv /\ [Next]_vars =>
        [helper \notin {"idle", "dead"} /\ helper' = "idle" =>
          /\ db'.pending = None
          /\ bundle' = IF db'.error = "none" THEN cli.target ELSE cli.previous
          /\ db'.error = "none" => db'.version = bundle' /\ (mixed \/ db'.schema = bundle')
          /\ mixed \/ ~Newer(db'.schema, bundle')]_vars
  BY EndsDecided
<1>2. QED
  BY <1>1, UpdaterInvariant, PTL DEF Spec, UpdateIsDecided
=============================================================================
