---------------------- MODULE PlaybackCheckpoint_proofs ----------------------
EXTENDS PlaybackCheckpoint, FoldTheorems

-----------------------------------------------------------------------------
(* Sums over the sources *)

Taken(A) == CHOOSE s \in A : TRUE

\* sum[A] is the sum of f over the sources of A.
Sums(f, sum) ==
  /\ sum \in [SUBSET Sources -> Int]
  /\ \A A \in SUBSET Sources :
       sum[A] = IF A = {} THEN 0 ELSE f[Taken(A)] + sum[A \ {Taken(A)}]

LEMMA TakenIn ==
  ASSUME NEW A, A # {}
  PROVE  Taken(A) \in A
BY DEF Taken

LEMMA SumExists ==
  ASSUME NEW f \in [Sources -> Int]
  PROVE  \E sum : Sums(f, sum)
<1> DEFINE pick == [A \in SUBSET Sources |-> Taken(A)]
           step == [s \in Sources |-> [n \in Int |-> f[s] + n]]
<1>1. IsFiniteSet(Sources) BY ConstantsAssumption
<1>2. \A A \in SUBSET Sources : A # {} => pick[A] \in A BY TakenIn
<1>3. step \in [Sources -> [Int -> Int]] OBVIOUS
<1>4. 0 \in Int OBVIOUS
<1> HIDE DEF pick, step
<1>5. PICK sum : IsFold(Sources, Int, 0, pick, step, sum)
  BY <1>1, <1>2, <1>3, <1>4, FoldExists
<1>6. sum \in [SUBSET Sources -> Int] BY <1>5 DEF IsFold
<1>7. ASSUME NEW A \in SUBSET Sources
      PROVE  sum[A] = IF A = {} THEN 0 ELSE f[Taken(A)] + sum[A \ {Taken(A)}]
  <2>1. CASE A = {} BY <1>5, <2>1 DEF IsFold
  <2>2. CASE A # {}
    <3>1. sum[A] = step[pick[A]][sum[A \ {pick[A]}]] BY <1>5, <2>2 DEF IsFold
    <3>2. pick[A] = Taken(A) /\ Taken(A) \in Sources BY <2>2, TakenIn DEF pick
    <3>3. sum[A \ {Taken(A)}] \in Int BY <1>6
    <3> QED BY <2>2, <3>1, <3>2, <3>3 DEF step
  <2> QED BY <2>1, <2>2
<1> QED BY <1>6, <1>7 DEF Sums

\* The function that the fold of the community modules defines is that sum.
LEMMA RecursionSums ==
  ASSUME NEW f \in [Sources -> Int],
         NEW sum, sum = [A \in SUBSET Sources |->
                           IF A = {} THEN 0 ELSE f[Taken(A)] + sum[A \ {Taken(A)}]]
  PROVE  Sums(f, sum)
<1> DEFINE T == {A \in SUBSET Sources : sum[A] \in Int}
<1>1. \A A \in SUBSET Sources :
        sum[A] = IF A = {} THEN 0 ELSE f[Taken(A)] + sum[A \ {Taken(A)}]
  OBVIOUS
<1>2. ASSUME NEW A \in SUBSET Sources, \A x \in A : A \ {x} \in T PROVE A \in T
  <2>1. CASE A = {} BY <1>1, <2>1
  <2>2. CASE A # {}
    <3>1. Taken(A) \in A /\ f[Taken(A)] \in Int BY <2>2, TakenIn
    <3>2. sum[A \ {Taken(A)}] \in Int BY <1>2, <3>1
    <3>3. sum[A] = f[Taken(A)] + sum[A \ {Taken(A)}] BY <1>1, <2>2
    <3>4. sum[A] \in Int BY <3>1, <3>2, <3>3
    <3> QED BY <3>4
  <2> QED BY <2>1, <2>2
<1> HIDE DEF T
<1>3. \A A \in SUBSET Sources : A \in T BY <1>2, SubsetsHave, ConstantsAssumption
<1>4. \A A \in SUBSET Sources : sum[A] \in Int BY <1>3 DEF T
<1> QED BY <1>1, <1>4 DEF Sums

ChosenSum(f) ==
  CHOOSE sum : sum = [A \in SUBSET Sources |->
                        IF A = {} THEN 0 ELSE f[Taken(A)] + sum[A \ {Taken(A)}]]
SumOf(f) == ChosenSum(f)[Sources]

LEMMA SumOfSums ==
  ASSUME NEW f \in [Sources -> Int]
  PROVE  Sums(f, ChosenSum(f))
<1> DEFINE Rec(sum) == [A \in SUBSET Sources |->
                          IF A = {} THEN 0 ELSE f[Taken(A)] + sum[A \ {Taken(A)}]]
           chosen == ChosenSum(f)
<1>1. PICK sum : Sums(f, sum) BY SumExists
<1>2. sum = Rec(sum) BY <1>1 DEF Sums
<1>3. chosen = Rec(chosen) BY <1>2 DEF ChosenSum
<1> HIDE DEF chosen
<1>4. Sums(f, chosen) BY <1>3, RecursionSums
<1> QED BY <1>4 DEF chosen

\* Two sums whose terms differ at one source.
LEMMA SumChange ==
  ASSUME NEW f \in [Sources -> Int], NEW g \in [Sources -> Int], NEW a, NEW b,
         Sums(f, a), Sums(g, b), NEW s,
         \A t \in Sources : t # s => f[t] = g[t]
  PROVE  /\ a[Sources] \in Int /\ b[Sources] \in Int
         /\ a[Sources] = b[Sources] + (IF s \in Sources THEN f[s] - g[s] ELSE 0)
<1> DEFINE T == {A \in SUBSET Sources : a[A] = b[A] + (IF s \in A THEN f[s] - g[s] ELSE 0)}
<1>1. \A A \in SUBSET Sources : a[A] \in Int /\ b[A] \in Int BY DEF Sums
<1>2. ASSUME NEW A \in SUBSET Sources, \A x \in A : A \ {x} \in T PROVE A \in T
  <2>1. CASE A = {}
    <3>1. a[A] = 0 /\ b[A] = 0 BY <2>1 DEF Sums
    <3>2. s \notin A BY <2>1
    <3>3. a[A] = b[A] + (IF s \in A THEN f[s] - g[s] ELSE 0) BY <3>1, <3>2
    <3> QED BY <3>3
  <2>2. CASE A # {}
    <3> DEFINE x == Taken(A)
               B == A \ {x}
    <3>1. x \in A /\ x \in Sources BY <2>2, TakenIn
    <3>2. a[A] = f[x] + a[B] /\ b[A] = g[x] + b[B] BY <2>2 DEF Sums
    <3>3. a[B] = b[B] + (IF s \in B THEN f[s] - g[s] ELSE 0) BY <1>2, <3>1
    <3>4. a[B] \in Int /\ b[B] \in Int BY <1>1
    <3>5. s \in B <=> s \in A /\ x # s OBVIOUS
    <3> HIDE DEF x, B
    <3>6. CASE x = s BY <3>1, <3>2, <3>3, <3>4, <3>5, <3>6
    <3>7. CASE x # s BY <3>1, <3>2, <3>3, <3>4, <3>5, <3>7
    <3> QED BY <3>6, <3>7
  <2> QED BY <2>1, <2>2
<1> HIDE DEF T
<1>3. \A A \in SUBSET Sources : A \in T BY <1>2, SubsetsHave, ConstantsAssumption
<1> QED BY <1>1, <1>3 DEF T

LEMMA SumsAgree ==
  ASSUME NEW f \in [Sources -> Int], NEW a, NEW b, Sums(f, a), Sums(f, b)
  PROVE  a[Sources] = b[Sources]
<1>1. /\ a[Sources] \in Int /\ b[Sources] \in Int
      /\ a[Sources] = b[Sources] + (IF Nobody \in Sources THEN f[Nobody] - f[Nobody] ELSE 0)
  BY SumChange
<1> QED BY <1>1, ConstantsAssumption

LEMMA SumDiffers ==
  ASSUME NEW f \in [Sources -> Int], NEW g \in [Sources -> Int], NEW s,
         \A t \in Sources : t # s => f[t] = g[t]
  PROVE  /\ SumOf(f) \in Int /\ SumOf(g) \in Int
         /\ SumOf(f) = SumOf(g) + (IF s \in Sources THEN f[s] - g[s] ELSE 0)
<1>1. Sums(f, ChosenSum(f)) /\ Sums(g, ChosenSum(g)) BY SumOfSums
<1> QED BY <1>1, SumChange DEF SumOf

LEMMA HeardIsSum == TotalHeard = SumOf(heard) /\ TotalHeard' = SumOf(heard')
<1>1. TotalHeard = SumOf(heard)
  BY DEF TotalHeard, MapThenSumSet, MapThenFoldSet, Taken, SumOf, ChosenSum
<1>2. TotalHeard' = SumOf(heard')
  BY DEF TotalHeard, MapThenSumSet, MapThenFoldSet, Taken, SumOf, ChosenSum
<1> QED BY <1>1, <1>2

ListenedBy(docs) == [s \in Sources |-> Listened(docs, s)]

LEMMA ListenedIsSum ==
  ASSUME NEW docs, \A s \in Sources : Listened(docs, s) \in Nat
  PROVE  ListenedBy(docs) \in [Sources -> Int] /\ TotalListened(docs) = SumOf(ListenedBy(docs))
<1> DEFINE f == ListenedBy(docs)
           Rec(sum) == [A \in SUBSET Sources |->
                          IF A = {} THEN 0 ELSE Listened(docs, Taken(A)) + sum[A \ {Taken(A)}]]
           chosen == CHOOSE sum : sum = Rec(sum)
<1>1. TotalListened(docs) = chosen[Sources]
  BY DEF TotalListened, MapThenSumSet, MapThenFoldSet, Taken
<1>2. f \in [Sources -> Int] BY DEF ListenedBy
<1>3. \A A \in SUBSET Sources : A # {} => f[Taken(A)] = Listened(docs, Taken(A))
  BY TakenIn DEF ListenedBy
<1> HIDE DEF f
<1>4. Sums(f, ChosenSum(f)) BY <1>2, SumOfSums
<1>5. ChosenSum(f) = Rec(ChosenSum(f)) BY <1>3, <1>4 DEF Sums
<1>6. chosen = Rec(chosen) BY <1>5
<1> HIDE DEF chosen
<1>7. chosen = [A \in SUBSET Sources |->
                  IF A = {} THEN 0 ELSE f[Taken(A)] + chosen[A \ {Taken(A)}]]
  BY <1>3, <1>6
<1>8. Sums(f, chosen) BY <1>2, <1>7, RecursionSums
<1>9. chosen[Sources] = SumOf(f) BY <1>2, <1>4, <1>8, SumsAgree DEF SumOf
<1>10. TotalListened(docs) = SumOf(f) BY <1>1, <1>9
<1> QED BY <1>2, <1>10 DEF f

-----------------------------------------------------------------------------
(* The documents *)

RowsOrNone == Rows \cup {NoRow}

LEMMA RowAt ==
  ASSUME NEW r \in RowsOrNone
  PROVE  r.at \in Int /\ -1 <= r.at /\ r.at <= MaxClock /\ (r.at = -1 => r = NoRow)
<1>1. CASE r \in Rows BY <1>1, ConstantsAssumption DEF Rows
<1>2. CASE r = NoRow BY <1>2, ConstantsAssumption DEF NoRow
<1> QED BY <1>1, <1>2 DEF RowsOrNone

LEMMA DocumentParts ==
  ASSUME NEW d \in Documents
  PROVE  /\ d.progress \in [Items -> RowsOrNone] /\ d.statistics \in [Sources -> Nat]
         /\ d.pending.item \in Items \cup {Nobody} /\ d.pending.row \in RowsOrNone
         /\ d.pending.source \in Sources \cup {Nobody} /\ d.pending.total \in Nat
         /\ \A i \in Items : d.progress[i] \in RowsOrNone /\ d.progress[i].at \in Int
         /\ d.pending.row.at \in Int
<1>1. /\ d.progress \in [Items -> RowsOrNone] /\ d.statistics \in [Sources -> Nat]
      /\ d.pending.item \in Items \cup {Nobody} /\ d.pending.row \in RowsOrNone
      /\ d.pending.source \in Sources \cup {Nobody} /\ d.pending.total \in Nat
  BY DEF Documents, RowsOrNone
<1> QED BY <1>1, RowAt

LEMMA ReadTypes ==
  ASSUME NEW d \in Documents
  PROVE  /\ \A i \in Items : Progress(d, i) \in RowsOrNone /\ Progress(d, i).at \in Int
         /\ \A s \in Sources : Listened(d, s) \in Nat
         /\ MergedProgress(d) \in [Items -> RowsOrNone]
         /\ MergedStatistics(d) \in [Sources -> Nat]
<1>1. ASSUME NEW i \in Items PROVE Progress(d, i) \in RowsOrNone
  BY DocumentParts DEF Progress
<1>2. ASSUME NEW s \in Sources PROVE Listened(d, s) \in Nat
  BY DocumentParts DEF Listened, Later
<1> QED BY <1>1, <1>2, RowAt DEF MergedProgress, MergedStatistics

\* The three ways a write changes the documents.
PutProgress(e, d, new) ==
  e \in Documents /\ e.progress = new /\ e.statistics = d.statistics /\ e.pending = d.pending
PutStatistics(e, d, new) ==
  e \in Documents /\ e.progress = d.progress /\ e.statistics = new /\ e.pending = d.pending
PutPending(e, d, new) ==
  e \in Documents /\ e.progress = d.progress /\ e.statistics = d.statistics /\ e.pending = new

Checkpoints == [item : Items \cup {Nobody}, row : RowsOrNone,
                source : Sources \cup {Nobody}, total : Nat]

LEMMA Puts ==
  ASSUME NEW d \in Documents, NEW new
  PROVE  /\ new \in [Items -> RowsOrNone] => PutProgress([d EXCEPT !["progress"] = new], d, new)
         /\ new \in [Sources -> Nat] => PutStatistics([d EXCEPT !["statistics"] = new], d, new)
         /\ new \in Checkpoints => PutPending([d EXCEPT !["pending"] = new], d, new)
BY DEF Documents, PutProgress, PutStatistics, PutPending, Checkpoints, RowsOrNone

LEMMA NoPendingType == NoPending \in Checkpoints
BY DEF NoPending, Checkpoints, RowsOrNone

\* The pending checkpoint is never older than the published row it will replace.
Newest(docs) ==
  \A i \in Items : docs.pending.item = i =>
    /\ i \notin Live /\ docs.pending.row \in Rows
    /\ docs.pending.row.at >= docs.progress[i].at

\* No row is later than the clock.
Past(docs, now) ==
  /\ docs.pending.row.at <= now
  /\ \A i \in Items : docs.progress[i].at <= now

\* What the rows on disk d may be when the store remembers m: a write that
\* reported an error has published what the store still holds, or a checkpoint
\* that replaces it.
RowsFollow(d, m) ==
  /\ Newest(d)
  /\ \A i \in Items :
       /\ m.progress[i].at <= d.progress[i].at
       /\ d.progress[i].at <= Progress(m, i).at
       /\ d.pending.item = i => Progress(m, i).at <= d.pending.row.at
       /\ d.pending.item # i => m.pending.item # i \/ Progress(m, i) = m.progress[i]

\* The same of the seconds, of which waiting ones the store has not acknowledged.
SecondsFollow(d, m, waiting) ==
  \A s \in Sources :
    /\ m.statistics[s] <= d.statistics[s]
    /\ d.statistics[s] <= Listened(m, s)
    /\ Listened(m, s) <= Listened(d, s)
    /\ Listened(d, s) <= Listened(m, s) + (IF d.pending.source = s THEN waiting ELSE 0)

\* Both read the same.
Same(e, d) ==
  /\ \A i \in Items : Progress(e, i) = Progress(d, i)
  /\ \A s \in Sources : Listened(e, s) = Listened(d, s)

LEMMA SameMerge ==
  ASSUME NEW e, NEW d, Same(e, d)
  PROVE  MergedProgress(e) = MergedProgress(d) /\ MergedStatistics(e) = MergedStatistics(d)
BY DEF Same, MergedProgress, MergedStatistics

LEMMA ProgressIsPast ==
  ASSUME NEW d, NEW now, Past(d, now), NEW i \in Items
  PROVE  Progress(d, i).at <= now
BY DEF Past, Progress

LEMMA NewestProgress ==
  ASSUME NEW d \in Documents, Newest(d), NEW i \in Items
  PROVE  /\ d.progress[i].at <= Progress(d, i).at
         /\ d.pending.item = i => Progress(d, i) = d.pending.row
         /\ d.pending.item # i => Progress(d, i) = d.progress[i]
BY DocumentParts DEF Newest, Progress

\* Publishing the rows of the checkpoint.
LEMMA ProgressPublished ==
  ASSUME NEW d \in Documents, NEW m \in Documents, NEW waiting \in Nat, NEW now \in Nat,
         Newest(m), RowsFollow(d, m), SecondsFollow(d, m, waiting),
         Past(d, now), Past(m, now),
         NEW e, PutProgress(e, d, MergedProgress(m)),
         NEW n, PutProgress(n, m, MergedProgress(m))
  PROVE  /\ Same(n, m) /\ Newest(n) /\ MergedProgress(n) = n.progress
         /\ RowsFollow(e, m) /\ RowsFollow(e, n)
         /\ SecondsFollow(e, m, waiting) /\ SecondsFollow(e, n, waiting)
         /\ Past(e, now) /\ Past(n, now)
<1> DEFINE P(i) == Progress(m, i)
<1>1. /\ e \in Documents /\ n \in Documents
      /\ e.statistics = d.statistics /\ e.pending = d.pending
      /\ n.statistics = m.statistics /\ n.pending = m.pending
      /\ e.progress = MergedProgress(m) /\ n.progress = MergedProgress(m)
  BY DEF PutProgress
<1>2. \A i \in Items : e.progress[i] = P(i) /\ n.progress[i] = P(i)
  BY <1>1 DEF MergedProgress
<1>3. ASSUME NEW i \in Items PROVE Progress(n, i) = P(i)
  BY <1>1, <1>2, NewestProgress DEF Progress
<1>4. \A s \in Sources : Listened(n, s) = Listened(m, s) /\ Listened(e, s) = Listened(d, s)
  BY <1>1 DEF Listened
<1>5. Same(n, m) BY <1>3, <1>4 DEF Same
<1>6. MergedProgress(n) = n.progress
  BY <1>1, <1>3 DEF MergedProgress
<1>7. \A i \in Items : P(i).at \in Int /\ d.pending.row.at \in Int /\ m.pending.row.at \in Int
  BY ReadTypes, DocumentParts
<1>8. Newest(n)
  BY <1>1, <1>2, <1>7, NewestProgress DEF Newest
<1>9. Newest(e)
  BY <1>1, <1>2, <1>7 DEF Newest, RowsFollow
<1>10. Past(e, now) /\ Past(n, now)
  BY <1>1, <1>2, ProgressIsPast DEF Past
<1>11. RowsFollow(e, m)
  BY <1>1, <1>2, <1>7, <1>9, NewestProgress DEF RowsFollow
<1>12. RowsFollow(e, n)
  BY <1>1, <1>2, <1>3, <1>7, <1>9 DEF RowsFollow
<1>13. SecondsFollow(e, m, waiting) /\ SecondsFollow(e, n, waiting)
  BY <1>1, <1>4 DEF SecondsFollow
<1> QED BY <1>5, <1>6, <1>8, <1>10, <1>11, <1>12, <1>13

\* Publishing its total.
LEMMA StatisticsPublished ==
  ASSUME NEW d \in Documents, NEW m \in Documents, NEW waiting \in Nat, NEW now \in Nat,
         Newest(m), RowsFollow(d, m), SecondsFollow(d, m, waiting),
         Past(d, now), Past(m, now),
         NEW e, PutStatistics(e, d, MergedStatistics(m)),
         NEW n, PutStatistics(n, m, MergedStatistics(m))
  PROVE  /\ Same(n, m) /\ Newest(n) /\ MergedStatistics(n) = n.statistics
         /\ n.progress = m.progress
         /\ RowsFollow(e, m) /\ RowsFollow(e, n)
         /\ SecondsFollow(e, m, waiting) /\ SecondsFollow(e, n, waiting)
         /\ Past(e, now) /\ Past(n, now)
<1> DEFINE L(s) == Listened(m, s)
<1>1. /\ e \in Documents /\ n \in Documents
      /\ e.progress = d.progress /\ e.pending = d.pending
      /\ n.progress = m.progress /\ n.pending = m.pending
      /\ e.statistics = MergedStatistics(m) /\ n.statistics = MergedStatistics(m)
  BY DEF PutStatistics
<1>2. \A s \in Sources : e.statistics[s] = L(s) /\ n.statistics[s] = L(s)
  BY <1>1 DEF MergedStatistics
<1>3. \A s \in Sources : /\ L(s) \in Nat /\ Listened(d, s) \in Nat
                         /\ m.statistics[s] \in Nat /\ d.statistics[s] \in Nat
  BY ReadTypes, DocumentParts
<1>4. m.pending.total \in Nat /\ d.pending.total \in Nat BY DocumentParts
<1>5. \A s \in Sources : Listened(n, s) = L(s)
  BY <1>1, <1>2, <1>3, <1>4 DEF Listened, Later
<1>6. \A i \in Items : Progress(n, i) = Progress(m, i)
  BY <1>1 DEF Progress
<1>7. Same(n, m) BY <1>5, <1>6 DEF Same
<1>8. MergedStatistics(n) = n.statistics
  BY <1>1, <1>5 DEF MergedStatistics
<1>9. /\ Newest(n) /\ RowsFollow(e, m) /\ RowsFollow(e, n)
      /\ Past(e, now) /\ Past(n, now)
  BY <1>1, <1>6 DEF Newest, RowsFollow, Past
<1>10. ASSUME NEW s \in Sources
       PROVE  /\ m.statistics[s] <= L(s)
              /\ L(s) <= Listened(e, s)
              /\ Listened(e, s) <= L(s) + (IF e.pending.source = s THEN waiting ELSE 0)
  BY <1>1, <1>2, <1>3, <1>4 DEF SecondsFollow, Listened, Later
<1>11. SecondsFollow(e, m, waiting)
  BY <1>2, <1>3, <1>10 DEF SecondsFollow
<1>12. SecondsFollow(e, n, waiting)
  BY <1>2, <1>3, <1>5, <1>10 DEF SecondsFollow
<1> QED BY <1>1, <1>7, <1>8, <1>9, <1>11, <1>12

\* Clearing a checkpoint that the documents already tell.
LEMMA CheckpointCleared ==
  ASSUME NEW d \in Documents, NEW m \in Documents, NEW waiting \in Nat, NEW now \in Nat,
         Newest(m), RowsFollow(d, m), SecondsFollow(d, m, waiting),
         Past(d, now), Past(m, now),
         MergedProgress(m) = m.progress, MergedStatistics(m) = m.statistics,
         NEW e, PutPending(e, d, NoPending), NEW n, PutPending(n, m, NoPending)
  PROVE  /\ Same(n, m) /\ Newest(n)
         /\ RowsFollow(e, m) /\ RowsFollow(e, n)
         /\ SecondsFollow(e, m, waiting) /\ SecondsFollow(e, n, waiting)
         /\ Past(e, now) /\ Past(n, now)
<1>1. /\ e \in Documents /\ n \in Documents
      /\ e.progress = d.progress /\ e.statistics = d.statistics
      /\ n.progress = m.progress /\ n.statistics = m.statistics
      /\ e.pending.item = Nobody /\ n.pending.item = Nobody
      /\ e.pending.source = Nobody /\ n.pending.source = Nobody
      /\ e.pending.row.at = -1 /\ n.pending.row.at = -1
  BY DEF PutPending, NoPending, NoRow
<1>2. \A i \in Items : Progress(m, i) = m.progress[i]
  BY DEF MergedProgress
<1>3. \A s \in Sources : Listened(m, s) = m.statistics[s]
  BY DEF MergedStatistics
<1>4. \A i \in Items : Progress(n, i) = m.progress[i] /\ i # Nobody
  BY <1>1, ConstantsAssumption DEF Progress
<1>5. \A s \in Sources : /\ Listened(n, s) = m.statistics[s] /\ s # Nobody
                         /\ Listened(e, s) = d.statistics[s]
                         /\ m.statistics[s] \in Nat /\ d.statistics[s] \in Nat
  BY <1>1, DocumentParts, ConstantsAssumption DEF Listened
<1>6. Same(n, m) BY <1>2, <1>3, <1>4, <1>5 DEF Same
<1>7. Newest(n) /\ Newest(e) BY <1>1, <1>4 DEF Newest
<1>8. RowsFollow(e, m) /\ RowsFollow(e, n)
  BY <1>1, <1>2, <1>4, <1>7 DEF RowsFollow
<1>9. SecondsFollow(e, m, waiting) /\ SecondsFollow(e, n, waiting)
  BY <1>1, <1>3, <1>5 DEF SecondsFollow
<1>10. Past(e, now) /\ Past(n, now)
  BY <1>1 DEF Past
<1> QED BY <1>6, <1>7, <1>8, <1>9, <1>10

\* The listened totals of two documents that differ at one source.
LEMMA ListenedDiffers ==
  ASSUME NEW e \in Documents, NEW d \in Documents, NEW s,
         \A t \in Sources : t # s => Listened(e, t) = Listened(d, t)
  PROVE  /\ TotalListened(e) \in Int /\ TotalListened(d) \in Int
         /\ TotalListened(e) =
              TotalListened(d) + (IF s \in Sources THEN Listened(e, s) - Listened(d, s) ELSE 0)
<1> DEFINE f == ListenedBy(e)
           g == ListenedBy(d)
<1>1. /\ f \in [Sources -> Int] /\ TotalListened(e) = SumOf(f)
      /\ g \in [Sources -> Int] /\ TotalListened(d) = SumOf(g)
  BY ReadTypes, ListenedIsSum
<1>2. \A t \in Sources : f[t] = Listened(e, t) /\ g[t] = Listened(d, t)
  BY DEF ListenedBy
<1> HIDE DEF f, g
<1>3. /\ SumOf(f) \in Int /\ SumOf(g) \in Int
      /\ SumOf(f) = SumOf(g) + (IF s \in Sources THEN f[s] - g[s] ELSE 0)
  BY <1>1, <1>2, SumDiffers
<1> QED BY <1>1, <1>2, <1>3

LEMMA SameTotal ==
  ASSUME NEW e \in Documents, NEW d \in Documents, Same(e, d)
  PROVE  TotalListened(e) = TotalListened(d)
<1>1. \A t \in Sources : t # Nobody => Listened(e, t) = Listened(d, t) BY DEF Same
<1>2. /\ TotalListened(e) \in Int /\ TotalListened(d) \in Int
      /\ TotalListened(e) = TotalListened(d) +
           (IF Nobody \in Sources THEN Listened(e, Nobody) - Listened(d, Nobody) ELSE 0)
  BY <1>1, ListenedDiffers
<1> QED BY <1>2, ConstantsAssumption

-----------------------------------------------------------------------------
(* The call in progress *)

Ops == [step : {"idle", "progress", "statistics", "clear", "save", "saved", "return"},
        why : {"none", "save", "publish", "start"}, item : Items \cup {Nobody},
        row : RowsOrNone, target : Nat, seconds : Nat, publish : BOOLEAN,
        then : {"none", "play", "stop", "eof", "exit"}, next : Items \cup {Nobody}]

Flushing == {"progress", "statistics", "clear"}

\* A save that is still to be written: it has a row that is not older than what
\* the store tells, and a total that counts its own seconds once.
SaveSound(o, m, waiting) ==
  /\ o.item \in Items /\ o.row \in Rows
  /\ o.item \notin Live => Progress(m, o.item).at <= o.row.at
  /\ o.seconds <= waiting
  /\ o.target = Listened(m, SourceOf[o.item]) + o.seconds

\* What the steps of a call o may rely on when the store remembers m.
OpSound(o, m, waiting) ==
  /\ o.step \in Flushing \cup {"save"} /\ o.why = "save" => SaveSound(o, m, waiting)
  /\ o.step = "save" =>
       /\ o.why = "save"
       /\ o.item \notin Live => m.pending.item \in {Nobody, o.item}
       /\ o.seconds > 0 => m.pending.source \in {Nobody, SourceOf[o.item]}
  /\ o.step \in {"statistics", "clear"} => MergedProgress(m) = m.progress
  /\ o.step = "clear" => MergedStatistics(m) = m.statistics
  /\ o.step \in Flushing => o.why # "none"
  /\ o.step = "idle" \/ o.why = "start" => o.then = "none"

LEMMA IdleSound ==
  ASSUME NEW m, NEW waiting
  PROVE  IdleOp \in Ops /\ OpSound(IdleOp, m, waiting)
BY DEF IdleOp, Ops, OpSound, Flushing, RowsOrNone

LEMMA FirstFlushSound ==
  ASSUME NEW m
  PROVE  /\ FirstFlush(m) \in Flushing
         /\ FirstFlush(m) \in {"statistics", "clear"} => MergedProgress(m) = m.progress
         /\ FirstFlush(m) = "clear" => MergedStatistics(m) = m.statistics
BY DEF FirstFlush, Flushing

LEMMA SavingSound ==
  ASSUME mem \in Documents, NEW i \in Items, NEW row \in Rows, NEW seconds \in Nat,
         NEW waiting \in Nat, seconds <= waiting,
         i \notin Live => Progress(mem, i).at <= row.at,
         NEW publish \in BOOLEAN, NEW then \in {"none", "play", "stop", "eof", "exit"},
         NEW next \in Items \cup {Nobody},
         NEW o, o = Saving(i, row, seconds, publish, then, next)
  PROVE  o \in Ops /\ OpSound(o, mem, waiting) /\ o.row = row /\ o.then = then
<1> DEFINE s == SourceOf[i]
           changes == \/ i \notin Live /\ mem.pending.item \notin {Nobody, i}
                      \/ seconds > 0 /\ mem.pending.source \notin {Nobody, s}
           step == IF i \in Live /\ seconds = 0 THEN "saved"
                   ELSE IF changes THEN FirstFlush(mem) ELSE "save"
           target == Listened(mem, s) + seconds
<1>1. o = [step |-> step, why |-> "save", item |-> i, row |-> row, target |-> target,
           seconds |-> seconds, publish |-> publish, then |-> then, next |-> next]
  BY DEF Saving
<1>2. target \in Nat
  BY ReadTypes, ConstantsAssumption
<1>3. step \in Flushing \cup {"save", "saved"}
  BY FirstFlushSound
<1>4. row \in RowsOrNone BY DEF RowsOrNone
<1>5. step = "save" => /\ i \notin Live => mem.pending.item \in {Nobody, i}
                       /\ seconds > 0 => mem.pending.source \in {Nobody, s}
  BY FirstFlushSound DEF Flushing
<1>6. /\ step \in {"statistics", "clear"} => MergedProgress(mem) = mem.progress
      /\ step = "clear" => MergedStatistics(mem) = mem.statistics
  BY FirstFlushSound
<1> HIDE DEF step, changes
<1>7. /\ o.step = step /\ o.why = "save" /\ o.item = i /\ o.row = row /\ o.target = target
      /\ o.seconds = seconds /\ o.then = then
  BY <1>1
<1>8. o \in Ops
  BY <1>1, <1>2, <1>3, <1>4 DEF Ops, Flushing
<1>9. SaveSound(o, mem, waiting)
  BY <1>7 DEF SaveSound
<1>10. OpSound(o, mem, waiting)
  BY <1>3, <1>5, <1>6, <1>7, <1>9 DEF OpSound, Flushing
<1> QED BY <1>7, <1>8, <1>10

LEMMA RowNowIsRow ==
  ASSUME clock \in 0..MaxClock, NEW pos \in Positions
  PROVE  RowNow(pos) \in Rows /\ RowNow(pos).at = clock
BY DEF RowNow, Rows

\* persist_position, of what waits in memory or less.
LEMMA PersistSound ==
  ASSUME mem \in Documents, clock \in 0..MaxClock, Past(mem, clock),
         current \in Items \cup {Nobody}, NEW pos \in Positions,
         NEW seconds \in Nat, NEW waiting \in Nat, seconds <= waiting,
         NEW then \in {"none", "play", "stop", "eof", "exit"}, NEW next \in Items \cup {Nobody},
         PersistPosition(pos, seconds, then, next)
  PROVE  op' \in Ops /\ OpSound(op', mem, waiting) /\ op'.row.at <= clock /\ op'.then = then
<1>1. CASE current = Nobody
  <2>1. op' = [IdleOp EXCEPT !.step = "return", !.then = then]
    BY <1>1 DEF PersistPosition
  <2>2. IdleOp \in Ops BY IdleSound
  <2>3. op' \in Ops BY <2>1, <2>2 DEF Ops
  <2>4. op'.step = "return" /\ op'.why = "none" /\ op'.then = then /\ op'.row = NoRow
    BY <2>1 DEF IdleOp
  <2>5. NoRow.at <= clock BY DEF NoRow
  <2> QED BY <2>3, <2>4, <2>5 DEF OpSound, Flushing
<1>2. CASE current # Nobody
  <2>1. op' = Saving(current, RowNow(pos), seconds, TRUE, then, next)
    BY <1>2 DEF PersistPosition
  <2>2. current \in Items BY <1>2
  <2>3. RowNow(pos) \in Rows /\ RowNow(pos).at = clock BY RowNowIsRow
  <2>4. Progress(mem, current).at <= RowNow(pos).at BY <2>2, <2>3, ProgressIsPast
  <2>5. op'.row = RowNow(pos) => op'.row.at <= clock BY <2>3
  <2>6. /\ op' \in Ops /\ OpSound(op', mem, waiting) /\ op'.row = RowNow(pos) /\ op'.then = then
    <3> DEFINE r == RowNow(pos)
               at_once == TRUE
    <3>0. at_once \in BOOLEAN OBVIOUS
    <3>1. r \in Rows /\ Progress(mem, current).at <= r.at BY <2>3, <2>4
    <3>2. op' = Saving(current, r, seconds, at_once, then, next) BY <2>1
    <3> HIDE DEF r, at_once
    <3>3. /\ op' \in Ops /\ OpSound(op', mem, waiting) /\ op'.row = r /\ op'.then = then
      BY <2>2, <3>0, <3>1, <3>2, SavingSound
    <3> QED BY <3>3 DEF r
  <2> QED BY <2>5, <2>6
<1> QED BY <1>1, <1>2

\* A save replaces the checkpoint it may replace.
LEMMA CheckpointParts ==
  ASSUME mem \in Documents, op \in Ops, unflushed \in Nat, Newest(mem),
         op.step = "save", OpSound(op, mem, unflushed)
  PROVE  /\ Checkpoint \in Checkpoints
         /\ op.item \in Live => /\ Checkpoint.item = mem.pending.item
                               /\ Checkpoint.row = mem.pending.row
         /\ op.item \notin Live => /\ Checkpoint.item = op.item /\ Checkpoint.row = op.row
                                  /\ mem.pending.item \in {Nobody, op.item}
         /\ op.seconds = 0 => /\ Checkpoint.source = mem.pending.source
                              /\ Checkpoint.total = mem.pending.total
         /\ op.seconds # 0 => /\ Checkpoint.source = SourceOf[op.item]
                              /\ Checkpoint.total = op.target
                              /\ mem.pending.source \in {Nobody, SourceOf[op.item]}
<1> DEFINE c == Checkpoint
           j == op.item
           src == SourceOf[j]
<1>1. /\ op.why = "save" /\ SaveSound(op, mem, unflushed)
      /\ j \notin Live => mem.pending.item \in {Nobody, j}
      /\ op.seconds > 0 => mem.pending.source \in {Nobody, src}
  BY DEF OpSound
<1>2. /\ j \in Items /\ op.row \in Rows /\ op.seconds \in Nat /\ op.target \in Nat
      /\ j \notin Live => Progress(mem, j).at <= op.row.at
      /\ op.seconds <= unflushed
      /\ op.target = Listened(mem, src) + op.seconds
      /\ j # Nobody /\ src \in Sources /\ src # Nobody
  BY <1>1, ConstantsAssumption DEF SaveSound, Ops
<1>3. /\ mem.pending \in Checkpoints /\ mem.pending.row.at \in Int /\ op.row.at \in Int
      /\ mem.pending.row \in RowsOrNone /\ op.row \in RowsOrNone
  BY <1>2, DocumentParts, RowAt DEF Documents, Checkpoints, RowsOrNone
<1>4. j \notin Live /\ mem.pending.item # Nobody => ~(op.row.at < mem.pending.row.at)
  BY <1>1, <1>2, <1>3, NewestProgress
<1> DEFINE row == IF j \in Live THEN mem.pending
                  ELSE [mem.pending EXCEPT !.item = j, !.row = op.row]
<1>5. c = IF op.seconds = 0 THEN row ELSE [row EXCEPT !.source = src, !.total = op.target]
  BY <1>4 DEF Checkpoint
<1>6. /\ row \in Checkpoints
      /\ j \in Live => row.item = mem.pending.item /\ row.row = mem.pending.row
      /\ j \notin Live => row.item = j /\ row.row = op.row
      /\ row.source = mem.pending.source /\ row.total = mem.pending.total
  BY <1>2, <1>3 DEF Checkpoints
<1> HIDE DEF row, c
<1>7. /\ c \in Checkpoints
      /\ j \in Live => c.item = mem.pending.item /\ c.row = mem.pending.row
      /\ j \notin Live => c.item = j /\ c.row = op.row
  BY <1>2, <1>5, <1>6 DEF Checkpoints
<1>8. /\ op.seconds = 0 => c.source = mem.pending.source /\ c.total = mem.pending.total
      /\ op.seconds # 0 => c.source = src /\ c.total = op.target
  BY <1>2, <1>5, <1>6 DEF Checkpoints
<1> QED BY <1>1, <1>2, <1>7, <1>8 DEF c

LEMMA CheckpointSaved ==
  ASSUME mem \in Documents, op \in Ops, unflushed \in Nat, clock \in Nat,
         op.step = "save", OpSound(op, mem, unflushed), op.row.at <= clock,
         NEW d \in Documents, Newest(mem), RowsFollow(d, mem), SecondsFollow(d, mem, unflushed),
         Past(d, clock), Past(mem, clock)
  PROVE  /\ Checkpoint \in Checkpoints
         /\ \A e, n : PutPending(e, d, Checkpoint) /\ PutPending(n, mem, Checkpoint) =>
              /\ Newest(n)
              /\ \A i \in Items : Progress(n, i) = IF i = op.item /\ i \notin Live
                                                   THEN op.row ELSE Progress(mem, i)
              /\ \A s \in Sources : Listened(n, s) = IF s = SourceOf[op.item]
                                                     THEN Listened(mem, s) + op.seconds
                                                     ELSE Listened(mem, s)
              /\ RowsFollow(e, mem) /\ RowsFollow(e, n)
              /\ SecondsFollow(e, mem, unflushed)
              /\ SecondsFollow(e, n, unflushed - op.seconds)
              /\ Past(e, clock) /\ Past(n, clock)
<1> DEFINE c == Checkpoint
           j == op.item
           src == SourceOf[j]
<1>1. /\ op.why = "save" /\ SaveSound(op, mem, unflushed)
      /\ j \notin Live => mem.pending.item \in {Nobody, j}
      /\ op.seconds > 0 => mem.pending.source \in {Nobody, src}
  BY DEF OpSound
<1>2. /\ j \in Items /\ op.row \in Rows /\ op.seconds \in Nat /\ op.target \in Nat
      /\ j \notin Live => Progress(mem, j).at <= op.row.at
      /\ op.seconds <= unflushed
      /\ op.target = Listened(mem, src) + op.seconds
      /\ j # Nobody /\ src \in Sources /\ src # Nobody
  BY <1>1, ConstantsAssumption DEF SaveSound, Ops
<1>3. /\ mem.pending \in Checkpoints /\ mem.pending.row.at \in Int /\ op.row.at \in Int
      /\ mem.pending.row \in RowsOrNone /\ op.row \in RowsOrNone
  BY <1>2, DocumentParts, RowAt DEF Documents, Checkpoints, RowsOrNone
<1>7. /\ c \in Checkpoints
      /\ j \in Live => c.item = mem.pending.item /\ c.row = mem.pending.row
      /\ j \notin Live => c.item = j /\ c.row = op.row
      /\ op.seconds = 0 => c.source = mem.pending.source /\ c.total = mem.pending.total
      /\ op.seconds # 0 => c.source = src /\ c.total = op.target
  BY CheckpointParts
<1> HIDE DEF c
<1>9. ASSUME NEW e, NEW n, PutPending(e, d, c), PutPending(n, mem, c)
      PROVE  /\ Newest(n)
             /\ \A i \in Items : Progress(n, i) = IF i = j /\ i \notin Live
                                                  THEN op.row ELSE Progress(mem, i)
             /\ \A s \in Sources : Listened(n, s) = IF s = src
                                                    THEN Listened(mem, s) + op.seconds
                                                    ELSE Listened(mem, s)
             /\ RowsFollow(e, mem) /\ RowsFollow(e, n)
             /\ SecondsFollow(e, mem, unflushed)
             /\ SecondsFollow(e, n, unflushed - op.seconds)
             /\ Past(e, clock) /\ Past(n, clock)
  <2>1. /\ e \in Documents /\ n \in Documents
        /\ e.progress = d.progress /\ e.statistics = d.statistics /\ e.pending = c
        /\ n.progress = mem.progress /\ n.statistics = mem.statistics /\ n.pending = c
    BY <1>9 DEF PutPending
  <2>2. \A i \in Items : /\ mem.progress[i].at \in Int /\ d.progress[i].at \in Int
                         /\ Progress(mem, i).at \in Int /\ i # Nobody
    BY DocumentParts, ReadTypes, ConstantsAssumption
  <2>3. \A i \in Items : /\ mem.progress[i].at <= d.progress[i].at
                         /\ d.progress[i].at <= Progress(mem, i).at
    BY DEF RowsFollow
  <2>4. ASSUME NEW i \in Items
        PROVE  Progress(n, i) = IF i = j /\ i \notin Live THEN op.row ELSE Progress(mem, i)
    <3>1. CASE j \in Live
      BY <1>7, <2>1, <3>1 DEF Progress
    <3>2. CASE j \notin Live /\ i = j
      BY <1>2, <1>3, <1>7, <2>1, <2>2, <2>3, <3>2 DEF Progress
    <3>3. CASE j \notin Live /\ i # j
      <4>1. mem.pending.item # i BY <1>1, <2>2, <3>3
      <4> QED BY <1>7, <2>1, <3>3, <4>1 DEF Progress
    <3> QED BY <3>1, <3>2, <3>3
  <2>5. Newest(n) /\ Newest(e)
    <3>1. CASE j \in Live
      <4>1. \A i \in Items : mem.pending.item = i =>
              /\ i \notin Live /\ mem.pending.row \in Rows
              /\ mem.pending.row.at >= d.progress[i].at
        BY <1>3, <2>2, <2>3, NewestProgress DEF Newest
      <4> QED BY <1>7, <2>1, <3>1, <4>1 DEF Newest
    <3>2. CASE j \notin Live
      BY <1>2, <1>3, <1>7, <2>1, <2>2, <2>3, <3>2 DEF Newest
    <3> QED BY <3>1, <3>2
  <2>6. RowsFollow(e, mem)
    <3>1. CASE j \in Live
      BY <1>3, <1>7, <2>1, <2>2, <2>3, <2>5, <3>1, NewestProgress DEF RowsFollow
    <3>2. CASE j \notin Live
      BY <1>1, <1>2, <1>3, <1>7, <2>1, <2>2, <2>3, <2>5, <3>2, NewestProgress DEF RowsFollow
    <3> QED BY <3>1, <3>2
  <2>7. RowsFollow(e, n)
    <3>1. CASE j \in Live
      BY <1>3, <1>7, <2>1, <2>2, <2>3, <2>4, <2>5, <3>1, NewestProgress DEF RowsFollow
    <3>2. CASE j \notin Live
      BY <1>1, <1>2, <1>3, <1>7, <2>1, <2>2, <2>3, <2>4, <2>5, <3>2, NewestProgress DEF RowsFollow
    <3> QED BY <3>1, <3>2
  <2>8. \A s \in Sources : /\ mem.statistics[s] \in Nat /\ d.statistics[s] \in Nat
                           /\ Listened(mem, s) \in Nat /\ s # Nobody
    BY DocumentParts, ReadTypes, ConstantsAssumption
  <2>9. \A s \in Sources : /\ mem.statistics[s] <= d.statistics[s]
                           /\ d.statistics[s] <= Listened(mem, s)
    BY DEF SecondsFollow
  <2>10. mem.pending.total \in Nat BY DocumentParts
  <2>11. ASSUME NEW s \in Sources
         PROVE  /\ Listened(n, s) = IF s = src THEN Listened(mem, s) + op.seconds
                                               ELSE Listened(mem, s)
                /\ Listened(e, s) = Listened(n, s)
    <3>1. CASE op.seconds = 0
      BY <1>7, <2>1, <2>8, <2>9, <2>10, <3>1 DEF Listened, Later
    <3>2. CASE op.seconds # 0 /\ s = src
      BY <1>2, <1>7, <2>1, <2>8, <2>9, <3>2 DEF Listened, Later
    <3>3. CASE op.seconds # 0 /\ s # src
      <4>1. mem.pending.source # s /\ c.source # s BY <1>1, <1>2, <1>7, <2>8, <3>3
      <4>2. Listened(mem, s) = mem.statistics[s] BY <4>1 DEF Listened
      <4> QED BY <2>1, <2>8, <2>9, <3>3, <4>1, <4>2 DEF Listened
    <3> QED BY <3>1, <3>2, <3>3
  <2>12. unflushed - op.seconds \in Nat BY <1>2
  <2>13. SecondsFollow(e, mem, unflushed)
    BY <1>2, <1>7, <2>1, <2>8, <2>9, <2>11 DEF SecondsFollow
  <2>14. SecondsFollow(e, n, unflushed - op.seconds)
    BY <1>2, <1>7, <2>1, <2>8, <2>9, <2>11, <2>12 DEF SecondsFollow
  <2>15. Past(e, clock) /\ Past(n, clock)
    BY <1>7, <2>1 DEF Past
  <2> QED BY <2>4, <2>5, <2>6, <2>7, <2>11, <2>13, <2>14, <2>15
<1> QED BY <1>7, <1>9 DEF c

-----------------------------------------------------------------------------
(* The inductive invariant *)

\* The documents on disk follow the store's copies of them: they are the same
\* where no write reported an error after it took effect.
StoreInv ==
  /\ disk \in Documents /\ mem \in Documents /\ stale \subseteq Docs
  /\ faults \in 0..MaxFaults
  /\ Newest(mem) /\ RowsFollow(disk, mem)
  /\ Past(disk, clock) /\ Past(mem, clock)
  /\ \A doc \in Docs \ stale : disk[doc] = mem[doc]
  /\ ~LateErrors => disk = mem

\* Every second played is in the store's totals, waits in memory or was lost.
SecondsInv ==
  /\ unflushed \in Nat /\ heard \in [Sources -> Nat] /\ lost \in Int
  /\ SecondsFollow(disk, mem, unflushed)
  /\ TotalListened(mem) + unflushed + lost = TotalHeard
  /\ lost >= 0

\* The store tells the row of the last save that succeeded.
SavedInv ==
  /\ acked \in [Items -> RowsOrNone] /\ tried \in [Items -> SUBSET Rows]
  /\ \A i \in Items : Progress(mem, i) = acked[i]

\* Media that is not playing yet was requested after its last save; it has no
\* call of its own but that of an exit.
BegunInv ==
  /\ phase = "up" /\ op.then # "exit" /\ current # Nobody /\ ~playing =>
       Progress(mem, current).at <= begun
  /\ op.step # "idle" /\ op.then # "exit" => playing \/ current = Nobody

ControlInv ==
  /\ phase \in {"up", "down", "closed"}
  /\ current \in Items \cup {Nobody} /\ playing \in BOOLEAN /\ begun \in 0..MaxClock
  /\ clock \in 0..MaxClock /\ crashes \in 0..MaxCrashes
  /\ begun <= clock
  /\ op \in Ops /\ op.row.at <= clock
  /\ OpSound(op, mem, unflushed)
  /\ BegunInv
  /\ phase = "closed" => mem.pending = NoPending

IInv == StoreInv /\ SecondsInv /\ SavedInv /\ ControlInv

LEMMA EmptyReads ==
  /\ Empty \in Documents
  /\ \A i \in Items : Progress(Empty, i) = NoRow
  /\ \A s \in Sources : Listened(Empty, s) = 0
<1>1. NoPending \in Checkpoints BY NoPendingType
<1>2. /\ Empty.progress = [i \in Items |-> NoRow] /\ Empty.statistics = [s \in Sources |-> 0]
      /\ Empty.pending = NoPending
  BY DEF Empty
<1>3. Empty \in Documents
  BY <1>1 DEF Empty, Documents, Checkpoints, RowsOrNone
<1>4. \A i \in Items : i # Nobody BY ConstantsAssumption
<1>5. \A s \in Sources : s # Nobody BY ConstantsAssumption
<1>6. NoPending.item = Nobody /\ NoPending.source = Nobody BY DEF NoPending
<1> QED BY <1>2, <1>3, <1>4, <1>5, <1>6 DEF Progress, Listened

\* A store that remembers what is on disk.
LEMMA FollowsItself ==
  ASSUME NEW d \in Documents, Newest(d), NEW waiting \in Nat
  PROVE  RowsFollow(d, d) /\ SecondsFollow(d, d, waiting)
<1>1. RowsFollow(d, d)
  BY DocumentParts, ReadTypes, NewestProgress DEF RowsFollow
<1>2. ASSUME NEW s \in Sources
      PROVE  /\ d.statistics[s] \in Nat /\ Listened(d, s) \in Nat
             /\ d.statistics[s] <= Listened(d, s)
  BY DocumentParts, ReadTypes DEF Listened, Later
<1>3. SecondsFollow(d, d, waiting)
  BY <1>2 DEF SecondsFollow
<1> QED BY <1>1, <1>3

LEMMA InitInv ==
  ASSUME Init
  PROVE  IInv
<1>1. /\ Empty \in Documents
      /\ \A i \in Items : Progress(Empty, i) = NoRow
      /\ \A s \in Sources : Listened(Empty, s) = 0
  BY EmptyReads
<1>2. disk = Empty /\ mem = Empty /\ stale = {} /\ faults = 0 /\ clock = 0 /\ unflushed = 0
  BY DEF Init
<1>3. /\ Empty.pending.item = Nobody /\ Empty.pending.row = NoRow
      /\ \A i \in Items : Empty.progress[i] = NoRow /\ i # Nobody
  BY ConstantsAssumption DEF Empty, NoPending
<1>4. Newest(Empty) BY <1>3 DEF Newest
<1>5. NoRow.at = -1 BY DEF NoRow
<1>6. Past(Empty, 0) BY <1>3, <1>5 DEF Past
<1>7. RowsFollow(Empty, Empty) /\ SecondsFollow(Empty, Empty, 0)
  BY <1>1, <1>4, FollowsItself
<1>8. StoreInv
  BY <1>1, <1>2, <1>4, <1>6, <1>7, ConstantsAssumption DEF StoreInv
<1>9. TotalListened(Empty) = TotalHeard /\ TotalHeard \in Int
  <2>1. heard = [s \in Sources |-> 0] BY DEF Init
  <2>2. ListenedBy(Empty) = heard BY <1>1, <2>1 DEF ListenedBy
  <2>3. TotalListened(Empty) = SumOf(ListenedBy(Empty)) BY <1>1, ListenedIsSum
  <2>4. heard \in [Sources -> Int] BY <2>1
  <2>5. SumOf(heard) \in Int BY <2>4, SumDiffers
  <2> QED BY <2>2, <2>3, <2>5, HeardIsSum
<1>10. SecondsInv
  <2>1. heard \in [Sources -> Nat] /\ lost = 0 BY DEF Init
  <2> QED BY <1>2, <1>7, <1>9, <2>1 DEF SecondsInv
<1>11. SavedInv
  <2>1. acked = [i \in Items |-> NoRow] /\ tried = [i \in Items |-> {}] BY DEF Init
  <2> QED BY <1>1, <1>2, <2>1 DEF SavedInv, RowsOrNone
<1>12. ControlInv
  <2>1. /\ phase = "up" /\ current = Nobody /\ playing = FALSE /\ begun = 0 /\ crashes = 0
        /\ op = IdleOp
    BY DEF Init
  <2>2. op \in Ops /\ OpSound(op, mem, unflushed) BY <2>1, IdleSound
  <2>3. op.row = NoRow BY <2>1 DEF IdleOp
  <2>4. op.step = "idle" BY <2>1 DEF IdleOp
  <2>5. BegunInv BY <2>1, <2>4 DEF BegunInv
  <2>6. 0 \in 0..MaxClock /\ 0 \in 0..MaxCrashes BY ConstantsAssumption
  <2>7. op.row.at <= clock BY <1>2, <1>5, <2>3
  <2>8. begun \in 0..MaxClock /\ clock \in 0..MaxClock /\ crashes \in 0..MaxCrashes
    BY <1>2, <2>1, <2>6
  <2>9. begun <= clock BY <1>2, <2>1
  <2>10. playing \in BOOLEAN BY <2>1
  <2>11. phase # "closed" /\ phase \in {"up", "down", "closed"} BY <2>1
  <2>12. current \in Items \cup {Nobody} BY <2>1
  <2> QED BY <2>2, <2>5, <2>7, <2>8, <2>9, <2>10, <2>11, <2>12 DEF ControlInv
<1> QED BY <1>8, <1>10, <1>11, <1>12 DEF IInv

-----------------------------------------------------------------------------
(* What a write, and the return of a call, preserve *)

LEMMA WriteSucceeds ==
  ASSUME StoreInv, NEW doc \in Docs, NEW new, Persist(doc, new), clock' = clock,
         [disk EXCEPT ![doc] = new] \in Documents, [mem EXCEPT ![doc] = new] \in Documents,
         Newest([mem EXCEPT ![doc] = new]),
         RowsFollow([disk EXCEPT ![doc] = new], [mem EXCEPT ![doc] = new]),
         Past([disk EXCEPT ![doc] = new], clock), Past([mem EXCEPT ![doc] = new], clock)
  PROVE  StoreInv'
<1>1. /\ disk' = [disk EXCEPT ![doc] = new] /\ mem' = [mem EXCEPT ![doc] = new]
      /\ stale' = stale /\ faults' = faults
  BY DEF Persist, Written
<1>2. DOMAIN disk = Docs /\ DOMAIN mem = Docs BY DEF StoreInv, Documents, Docs
<1>3. ASSUME NEW x \in Docs \ stale PROVE disk'[x] = mem'[x]
  BY <1>1, <1>2 DEF StoreInv
<1>4. ~LateErrors => disk' = mem' BY <1>1 DEF StoreInv
<1> QED BY <1>1, <1>3, <1>4 DEF StoreInv

LEMMA WriteFails ==
  ASSUME StoreInv, SecondsInv, NEW doc \in Docs, NEW new, NotWritten(doc, new),
         UNCHANGED <<mem, unflushed, clock, heard, lost>>,
         [disk EXCEPT ![doc] = new] \in Documents,
         RowsFollow([disk EXCEPT ![doc] = new], mem),
         SecondsFollow([disk EXCEPT ![doc] = new], mem, unflushed),
         Past([disk EXCEPT ![doc] = new], clock)
  PROVE  StoreInv' /\ SecondsInv'
<1>1. SecondsFollow(disk', mem, unflushed) => SecondsInv'
  BY HeardIsSum DEF SecondsInv
<1>2. faults' \in 0..MaxFaults
  BY ConstantsAssumption DEF StoreInv, NotWritten, Fault
<1>3. CASE UNCHANGED <<disk, stale>>
  <2>1. StoreInv' BY <1>2, <1>3 DEF StoreInv
  <2> QED BY <1>1, <1>3, <2>1 DEF SecondsInv
<1>4. CASE LateErrors /\ disk' = [disk EXCEPT ![doc] = new] /\ stale' = stale \cup {doc}
  <2>1. DOMAIN disk = Docs BY DEF StoreInv, Documents, Docs
  <2>2. ASSUME NEW x \in Docs \ stale' PROVE disk'[x] = mem'[x]
    BY <1>4, <2>1 DEF StoreInv
  <2>3. StoreInv' BY <1>2, <1>4, <2>2 DEF StoreInv
  <2> QED BY <1>1, <1>4, <2>3
<1> QED BY <1>3, <1>4 DEF NotWritten

\* The caller goes on: it plays the next item, saves once more, publishes, or is done.
LEMMA ReturnSound ==
  ASSUME StoreInv, SecondsInv, ControlInv, phase = "up", op.step # "idle",
         Return(TRUE) \/ Return(FALSE),
         UNCHANGED <<mem, unflushed, clock, crashes>>
  PROVE  ControlInv'
<1>1. /\ mem' = mem /\ unflushed' = unflushed /\ clock' = clock /\ crashes' = crashes
      /\ op \in Ops /\ mem \in Documents /\ clock \in 0..MaxClock /\ Past(mem, clock)
      /\ unflushed \in Nat
  BY DEF StoreInv, SecondsInv, ControlInv
<1>2. op.then \in {"none", "play", "stop", "eof", "exit"} /\ op.next \in Items \cup {Nobody}
  BY <1>1 DEF Ops
<1>3. /\ IdleOp \in Ops /\ OpSound(IdleOp, mem, unflushed) /\ IdleOp.row.at <= clock
      /\ IdleOp.step = "idle"
  <2>1. IdleOp.row.at = -1 /\ IdleOp.step = "idle" BY DEF IdleOp, NoRow
  <2> QED BY <1>1, <2>1, IdleSound
<1>4. CASE op.then = "play"
  <2>1. /\ current' = op.next /\ playing' = FALSE /\ begun' = clock /\ op' = IdleOp
        /\ phase' = phase
    BY <1>4 DEF Return
  <2>2. current' # Nobody => Progress(mem', current').at <= begun'
    BY <1>1, <1>2, <2>1, ProgressIsPast
  <2>3. BegunInv' BY <1>3, <2>1, <2>2 DEF BegunInv
  <2>4. begun' \in 0..MaxClock /\ begun' <= clock' BY <1>1, <2>1
  <2>5. OpSound(op', mem', unflushed') /\ op' \in Ops /\ op'.row.at <= clock'
    BY <1>1, <1>3, <2>1
  <2> QED BY <1>1, <1>2, <2>1, <2>3, <2>4, <2>5 DEF ControlInv
<1>5. CASE op.then = "stop"
  <2>1. /\ current' = Nobody /\ playing' = FALSE /\ begun' = begun /\ op' = IdleOp
        /\ phase' = phase
    BY <1>5 DEF Return
  <2> QED BY <1>1, <1>3, <2>1 DEF ControlInv, BegunInv
<1>6. CASE op.then = "eof"
  <2>1. PICK pos \in Positions : PersistPosition(pos, unflushed, "stop", Nobody)
    BY <1>6 DEF Return
  <2>2. UNCHANGED <<current, playing, begun, phase>>
    BY <1>6 DEF Return, player
  <2>3. current \in Items \cup {Nobody} /\ unflushed <= unflushed
    BY <1>1 DEF ControlInv
  <2>4. op' \in Ops /\ OpSound(op', mem, unflushed) /\ op'.row.at <= clock /\ op'.then = "stop"
    BY <1>1, <2>1, <2>3, PersistSound
  <2>5. playing \/ current = Nobody BY <1>6 DEF ControlInv, BegunInv
  <2> QED BY <1>1, <2>2, <2>4, <2>5 DEF ControlInv, BegunInv
<1>7. CASE op.then = "exit"
  <2>1. UNCHANGED <<current, playing, begun>>
    BY <1>7 DEF Return, player
  <2>2. CASE phase' = "down" /\ op' = IdleOp
    BY <1>1, <1>3, <2>1, <2>2 DEF ControlInv, BegunInv
  <2>3. CASE phase' = "closed" /\ op' = IdleOp /\ mem.pending = NoPending
    BY <1>1, <1>3, <2>1, <2>3 DEF ControlInv, BegunInv
  <2>4. CASE /\ op' = [IdleOp EXCEPT !.step = FirstFlush(mem), !.why = "publish",
                                     !.then = "exit"]
             /\ phase' = phase
    <3> DEFINE first == FirstFlush(mem)
    <3>1. /\ first \in Flushing
          /\ first \in {"statistics", "clear"} => MergedProgress(mem) = mem.progress
          /\ first = "clear" => MergedStatistics(mem) = mem.statistics
      BY FirstFlushSound
    <3> HIDE DEF first
    <3>2. op' = [IdleOp EXCEPT !.step = first, !.why = "publish", !.then = "exit"]
      BY <2>4 DEF first
    <3>3. /\ op'.step = first /\ op'.why = "publish" /\ op'.then = "exit"
          /\ op'.row = IdleOp.row
      BY <3>2 DEF IdleOp
    <3>4. op' \in Ops BY <1>3, <3>1, <3>2 DEF Ops, Flushing
    <3>5. OpSound(op', mem, unflushed) BY <3>1, <3>3 DEF OpSound, Flushing
    <3> QED BY <1>1, <1>3, <2>1, <2>4, <3>3, <3>4, <3>5 DEF ControlInv, BegunInv
  <2> QED BY <1>7, <2>2, <2>3, <2>4 DEF Return
<1>8. CASE op.then = "none"
  <2>1. op' = IdleOp /\ UNCHANGED <<current, playing, begun, phase>>
    BY <1>8 DEF Return, player
  <2>2. playing \/ current = Nobody BY <1>8 DEF ControlInv, BegunInv
  <2> QED BY <1>1, <1>3, <2>1, <2>2 DEF ControlInv, BegunInv
<1> QED BY <1>2, <1>4, <1>5, <1>6, <1>7, <1>8

LEMMA FlushFailedSound ==
  ASSUME StoreInv, SecondsInv, ControlInv, phase = "up", op.step # "idle", FlushFailed,
         UNCHANGED <<mem, unflushed, clock, crashes>>
  PROVE  ControlInv'
<1>1. CASE op.why = "start"
  <2>1. phase' = "down" /\ op' = IdleOp /\ UNCHANGED <<current, playing, begun>>
    BY <1>1 DEF FlushFailed, player
  <2>2. IdleOp \in Ops /\ OpSound(IdleOp, mem, unflushed) BY IdleSound
  <2>3. IdleOp.row.at = -1 /\ IdleOp.step = "idle" BY DEF IdleOp, NoRow
  <2>4. clock \in 0..MaxClock BY DEF ControlInv
  <2> QED BY <2>1, <2>2, <2>3, <2>4 DEF ControlInv, BegunInv
<1>2. CASE op.why # "start"
  <2>1. Return(FALSE) BY <1>2 DEF FlushFailed
  <2> QED BY <2>1, ReturnSound
<1> QED BY <1>1, <1>2

\* The call goes on, or the recovery of a new process is done.
LEMMA CallGoesOn ==
  ASSUME ControlInv, phase = "up", op.step # "idle",
         UNCHANGED <<phase, player, clock, crashes>>,
         op' \in Ops, op'.row.at <= clock, op'.then = op.then,
         op'.step = "idle" => op.then = "none",
         OpSound(op', mem', unflushed')
  PROVE  ControlInv'
<1>1. UNCHANGED <<current, playing, begun>> BY DEF player
<1>2. op.then # "exit" => playing \/ current = Nobody BY DEF ControlInv, BegunInv
<1> QED BY <1>1, <1>2 DEF ControlInv, BegunInv

LEMMA RowsKept ==
  ASSUME StoreInv, SavedInv, UNCHANGED <<acked, tried>>,
         \A i \in Items : Progress(mem', i) = Progress(mem, i)
  PROVE  SavedInv'
BY DEF SavedInv

LEMMA SecondsKept ==
  ASSUME StoreInv, SecondsInv, UNCHANGED <<unflushed, heard, lost>>,
         mem' \in Documents, Same(mem', mem), SecondsFollow(disk', mem', unflushed)
  PROVE  SecondsInv'
<1>1. TotalListened(mem') = TotalListened(mem) BY SameTotal DEF StoreInv
<1>2. TotalHeard' = TotalHeard BY HeardIsSum DEF SecondsInv
<1> QED BY <1>1, <1>2 DEF SecondsInv

-----------------------------------------------------------------------------
(* The steps of a call *)

LEMMA DocNames == "progress" \in Docs /\ "statistics" \in Docs /\ "pending" \in Docs
BY DEF Docs

LEMMA ClockIsNat == ControlInv => clock \in Nat
BY ConstantsAssumption DEF ControlInv

LEMMA FlushProgressInv ==
  ASSUME IInv, phase = "up", FlushProgress
  PROVE  IInv'
<1> DEFINE new == MergedProgress(mem)
           e == [disk EXCEPT !["progress"] = new]
           n == [mem EXCEPT !["progress"] = new]
<1>1. /\ StoreInv /\ SecondsInv /\ SavedInv /\ ControlInv
      /\ disk \in Documents /\ mem \in Documents /\ unflushed \in Nat /\ clock \in Nat
      /\ op.step = "progress" /\ op \in Ops
      /\ UNCHANGED <<clock, heard, lost, acked, tried, crashes>>
  BY ClockIsNat DEF IInv, StoreInv, SecondsInv, ControlInv, FlushProgress, history
<1>2. PutProgress(e, disk, new) /\ PutProgress(n, mem, new)
  BY <1>1, ReadTypes, Puts
<1>3. e \in Documents /\ n \in Documents BY <1>2 DEF PutProgress
<1>4. /\ Same(n, mem) /\ Newest(n) /\ MergedProgress(n) = n.progress
      /\ RowsFollow(e, mem) /\ RowsFollow(e, n)
      /\ SecondsFollow(e, mem, unflushed) /\ SecondsFollow(e, n, unflushed)
      /\ Past(e, clock) /\ Past(n, clock)
  <2>1. /\ Newest(mem) /\ RowsFollow(disk, mem) /\ SecondsFollow(disk, mem, unflushed)
        /\ Past(disk, clock) /\ Past(mem, clock)
    BY <1>1 DEF StoreInv, SecondsInv
  <2> HIDE DEF new, e, n
  <2>2. PutProgress(e, disk, MergedProgress(mem)) /\ PutProgress(n, mem, MergedProgress(mem))
    BY <1>2 DEF new
  <2> QED BY <1>1, <2>1, <2>2, ProgressPublished
<1>5. CASE /\ Persist("progress", new)
           /\ op' = [op EXCEPT !.step = IF MergedStatistics(mem) # mem.statistics
                                        THEN "statistics" ELSE "clear"]
           /\ UNCHANGED <<phase, player, unflushed>>
  <2>1. disk' = e /\ mem' = n BY <1>5 DEF Persist, Written
  <2>2. StoreInv' BY <1>1, <1>3, <1>4, <1>5, DocNames, WriteSucceeds
  <2>3. SecondsInv' BY <1>1, <1>3, <1>4, <1>5, <2>1, SecondsKept
  <2>4. SavedInv' BY <1>1, <1>4, <2>1, RowsKept DEF Same
  <2>5. ControlInv'
    <3> DEFINE step == IF MergedStatistics(mem) # mem.statistics THEN "statistics" ELSE "clear"
    <3>1. step \in {"statistics", "clear"} OBVIOUS
    <3>2. op' = [op EXCEPT !.step = step] BY <1>5
    <3>3. step = "clear" => MergedStatistics(mem) = mem.statistics OBVIOUS
    <3> HIDE DEF step
    <3>4. op' \in Ops BY <1>1, <3>1, <3>2 DEF Ops
    <3>5. /\ op'.step = step /\ op'.why = op.why /\ op'.item = op.item /\ op'.row = op.row
          /\ op'.target = op.target /\ op'.seconds = op.seconds /\ op'.then = op.then
      BY <1>1, <3>2 DEF Ops
    <3>6. op.why = "save" => SaveSound(op, mem, unflushed)
      BY <1>1 DEF ControlInv, OpSound, Flushing
    <3>7. op.why = "save" => SaveSound(op', mem', unflushed')
      BY <1>4, <1>5, <2>1, <3>5, <3>6, ConstantsAssumption DEF SaveSound, Same
    <3>8. n.statistics = mem.statistics BY <1>2 DEF PutProgress
    <3>9. MergedStatistics(n) = MergedStatistics(mem) BY <1>4, SameMerge
    <3>10. op.why # "none" /\ (op.why = "start" => op.then = "none")
      BY <1>1 DEF ControlInv, OpSound, Flushing
    <3>11. OpSound(op', mem', unflushed')
      BY <1>4, <2>1, <3>1, <3>3, <3>5, <3>7, <3>8, <3>9, <3>10 DEF OpSound, Flushing
    <3>12. op.row.at <= clock BY <1>1 DEF ControlInv
    <3> QED BY <1>1, <1>5, <3>1, <3>4, <3>5, <3>11, <3>12, CallGoesOn
  <2> QED BY <2>2, <2>3, <2>4, <2>5 DEF IInv
<1>6. CASE Failed("progress", new)
  <2>1. NotWritten("progress", new) /\ FlushFailed /\ UNCHANGED <<mem, unflushed>>
    BY <1>6 DEF Failed
  <2>2. StoreInv' /\ SecondsInv'
    BY <1>1, <1>3, <1>4, <2>1, DocNames, WriteFails
  <2>3. SavedInv' BY <1>1, <2>1, RowsKept
  <2>4. ControlInv' BY <1>1, <2>1, FlushFailedSound
  <2> QED BY <2>2, <2>3, <2>4 DEF IInv
<1> QED BY <1>5, <1>6 DEF FlushProgress

LEMMA FlushStatisticsInv ==
  ASSUME IInv, phase = "up", FlushStatistics
  PROVE  IInv'
<1> DEFINE new == MergedStatistics(mem)
           e == [disk EXCEPT !["statistics"] = new]
           n == [mem EXCEPT !["statistics"] = new]
<1>1. /\ StoreInv /\ SecondsInv /\ SavedInv /\ ControlInv
      /\ disk \in Documents /\ mem \in Documents /\ unflushed \in Nat /\ clock \in Nat
      /\ op.step = "statistics" /\ op \in Ops
      /\ UNCHANGED <<clock, heard, lost, acked, tried, crashes>>
  BY ClockIsNat DEF IInv, StoreInv, SecondsInv, ControlInv, FlushStatistics, history
<1>2. PutStatistics(e, disk, new) /\ PutStatistics(n, mem, new)
  BY <1>1, ReadTypes, Puts
<1>3. e \in Documents /\ n \in Documents BY <1>2 DEF PutStatistics
<1>4. /\ Same(n, mem) /\ Newest(n) /\ MergedStatistics(n) = n.statistics
      /\ n.progress = mem.progress
      /\ RowsFollow(e, mem) /\ RowsFollow(e, n)
      /\ SecondsFollow(e, mem, unflushed) /\ SecondsFollow(e, n, unflushed)
      /\ Past(e, clock) /\ Past(n, clock)
  <2>1. /\ Newest(mem) /\ RowsFollow(disk, mem) /\ SecondsFollow(disk, mem, unflushed)
        /\ Past(disk, clock) /\ Past(mem, clock)
    BY <1>1 DEF StoreInv, SecondsInv
  <2> HIDE DEF new, e, n
  <2>2. PutStatistics(e, disk, MergedStatistics(mem)) /\ PutStatistics(n, mem, MergedStatistics(mem))
    BY <1>2 DEF new
  <2> QED BY <1>1, <2>1, <2>2, StatisticsPublished
<1>5. CASE /\ Persist("statistics", new)
           /\ op' = [op EXCEPT !.step = "clear"]
           /\ UNCHANGED <<phase, player, unflushed>>
  <2>1. disk' = e /\ mem' = n BY <1>5 DEF Persist, Written
  <2>2. StoreInv' BY <1>1, <1>3, <1>4, <1>5, DocNames, WriteSucceeds
  <2>3. SecondsInv' BY <1>1, <1>3, <1>4, <1>5, <2>1, SecondsKept
  <2>4. SavedInv' BY <1>1, <1>4, <2>1, RowsKept DEF Same
  <2>5. ControlInv'
    <3>1. op' \in Ops BY <1>1, <1>5 DEF Ops
    <3>2. /\ op'.step = "clear" /\ op'.why = op.why /\ op'.item = op.item /\ op'.row = op.row
          /\ op'.target = op.target /\ op'.seconds = op.seconds /\ op'.then = op.then
      BY <1>1, <1>5 DEF Ops
    <3>3. op.why = "save" => SaveSound(op, mem, unflushed)
      BY <1>1 DEF ControlInv, OpSound, Flushing
    <3>4. op.why = "save" => SaveSound(op', mem', unflushed')
      BY <1>4, <1>5, <2>1, <3>2, <3>3, ConstantsAssumption DEF SaveSound, Same
    <3>5. MergedProgress(n) = n.progress
      <4>1. MergedProgress(n) = MergedProgress(mem) BY <1>4, SameMerge
      <4>2. MergedProgress(mem) = mem.progress BY <1>1 DEF ControlInv, OpSound
      <4> QED BY <1>4, <4>1, <4>2
    <3>6. op.why # "none" /\ (op.why = "start" => op.then = "none")
      BY <1>1 DEF ControlInv, OpSound, Flushing
    <3>7. OpSound(op', mem', unflushed')
      BY <1>4, <2>1, <3>2, <3>4, <3>5, <3>6 DEF OpSound, Flushing
    <3>8. op.row.at <= clock BY <1>1 DEF ControlInv
    <3> QED BY <1>1, <1>5, <3>1, <3>2, <3>7, <3>8, CallGoesOn
  <2> QED BY <2>2, <2>3, <2>4, <2>5 DEF IInv
<1>6. CASE Failed("statistics", new)
  <2>1. NotWritten("statistics", new) /\ FlushFailed /\ UNCHANGED <<mem, unflushed>>
    BY <1>6 DEF Failed
  <2>2. StoreInv' /\ SecondsInv'
    BY <1>1, <1>3, <1>4, <2>1, DocNames, WriteFails
  <2>3. SavedInv' BY <1>1, <2>1, RowsKept
  <2>4. ControlInv' BY <1>1, <2>1, FlushFailedSound
  <2> QED BY <2>2, <2>3, <2>4 DEF IInv
<1> QED BY <1>5, <1>6 DEF FlushStatistics

LEMMA FlushClearInv ==
  ASSUME IInv, phase = "up", FlushClear
  PROVE  IInv'
<1> DEFINE e == [disk EXCEPT !["pending"] = NoPending]
           n == [mem EXCEPT !["pending"] = NoPending]
<1>1. /\ StoreInv /\ SecondsInv /\ SavedInv /\ ControlInv
      /\ disk \in Documents /\ mem \in Documents /\ unflushed \in Nat /\ clock \in Nat
      /\ op.step = "clear" /\ op \in Ops
      /\ UNCHANGED <<clock, heard, lost, acked, tried, crashes>>
  BY ClockIsNat DEF IInv, StoreInv, SecondsInv, ControlInv, FlushClear, history
<1>2. PutPending(e, disk, NoPending) /\ PutPending(n, mem, NoPending)
  BY <1>1, NoPendingType, Puts
<1>3. e \in Documents /\ n \in Documents BY <1>2 DEF PutPending
<1>4. /\ Same(n, mem) /\ Newest(n)
      /\ RowsFollow(e, mem) /\ RowsFollow(e, n)
      /\ SecondsFollow(e, mem, unflushed) /\ SecondsFollow(e, n, unflushed)
      /\ Past(e, clock) /\ Past(n, clock)
  <2>1. /\ Newest(mem) /\ RowsFollow(disk, mem) /\ SecondsFollow(disk, mem, unflushed)
        /\ Past(disk, clock) /\ Past(mem, clock)
    BY <1>1 DEF StoreInv, SecondsInv
  <2>2. MergedProgress(mem) = mem.progress /\ MergedStatistics(mem) = mem.statistics
    BY <1>1 DEF ControlInv, OpSound
  <2> HIDE DEF e, n
  <2> QED BY <1>1, <1>2, <2>1, <2>2, CheckpointCleared
<1>5. CASE /\ Persist("pending", NoPending)
           /\ op' = CASE op.why = "save" -> [op EXCEPT !.step = "save"]
                      [] op.why = "publish" -> [op EXCEPT !.step = "return"]
                      [] OTHER -> IdleOp
           /\ UNCHANGED <<phase, player, unflushed>>
  <2>1. disk' = e /\ mem' = n BY <1>5 DEF Persist, Written
  <2>2. StoreInv' BY <1>1, <1>3, <1>4, <1>5, DocNames, WriteSucceeds
  <2>3. SecondsInv' BY <1>1, <1>3, <1>4, <1>5, <2>1, SecondsKept
  <2>4. SavedInv' BY <1>1, <1>4, <2>1, RowsKept DEF Same
  <2>5. ControlInv'
    <3>1. op.row.at <= clock BY <1>1 DEF ControlInv
    <3>2. CASE op.why = "save"
      <4>1. op' = [op EXCEPT !.step = "save"] BY <1>5, <3>2
      <4>2. op' \in Ops BY <1>1, <4>1 DEF Ops
      <4>3. /\ op'.step = "save" /\ op'.why = "save" /\ op'.item = op.item /\ op'.row = op.row
            /\ op'.target = op.target /\ op'.seconds = op.seconds /\ op'.then = op.then
        BY <1>1, <3>2, <4>1 DEF Ops
      <4>4. SaveSound(op, mem, unflushed)
        BY <1>1, <3>2 DEF ControlInv, OpSound, Flushing
      <4>5. SaveSound(op', mem', unflushed')
        BY <1>4, <1>5, <2>1, <4>3, <4>4, ConstantsAssumption DEF SaveSound, Same
      <4>6. n.pending.item = Nobody /\ n.pending.source = Nobody
        BY <1>2 DEF PutPending, NoPending
      <4>7. OpSound(op', mem', unflushed')
        BY <2>1, <4>3, <4>5, <4>6 DEF OpSound, Flushing
      <4> QED BY <1>1, <1>5, <3>1, <4>2, <4>3, <4>7, CallGoesOn
    <3>3. CASE op.why = "publish"
      <4>1. op' = [op EXCEPT !.step = "return"] BY <1>5, <3>3
      <4>2. op' \in Ops BY <1>1, <4>1 DEF Ops
      <4>3. op'.step = "return" /\ op'.why = "publish" /\ op'.row = op.row /\ op'.then = op.then
        BY <1>1, <3>3, <4>1 DEF Ops
      <4>4. OpSound(op', mem', unflushed') BY <4>3 DEF OpSound, Flushing
      <4> QED BY <1>1, <1>5, <3>1, <4>2, <4>3, <4>4, CallGoesOn
    <3>4. CASE op.why \notin {"save", "publish"}
      <4>1. op' = IdleOp BY <1>5, <3>4
      <4>2. op.why = "start" /\ op.then = "none"
        BY <1>1, <3>4 DEF ControlInv, OpSound, Flushing, Ops
      <4>3. IdleOp.row.at = -1 /\ IdleOp.then = "none" BY DEF IdleOp, NoRow
      <4>4. op' \in Ops /\ OpSound(op', mem', unflushed') BY <4>1, IdleSound
      <4>5. op'.row.at <= clock /\ op'.then = op.then BY <1>1, <4>1, <4>2, <4>3
      <4> QED BY <1>1, <1>5, <4>2, <4>4, <4>5, CallGoesOn
    <3> QED BY <3>2, <3>3, <3>4
  <2> QED BY <2>2, <2>3, <2>4, <2>5 DEF IInv
<1>6. CASE Failed("pending", NoPending)
  <2>1. NotWritten("pending", NoPending) /\ FlushFailed /\ UNCHANGED <<mem, unflushed>>
    BY <1>6 DEF Failed
  <2>2. StoreInv' /\ SecondsInv'
    BY <1>1, <1>3, <1>4, <2>1, DocNames, WriteFails
  <2>3. SavedInv' BY <1>1, <2>1, RowsKept
  <2>4. ControlInv' BY <1>1, <2>1, FlushFailedSound
  <2> QED BY <2>2, <2>3, <2>4 DEF IInv
<1> QED BY <1>5, <1>6 DEF FlushClear

LEMMA SaveCheckpointInv ==
  ASSUME IInv, phase = "up", SaveCheckpoint
  PROVE  IInv'
<1> DEFINE j == op.item
           e == [disk EXCEPT !["pending"] = Checkpoint]
           n == [mem EXCEPT !["pending"] = Checkpoint]
<1>1. /\ StoreInv /\ SecondsInv /\ SavedInv /\ ControlInv
      /\ disk \in Documents /\ mem \in Documents /\ unflushed \in Nat /\ clock \in Nat
      /\ op.step = "save" /\ op \in Ops
      /\ UNCHANGED <<clock, heard, lost, crashes>>
  BY ClockIsNat DEF IInv, StoreInv, SecondsInv, ControlInv, SaveCheckpoint
<1>2. /\ op.why = "save" /\ j \in Items /\ op.row \in Rows /\ op.seconds <= unflushed
      /\ op.seconds \in Nat /\ OpSound(op, mem, unflushed) /\ op.row.at <= clock
      /\ SourceOf[j] \in Sources
  BY <1>1, ConstantsAssumption DEF ControlInv, OpSound, SaveSound, Ops
<1>3. /\ Newest(mem) /\ RowsFollow(disk, mem) /\ SecondsFollow(disk, mem, unflushed)
      /\ Past(disk, clock) /\ Past(mem, clock)
  BY <1>1 DEF StoreInv, SecondsInv
<1>4. Checkpoint \in Checkpoints
  BY <1>1, <1>2, <1>3, CheckpointSaved
<1>5. PutPending(e, disk, Checkpoint) /\ PutPending(n, mem, Checkpoint)
  BY <1>1, <1>4, Puts
<1>6. e \in Documents /\ n \in Documents BY <1>5 DEF PutPending
<1>7. /\ Newest(n)
      /\ \A i \in Items : Progress(n, i) = IF i = j /\ i \notin Live
                                           THEN op.row ELSE Progress(mem, i)
      /\ \A s \in Sources : Listened(n, s) = IF s = SourceOf[j]
                                             THEN Listened(mem, s) + op.seconds
                                             ELSE Listened(mem, s)
      /\ RowsFollow(e, mem) /\ RowsFollow(e, n)
      /\ SecondsFollow(e, mem, unflushed)
      /\ SecondsFollow(e, n, unflushed - op.seconds)
      /\ Past(e, clock) /\ Past(n, clock)
  <2> HIDE DEF e, n
  <2> QED BY <1>1, <1>2, <1>3, <1>5, CheckpointSaved
<1>8. CASE /\ Persist("pending", Checkpoint)
           /\ unflushed' = unflushed - op.seconds
           /\ op' = [op EXCEPT !.step = "saved"]
           /\ IF j \in Live THEN UNCHANGED <<acked, tried>>
              ELSE acked' = [acked EXCEPT ![j] = op.row] /\ tried' = [tried EXCEPT ![j] = {}]
           /\ UNCHANGED <<phase, player>>
  <2>1. disk' = e /\ mem' = n BY <1>8 DEF Persist, Written
  <2>2. StoreInv' BY <1>1, <1>6, <1>7, <1>8, DocNames, WriteSucceeds
  <2>3. SecondsInv'
    <3>1. unflushed' \in Nat /\ unflushed = unflushed' + op.seconds BY <1>1, <1>2, <1>8
    <3>2. \A t \in Sources : t # SourceOf[j] => Listened(n, t) = Listened(mem, t) BY <1>7
    <3>3. /\ TotalListened(n) \in Int /\ TotalListened(mem) \in Int
          /\ TotalListened(n) = TotalListened(mem) +
               (IF SourceOf[j] \in Sources
                THEN Listened(n, SourceOf[j]) - Listened(mem, SourceOf[j]) ELSE 0)
      <4> HIDE DEF n
      <4> QED BY <1>1, <1>6, <3>2, ListenedDiffers
    <3>4. Listened(mem, SourceOf[j]) \in Nat BY <1>1, <1>2, ReadTypes
    <3>5. Listened(n, SourceOf[j]) = Listened(mem, SourceOf[j]) + op.seconds
      BY <1>2, <1>7
    <3>6. TotalListened(n) = TotalListened(mem) + op.seconds
      BY <1>2, <3>3, <3>4, <3>5
    <3>7. TotalHeard' = TotalHeard BY <1>1, HeardIsSum
    <3>8. TotalListened(mem') + unflushed' + lost' = TotalHeard'
      <4>1. TotalListened(mem) + unflushed + lost = TotalHeard /\ lost \in Int
        BY <1>1 DEF SecondsInv
      <4> HIDE DEF n
      <4>2. TotalListened(mem') = TotalListened(n) BY <2>1
      <4> QED BY <1>1, <1>2, <3>1, <3>3, <3>6, <3>7, <4>1, <4>2
    <3> QED BY <1>1, <1>7, <1>8, <2>1, <3>1, <3>8 DEF SecondsInv
  <2>4. SavedInv'
    <3>1. CASE j \in Live
      BY <1>1, <1>7, <1>8, <2>1, <3>1 DEF SavedInv
    <3>2. CASE j \notin Live
      <4>1. acked' = [acked EXCEPT ![j] = op.row] /\ tried' = [tried EXCEPT ![j] = {}]
        BY <1>8, <3>2
      <4>2. acked' \in [Items -> RowsOrNone] /\ tried' \in [Items -> SUBSET Rows]
        BY <1>1, <1>2, <4>1 DEF SavedInv, RowsOrNone
      <4>3. \A i \in Items : Progress(n, i) = acked'[i]
        BY <1>1, <1>2, <1>7, <3>2, <4>1 DEF SavedInv
      <4> QED BY <2>1, <4>2, <4>3 DEF SavedInv
    <3> QED BY <3>1, <3>2
  <2>5. ControlInv'
    <3>1. op' \in Ops BY <1>1, <1>8 DEF Ops
    <3>2. op'.step = "saved" /\ op'.why = "save" /\ op'.row = op.row /\ op'.then = op.then
      BY <1>1, <1>2, <1>8 DEF Ops
    <3>3. OpSound(op', mem', unflushed') BY <3>2 DEF OpSound, Flushing
    <3> QED BY <1>1, <1>2, <1>8, <3>1, <3>2, <3>3, CallGoesOn
  <2> QED BY <2>2, <2>3, <2>4, <2>5 DEF IInv
<1>9. CASE /\ Failed("pending", Checkpoint)
           /\ tried' = IF j \in Live THEN tried ELSE [tried EXCEPT ![j] = @ \cup {op.row}]
           /\ acked' = acked
  <2>1. NotWritten("pending", Checkpoint) /\ FlushFailed /\ UNCHANGED <<mem, unflushed>>
    BY <1>9 DEF Failed
  <2>2. StoreInv' /\ SecondsInv'
    BY <1>1, <1>6, <1>7, <2>1, DocNames, WriteFails
  <2>3. tried' \in [Items -> SUBSET Rows] BY <1>1, <1>2, <1>9 DEF SavedInv
  <2>4. SavedInv' BY <1>1, <1>9, <2>1, <2>3 DEF SavedInv
  <2>5. ControlInv' BY <1>1, <2>1, FlushFailedSound
  <2> QED BY <2>2, <2>4, <2>5 DEF IInv
<1> QED BY <1>8, <1>9 DEF SaveCheckpoint

\* A step that leaves the store, the seconds and the saves alone.
LEMMA RestKept ==
  ASSUME IInv, UNCHANGED <<disk, mem, stale, faults, unflushed, heard, lost, acked, tried>>,
         clock' = clock, ControlInv'
  PROVE  IInv'
<1>1. StoreInv' BY DEF IInv, StoreInv
<1>2. SecondsInv' BY HeardIsSum DEF IInv, SecondsInv
<1>3. SavedInv' BY DEF IInv, SavedInv
<1> QED BY <1>1, <1>2, <1>3 DEF IInv

LEMMA SavedStepInv ==
  ASSUME IInv, phase = "up", Saved
  PROVE  IInv'
<1>1. /\ StoreInv /\ SecondsInv /\ SavedInv /\ ControlInv /\ op.step = "saved" /\ op \in Ops
      /\ UNCHANGED <<disk, mem, stale, faults, unflushed, heard, lost, acked, tried, clock, crashes>>
  BY DEF IInv, ControlInv, Saved, store, history
<1>2. CASE /\ op' = [op EXCEPT !.step = FirstFlush(mem), !.why = "publish"]
           /\ UNCHANGED <<phase, player>>
  <2> DEFINE first == FirstFlush(mem)
  <2>1. /\ first \in Flushing
        /\ first \in {"statistics", "clear"} => MergedProgress(mem) = mem.progress
        /\ first = "clear" => MergedStatistics(mem) = mem.statistics
    BY FirstFlushSound
  <2>2. op' = [op EXCEPT !.step = first, !.why = "publish"] BY <1>2
  <2> HIDE DEF first
  <2>3. op' \in Ops BY <1>1, <2>1, <2>2 DEF Ops, Flushing
  <2>4. op'.step = first /\ op'.why = "publish" /\ op'.row = op.row /\ op'.then = op.then
    BY <1>1, <2>2 DEF Ops
  <2>5. OpSound(op', mem', unflushed')
    BY <1>1, <2>1, <2>4 DEF OpSound, Flushing
  <2>6. op'.step # "idle" BY <2>1, <2>4 DEF Flushing
  <2>7. op.row.at <= clock BY <1>1 DEF ControlInv
  <2>8. ControlInv' BY <1>1, <1>2, <2>3, <2>4, <2>5, <2>6, <2>7, CallGoesOn
  <2> QED BY <1>1, <2>8, RestKept
<1>3. CASE Return(TRUE)
  <2>1. ControlInv' BY <1>1, <1>3, ReturnSound
  <2> QED BY <1>1, <2>1, RestKept
<1> QED BY <1>2, <1>3 DEF Saved

LEMMA ReturnedInv ==
  ASSUME IInv, phase = "up", Returned
  PROVE  IInv'
<1>1. /\ StoreInv /\ SecondsInv /\ SavedInv /\ ControlInv /\ op.step = "return" /\ Return(TRUE)
      /\ UNCHANGED <<disk, mem, stale, faults, unflushed, heard, lost, acked, tried, clock, crashes>>
  BY DEF IInv, Returned, store, history
<1>2. ControlInv' BY <1>1, ReturnSound
<1> QED BY <1>1, <1>2, RestKept

LEMMA StoreStepInv ==
  ASSUME IInv, StoreStep
  PROVE  IInv'
BY FlushProgressInv, FlushStatisticsInv, FlushClearInv, SaveCheckpointInv, SavedStepInv,
   ReturnedInv DEF StoreStep

-----------------------------------------------------------------------------
(* The steps of the controller *)

\* Between calls nothing waits for a call.
LEMMA ReadyFacts ==
  ASSUME IInv, Ready
  PROVE  /\ phase = "up" /\ op.step = "idle" /\ op.then = "none" /\ op \in Ops
         /\ mem \in Documents /\ Past(mem, clock) /\ unflushed \in Nat
         /\ clock \in 0..MaxClock /\ clock \in Nat /\ begun \in 0..MaxClock /\ begun <= clock
         /\ current \in Items \cup {Nobody} /\ playing \in BOOLEAN
         /\ crashes \in 0..MaxCrashes
         /\ OpSound(op, mem, unflushed) /\ op.row.at <= clock
         /\ current # Nobody /\ ~playing => Progress(mem, current).at <= begun
BY ClockIsNat DEF IInv, StoreInv, SecondsInv, ControlInv, BegunInv, Ready, OpSound

LEMMA PlayInv ==
  ASSUME IInv, NEW i \in Items, Play(i)
  PROVE  IInv'
<1>1. /\ Ready
      /\ UNCHANGED <<disk, mem, stale, faults, unflushed, heard, lost, acked, tried, clock,
                     crashes, phase>>
  BY DEF Play, store, history
<1>2. i # Nobody BY ConstantsAssumption
<1>3. CASE playing /\ current # i
  <2>1. PICK pos \in Positions : PersistPosition(pos, unflushed, "play", i)
    BY <1>3 DEF Play
  <2>2. UNCHANGED <<current, playing, begun>> BY <1>3 DEF Play, player
  <2>3. op' \in Ops /\ OpSound(op', mem, unflushed) /\ op'.row.at <= clock
    <3>1. unflushed <= unflushed BY <1>1, ReadyFacts
    <3>2. /\ mem \in Documents /\ clock \in 0..MaxClock /\ Past(mem, clock)
          /\ current \in Items \cup {Nobody} /\ unflushed \in Nat
      BY <1>1, ReadyFacts
    <3> QED BY <2>1, <3>1, <3>2, PersistSound
  <2>4. BegunInv' BY <1>3, <2>2 DEF BegunInv
  <2>5. ControlInv' BY <1>1, <2>2, <2>3, <2>4, ReadyFacts DEF ControlInv
  <2> QED BY <1>1, <2>5, RestKept
<1>4. CASE ~(playing /\ current # i)
  <2>1. current' = i /\ playing' = FALSE /\ begun' = clock /\ op' = op
    BY <1>4 DEF Play
  <2>2. op'.step = "idle" /\ mem' = mem BY <1>1, <2>1, ReadyFacts
  <2>3. Progress(mem', current').at <= begun'
    BY <1>1, <2>1, ReadyFacts, ProgressIsPast
  <2>4. BegunInv' BY <2>2, <2>3 DEF BegunInv
  <2>5. begun' \in 0..MaxClock /\ begun' <= clock' BY <1>1, <2>1, ReadyFacts
  <2>6. OpSound(op', mem', unflushed') /\ op' \in Ops /\ op'.row.at <= clock'
    BY <1>1, <2>1, ReadyFacts
  <2>7. playing' \in BOOLEAN /\ current' \in Items \cup {Nobody} BY <2>1
  <2>8. phase' = "up" BY <1>1, ReadyFacts
  <2>9. clock' \in 0..MaxClock /\ crashes' \in 0..MaxCrashes BY <1>1, ReadyFacts
  <2>10. ControlInv' BY <2>4, <2>5, <2>6, <2>7, <2>8, <2>9 DEF ControlInv
  <2> QED BY <1>1, <2>10, RestKept
<1> QED BY <1>3, <1>4

LEMMA StartedInv ==
  ASSUME IInv, Started
  PROVE  IInv'
<1>1. /\ Ready /\ current # Nobody /\ ~playing /\ playing' = TRUE
      /\ UNCHANGED <<disk, mem, stale, faults, unflushed, heard, lost, acked, tried, clock,
                     crashes, phase, current, begun>>
  BY DEF Started, store, history
<1>2. /\ op' \in Ops /\ OpSound(op', mem, unflushed) /\ op'.row.at <= clock
  <2>1. CASE current \in Live
    <3>1. op' = op BY <2>1 DEF Started
    <3> QED BY <1>1, <3>1, ReadyFacts
  <2>2. CASE current \notin Live
    <3> DEFINE at_once == FALSE
    <3>1. PICK pos \in Positions :
            op' = Saving(current, [at |-> begun, pos |-> pos], 0, at_once, "none", Nobody)
      BY <2>2 DEF Started
    <3> DEFINE r == [at |-> begun, pos |-> pos]
    <3>2. r \in Rows /\ r.at = begun BY <1>1, ReadyFacts DEF Rows
    <3>3. at_once \in BOOLEAN OBVIOUS
    <3>4. op' = Saving(current, r, 0, at_once, "none", Nobody) BY <3>1
    <3>5. current \in Items /\ Progress(mem, current).at <= r.at
      BY <1>1, <3>2, ReadyFacts
    <3>6. mem \in Documents /\ unflushed \in Nat /\ 0 \in Nat /\ 0 <= unflushed
      BY <1>1, ReadyFacts
    <3> HIDE DEF r, at_once
    <3>7. op' \in Ops /\ OpSound(op', mem, unflushed) /\ op'.row = r
      BY <3>2, <3>3, <3>4, <3>5, <3>6, SavingSound
    <3> QED BY <1>1, <3>2, <3>7, ReadyFacts
  <2> QED BY <2>1, <2>2
<1>3. BegunInv' BY <1>1 DEF BegunInv
<1>4. ControlInv' BY <1>1, <1>2, <1>3, ReadyFacts DEF ControlInv
<1> QED BY <1>1, <1>4, RestKept

\* The time accounted to a source waits in memory.
LEMMA Accounted ==
  ASSUME IInv, current \in Items, NEW seconds \in Nat, Account(seconds),
         UNCHANGED <<disk, mem, stale, faults, lost, acked, tried, clock>>
  PROVE  /\ StoreInv' /\ SecondsInv' /\ SavedInv'
         /\ unflushed' \in Nat /\ unflushed <= unflushed'
<1> DEFINE s == SourceOf[current]
<1>1. s \in Sources BY ConstantsAssumption
<1>2. heard' = [heard EXCEPT ![s] = @ + seconds] /\ unflushed' = unflushed + seconds
  BY DEF Account
<1>3. heard \in [Sources -> Nat] /\ unflushed \in Nat /\ lost \in Int
  BY DEF IInv, SecondsInv
<1>4. heard' \in [Sources -> Nat] BY <1>1, <1>2, <1>3
<1>5. unflushed' \in Nat /\ unflushed <= unflushed' BY <1>2, <1>3
<1>6. TotalHeard' = TotalHeard + seconds /\ TotalHeard \in Int
  <2>1. heard' \in [Sources -> Int] /\ heard \in [Sources -> Int] BY <1>3, <1>4
  <2>2. \A t \in Sources : t # s => heard'[t] = heard[t] BY <1>2, <1>3
  <2>3. heard'[s] - heard[s] = seconds BY <1>1, <1>2, <1>3
  <2> HIDE DEF s
  <2>4. /\ SumOf(heard') \in Int /\ SumOf(heard) \in Int
        /\ SumOf(heard') = SumOf(heard) + (IF s \in Sources THEN heard'[s] - heard[s] ELSE 0)
    BY <2>1, <2>2, SumDiffers
  <2> QED BY <1>1, <2>3, <2>4, HeardIsSum
<1>7. TotalListened(mem) \in Int BY ListenedDiffers DEF IInv, StoreInv
<1>8. TotalListened(mem') + unflushed' + lost' = TotalHeard'
  <2>1. TotalListened(mem) + unflushed + lost = TotalHeard BY DEF IInv, SecondsInv
  <2>2. TotalListened(mem') = TotalListened(mem) /\ lost' = lost OBVIOUS
  <2> QED BY <1>2, <1>3, <1>6, <1>7, <2>1, <2>2
<1>9. SecondsFollow(disk', mem', unflushed')
  <2>1. \A t \in Sources : Listened(disk, t) \in Nat /\ Listened(mem, t) \in Nat
    BY ReadTypes DEF IInv, StoreInv
  <2> QED BY <1>3, <1>5, <2>1 DEF IInv, SecondsInv, SecondsFollow
<1>10. SecondsInv' BY <1>3, <1>4, <1>5, <1>8, <1>9 DEF IInv, SecondsInv
<1>11. StoreInv' BY DEF IInv, StoreInv
<1>12. SavedInv' BY DEF IInv, SavedInv
<1> QED BY <1>5, <1>10, <1>11, <1>12

\* Between calls more seconds may wait.
LEMMA IdleStaysSound ==
  ASSUME OpSound(op, mem, unflushed), op.step = "idle", NEW waiting
  PROVE  OpSound(op, mem, waiting)
BY DEF OpSound, Flushing

LEMMA TickInv ==
  ASSUME IInv, Tick
  PROVE  IInv'
<1>1. /\ Ready /\ current # Nobody /\ playing /\ Account(1)
      /\ UNCHANGED <<disk, mem, stale, faults, lost, acked, tried, clock, crashes, phase,
                     current, playing, begun>>
  BY DEF Tick, store, player
<1>2. current \in Items BY <1>1, ReadyFacts
<1>3. /\ StoreInv' /\ SecondsInv' /\ SavedInv'
      /\ unflushed' \in Nat /\ unflushed <= unflushed'
  BY <1>1, <1>2, Accounted
<1>4. op' \in Ops /\ OpSound(op', mem, unflushed') /\ op'.row.at <= clock
  <2>1. CASE op' = op
    BY <1>1, <2>1, ReadyFacts, IdleStaysSound
  <2>2. CASE op' # op
    <3> DEFINE at_once == FALSE
    <3>1. PICK pos \in Positions :
            op' = Saving(current, RowNow(pos), unflushed', at_once, "none", Nobody)
      BY <2>2 DEF Tick
    <3> DEFINE r == RowNow(pos)
    <3>2. r \in Rows /\ r.at = clock BY <1>1, ReadyFacts, RowNowIsRow
    <3>3. at_once \in BOOLEAN OBVIOUS
    <3>4. op' = Saving(current, r, unflushed', at_once, "none", Nobody) BY <3>1
    <3>5. Progress(mem, current).at <= r.at
      BY <1>1, <1>2, <3>2, ReadyFacts, ProgressIsPast
    <3>6. mem \in Documents /\ unflushed' <= unflushed'
      BY <1>1, <1>3, ReadyFacts
    <3> HIDE DEF r, at_once
    <3>7. op' \in Ops /\ OpSound(op', mem, unflushed') /\ op'.row = r
      BY <1>2, <1>3, <3>2, <3>3, <3>4, <3>5, <3>6, SavingSound
    <3> QED BY <1>1, <3>2, <3>7, ReadyFacts
  <2> QED BY <2>1, <2>2
<1>5. BegunInv' BY <1>1 DEF BegunInv
<1>6. ControlInv' BY <1>1, <1>4, <1>5, ReadyFacts DEF ControlInv
<1> QED BY <1>3, <1>6 DEF IInv

LEMMA StopInv ==
  ASSUME IInv, NEW eof, Stop(eof)
  PROVE  IInv'
<1>1. /\ Ready /\ current # Nobody
      /\ UNCHANGED <<disk, mem, stale, faults, lost, acked, tried, clock, crashes, phase>>
  BY DEF Stop, store
<1>2. current \in Items BY <1>1, ReadyFacts
<1>3. CASE playing
  <2>1. PICK seconds \in 0..1 : Account(seconds) BY <1>3 DEF Stop
  <2>2. UNCHANGED <<current, playing, begun>> BY <1>3 DEF Stop, player
  <2> DEFINE then == IF eof THEN "eof" ELSE "stop"
  <2>3. PICK pos \in Positions : PersistPosition(pos, unflushed', then, Nobody)
    BY <1>3 DEF Stop
  <2>4. then \in {"none", "play", "stop", "eof", "exit"} OBVIOUS
  <2> HIDE DEF then
  <2>5. /\ StoreInv' /\ SecondsInv' /\ SavedInv'
        /\ unflushed' \in Nat /\ unflushed <= unflushed'
    BY <1>1, <1>2, <2>1, Accounted
  <2>6. op' \in Ops /\ OpSound(op', mem, unflushed') /\ op'.row.at <= clock
    <3>1. unflushed' <= unflushed' BY <2>5
    <3>2. /\ mem \in Documents /\ clock \in 0..MaxClock /\ Past(mem, clock)
          /\ current \in Items \cup {Nobody}
      BY <1>1, ReadyFacts
    <3> QED BY <2>3, <2>4, <2>5, <3>1, <3>2, PersistSound
  <2>7. BegunInv' BY <1>3, <2>2 DEF BegunInv
  <2>8. ControlInv' BY <1>1, <2>2, <2>6, <2>7, ReadyFacts DEF ControlInv
  <2> QED BY <2>5, <2>8 DEF IInv
<1>4. CASE ~playing
  <2>1. current' = Nobody /\ UNCHANGED <<playing, begun, op, unflushed, heard>>
    BY <1>4 DEF Stop
  <2>2. BegunInv' BY <2>1 DEF BegunInv
  <2>3. OpSound(op', mem', unflushed') /\ op' \in Ops /\ op'.row.at <= clock'
    BY <1>1, <2>1, ReadyFacts
  <2>4. ControlInv' BY <1>1, <2>1, <2>2, <2>3, ReadyFacts DEF ControlInv
  <2> QED BY <1>1, <2>1, <2>4, RestKept
<1> QED BY <1>3, <1>4

LEMMA ExitInv ==
  ASSUME IInv, Exit
  PROVE  IInv'
<1>1. /\ Ready /\ crashes < MaxCrashes /\ crashes' = crashes + 1
      /\ UNCHANGED <<disk, mem, stale, faults, unflushed, heard, lost, acked, tried, clock,
                     phase, current, playing, begun>>
  BY DEF Exit, store, history, player
<1>2. PICK pos \in Positions : PersistPosition(pos, unflushed, "exit", Nobody)
  BY DEF Exit
<1>3. op' \in Ops /\ OpSound(op', mem, unflushed) /\ op'.row.at <= clock /\ op'.then = "exit"
  <2>1. /\ mem \in Documents /\ clock \in 0..MaxClock /\ Past(mem, clock)
        /\ current \in Items \cup {Nobody} /\ unflushed \in Nat /\ unflushed <= unflushed
    BY <1>1, ReadyFacts
  <2> QED BY <1>2, <2>1, PersistSound
<1>4. crashes' \in 0..MaxCrashes
  BY <1>1, ReadyFacts, ConstantsAssumption
<1>5. BegunInv' BY <1>3 DEF BegunInv
<1>6. ControlInv' BY <1>1, <1>3, <1>4, <1>5, ReadyFacts DEF ControlInv
<1> QED BY <1>1, <1>6, RestKept

LEMMA CrashInv ==
  ASSUME IInv, Crash
  PROVE  IInv'
<1>1. /\ phase' = "down" /\ crashes < MaxCrashes /\ crashes' = crashes + 1
      /\ UNCHANGED <<disk, mem, stale, faults, unflushed, heard, lost, acked, tried, clock,
                     current, playing, begun, op>>
  BY DEF Crash, store, history, player
<1>2. crashes' \in 0..MaxCrashes
  BY <1>1, ConstantsAssumption DEF IInv, ControlInv
<1>3. BegunInv' BY <1>1 DEF BegunInv, IInv, ControlInv
<1>4. ControlInv' BY <1>1, <1>2, <1>3 DEF IInv, ControlInv
<1> QED BY <1>1, <1>4, RestKept

\* The disk never tells less than the process acknowledged, nor more than was played.
LEMMA DiskTotal ==
  ASSUME IInv
  PROVE  /\ TotalListened(disk) \in Int /\ TotalHeard \in Int
         /\ TotalListened(disk) <= TotalHeard
<1> DEFINE s == disk.pending.source
<1>1. /\ disk \in Documents /\ mem \in Documents /\ unflushed \in Nat /\ lost \in Int
      /\ SecondsFollow(disk, mem, unflushed)
      /\ TotalListened(mem) + unflushed + lost = TotalHeard /\ lost >= 0
  BY DEF IInv, StoreInv, SecondsInv
<1>2. \A t \in Sources : Listened(disk, t) \in Nat /\ Listened(mem, t) \in Nat
  BY <1>1, ReadTypes
<1>3. \A t \in Sources : t # s => Listened(disk, t) = Listened(mem, t)
  BY <1>1, <1>2 DEF SecondsFollow
<1>4. s \in Sources => Listened(disk, s) - Listened(mem, s) <= unflushed
  BY <1>1, <1>2 DEF SecondsFollow
<1> HIDE DEF s
<1>5. /\ TotalListened(disk) \in Int /\ TotalListened(mem) \in Int
      /\ TotalListened(disk) = TotalListened(mem) +
           (IF s \in Sources THEN Listened(disk, s) - Listened(mem, s) ELSE 0)
  BY <1>1, <1>3, ListenedDiffers
<1> QED BY <1>1, <1>2, <1>4, <1>5

LEMMA StartInv ==
  ASSUME IInv, Start
  PROVE  IInv'
<1>1. /\ phase' = "up" /\ mem' = disk /\ stale' = {} /\ current' = Nobody /\ playing' = FALSE
      /\ begun' = begun /\ unflushed' = 0 /\ lost' = TotalHeard - TotalListened(disk)
      /\ acked' = [i \in Items |-> Progress(disk, i)] /\ tried' = [i \in Items |-> {}]
      /\ UNCHANGED <<disk, faults, clock, heard, crashes>>
  BY DEF Start
<1>2. disk \in Documents /\ Newest(disk) /\ Past(disk, clock) /\ clock \in 0..MaxClock
  BY DEF IInv, StoreInv, RowsFollow, ControlInv
<1>3. RowsFollow(disk, disk) /\ SecondsFollow(disk, disk, 0)
  <2>1. 0 \in Nat OBVIOUS
  <2> QED BY <1>2, <2>1, FollowsItself
<1>4. StoreInv' BY <1>1, <1>2, <1>3 DEF IInv, StoreInv
<1>5. SecondsInv'
  <2>1. /\ TotalListened(disk) \in Int /\ TotalHeard \in Int
        /\ TotalListened(disk) <= TotalHeard
    BY DiskTotal
  <2>2. TotalHeard' = TotalHeard BY <1>1, HeardIsSum
  <2>3. lost' \in Int /\ lost' >= 0 /\ TotalListened(disk) + 0 + lost' = TotalHeard
    BY <1>1, <2>1
  <2>4. heard' \in [Sources -> Nat] BY <1>1 DEF IInv, SecondsInv
  <2>5. TotalListened(mem') = TotalListened(disk) BY <1>1
  <2> QED BY <1>1, <1>3, <2>2, <2>3, <2>4, <2>5 DEF SecondsInv
<1>6. SavedInv'
  <2>1. \A i \in Items : Progress(disk, i) \in RowsOrNone BY <1>2, ReadTypes
  <2> QED BY <1>1, <2>1 DEF SavedInv
<1>7. /\ op' \in Ops /\ OpSound(op', disk, 0) /\ op'.row.at = -1
  <2>1. IdleOp.row.at = -1 /\ IdleOp.then = "none" BY DEF IdleOp, NoRow
  <2>2. CASE op' = IdleOp BY <2>1, <2>2, IdleSound
  <2>3. CASE op' # IdleOp
    <3> DEFINE first == FirstFlush(disk)
    <3>1. op' = [IdleOp EXCEPT !.step = first, !.why = "start"] BY <2>3 DEF Start
    <3>2. /\ first \in Flushing
          /\ first \in {"statistics", "clear"} => MergedProgress(disk) = disk.progress
          /\ first = "clear" => MergedStatistics(disk) = disk.statistics
      BY FirstFlushSound
    <3> HIDE DEF first
    <3>3. IdleOp \in Ops BY IdleSound
    <3>4. op' \in Ops BY <3>1, <3>2, <3>3 DEF Ops, Flushing
    <3>5. op'.step = first /\ op'.why = "start" /\ op'.row = IdleOp.row /\ op'.then = IdleOp.then
      BY <3>1, <3>3 DEF Ops
    <3>6. OpSound(op', disk, 0) BY <2>1, <3>2, <3>5 DEF OpSound, Flushing
    <3> QED BY <2>1, <3>4, <3>5, <3>6
  <2> QED BY <2>2, <2>3
<1>8. BegunInv' BY <1>1 DEF BegunInv
<1>9. begun \in 0..MaxClock /\ begun <= clock /\ crashes \in 0..MaxCrashes /\ -1 <= clock
  BY <1>2 DEF IInv, ControlInv
<1>10. playing' \in BOOLEAN /\ current' \in Items \cup {Nobody} BY <1>1
<1>11. ControlInv' BY <1>1, <1>2, <1>7, <1>8, <1>9, <1>10 DEF ControlInv
<1> QED BY <1>4, <1>5, <1>6, <1>11 DEF IInv

LEMMA TimePassesInv ==
  ASSUME IInv, TimePasses
  PROVE  IInv'
<1>1. /\ clock' \in (clock + 1)..MaxClock
      /\ UNCHANGED <<disk, mem, stale, faults, phase, current, playing, begun, unflushed, op,
                     heard, lost, acked, tried, crashes>>
  BY DEF TimePasses, store, player, history
<1>2. clock \in 0..MaxClock /\ begun \in 0..MaxClock /\ op \in Ops
  BY DEF IInv, ControlInv
<1>3. clock \in Int /\ clock' \in Int /\ clock <= clock' /\ clock' \in 0..MaxClock
  BY <1>1, <1>2, ConstantsAssumption
<1>4. ASSUME NEW d \in Documents, Past(d, clock) PROVE Past(d, clock')
  BY <1>3, <1>4, DocumentParts DEF Past
<1>5. StoreInv' BY <1>1, <1>4 DEF IInv, StoreInv
<1>6. SecondsInv' BY <1>1, HeardIsSum DEF IInv, SecondsInv
<1>7. SavedInv' BY <1>1 DEF IInv, SavedInv
<1>8. op.row.at \in Int BY <1>2, RowAt DEF Ops
<1>9. BegunInv' BY <1>1 DEF IInv, ControlInv, BegunInv
<1>10. begun' <= clock' /\ op'.row.at <= clock'
  BY <1>1, <1>2, <1>3, <1>8 DEF IInv, ControlInv
<1>11. ControlInv' BY <1>1, <1>3, <1>9, <1>10 DEF IInv, ControlInv
<1> QED BY <1>5, <1>6, <1>7, <1>11 DEF IInv

LEMMA EditInv ==
  ASSUME IInv, NEW doc \in Docs, Edit(doc)
  PROVE  IInv'
<1>1. /\ stale' = stale \cup {doc} /\ Fault
      /\ UNCHANGED <<disk, mem, phase, current, playing, begun, unflushed, op, clock, heard,
                     lost, acked, tried, crashes>>
  BY DEF Edit, player, history
<1>2. faults' \in 0..MaxFaults
  BY <1>1, ConstantsAssumption DEF Fault, IInv, StoreInv
<1>3. StoreInv' BY <1>1, <1>2 DEF IInv, StoreInv
<1>4. SecondsInv' BY <1>1, HeardIsSum DEF IInv, SecondsInv
<1>5. SavedInv' BY <1>1 DEF IInv, SavedInv
<1>6. BegunInv' BY <1>1 DEF IInv, ControlInv, BegunInv
<1>7. ControlInv' BY <1>1, <1>6 DEF IInv, ControlInv
<1> QED BY <1>3, <1>4, <1>5, <1>7 DEF IInv

LEMMA StepInv ==
  ASSUME IInv, [Next]_vars
  PROVE  IInv'
<1>1. CASE UNCHANGED vars
  <2>1. UNCHANGED <<disk, mem, stale, faults, phase, current, playing, begun, unflushed, op,
                    clock, heard, lost, acked, tried, crashes>>
    BY <1>1 DEF vars, store, player, history
  <2>2. BegunInv' BY <2>1 DEF IInv, ControlInv, BegunInv
  <2>3. ControlInv' BY <2>1, <2>2 DEF IInv, ControlInv
  <2> QED BY <2>1, <2>3, RestKept
<1>2. CASE Next
  BY <1>2, StoreStepInv, PlayInv, StartedInv, TickInv, ExitInv, StopInv, CrashInv, StartInv,
     TimePassesInv, EditInv DEF Next
<1> QED BY <1>1, <1>2

-----------------------------------------------------------------------------
(* What holds of every behaviour *)

THEOREM SpecInv == Spec => []IInv
<1>1. Init => IInv BY InitInv
<1>2. IInv /\ [Next]_vars => IInv' BY StepInv
<1> QED BY <1>1, <1>2, PTL DEF Spec

\* Every variable keeps its shape: the store only ever holds documents, and a
\* call in progress only a step, an item and a row that exist.
THEOREM TypeCorrect == Spec => []TypeOK
<1>1. IInv => TypeOK
  BY DEF IInv, StoreInv, SecondsInv, SavedInv, ControlInv, TypeOK, Ops, RowsOrNone
<1> QED BY <1>1, SpecInv, PTL

\* Between calls the store reads back the last position whose save succeeded,
\* across publications, failures, restarts and items (FileStateStore::progress).
THEOREM ReadsWhatWasSaved == Spec => []SavesAreRead
<1>1. IInv => SavesAreRead BY DEF IInv, SavedInv, SavesAreRead
<1> QED BY <1>1, SpecInv, PTL

\* At every moment, so at every crash, the documents on disk tell the last saved
\* position of every item: of stores whose failed writes changed nothing.
THEOREM SavedSurvives ==
  ASSUME ~LateErrors
  PROVE  Spec => []SavesSurvive
<1>1. IInv => SavesSurvive
  BY DEF IInv, StoreInv, SavedInv, SavesSurvive
<1> QED BY <1>1, SpecInv, PTL

\* Whatever a failed write did, the disk never tells an older position than the
\* last one saved.
NothingOlder == \A i \in Items : acked[i].at <= Progress(disk, i).at

THEOREM SavedNeverOlder == Spec => []NothingOlder
<1>1. ASSUME IInv, NEW i \in Items PROVE acked[i].at <= Progress(disk, i).at
  <2>1. /\ disk \in Documents /\ mem \in Documents /\ RowsFollow(disk, mem) /\ Newest(mem)
        /\ Newest(disk) /\ Progress(mem, i) = acked[i]
    BY <1>1 DEF IInv, StoreInv, SavedInv, RowsFollow
  <2>2. CASE disk.pending.item = i
    BY <2>1, <2>2, NewestProgress DEF RowsFollow
  <2>3. CASE disk.pending.item # i
    <3>1. Progress(disk, i) = disk.progress[i] BY <2>1, <2>3, NewestProgress
    <3>2. Progress(mem, i) = mem.progress[i]
      BY <2>1, <2>3, NewestProgress DEF RowsFollow
    <3> QED BY <2>1, <3>1, <3>2 DEF RowsFollow
  <2> QED BY <2>2, <2>3
<1>2. IInv => NothingOlder BY <1>1 DEF NothingOlder
<1> QED BY <1>2, SpecInv, PTL

\* Seconds are neither counted twice nor dropped, whatever fails and in whatever
\* order the documents are written: the totals are absolute.
THEOREM SecondsCountOnce == Spec => []EverySecondOnce
<1>1. IInv => EverySecondOnce BY DEF IInv, SecondsInv, EverySecondOnce
<1> QED BY <1>1, SpecInv, PTL

\* What the running process acknowledged is on disk, and no more than was played.
THEOREM CountsSurvive == Spec => []CountIsDurable
<1>1. ASSUME IInv, NEW s \in Sources PROVE Listened(disk, s) >= Listened(mem, s)
  <2>1. /\ disk \in Documents /\ mem \in Documents /\ SecondsFollow(disk, mem, unflushed)
    BY <1>1 DEF IInv, StoreInv, SecondsInv
  <2>2. Listened(mem, s) <= Listened(disk, s) BY <2>1 DEF SecondsFollow
  <2>3. Listened(mem, s) \in Nat /\ Listened(disk, s) \in Nat BY <2>1, ReadTypes
  <2> QED BY <2>2, <2>3
<1>2. IInv => CountIsDurable BY <1>1, DiskTotal DEF CountIsDurable
<1> QED BY <1>2, SpecInv, PTL

\* An exit that reports success leaves no checkpoint it acknowledged.
THEOREM ExitPublishes == Spec => []ClosedIsPublished
<1>1. ASSUME IInv PROVE ClosedIsPublished
  <2>1. phase = "closed" => mem.pending = NoPending BY <1>1 DEF IInv, ControlInv
  <2>2. "pending" \notin stale => disk.pending = mem.pending
    BY <1>1, DocNames DEF IInv, StoreInv
  <2> QED BY <2>1, <2>2 DEF ClosedIsPublished
<1> QED BY <1>1, SpecInv, PTL

-----------------------------------------------------------------------------
(* The store implements the ledger: a save is one step of it, even one that *)
(* reported an error after it took effect, and everything else is none      *)

\* What a step makes of the documents on disk, seen as a step of the ledger.
LEMMA LedgerStep ==
  ASSUME disk \in Documents, disk' \in Documents, NEW j \in Items,
         \A i \in Items : i # j => Progress(disk', i) = Progress(disk, i),
         \A s \in Sources : s # SourceOf[j] => Listened(disk', s) = Listened(disk, s),
         Listened(disk', SourceOf[j]) >= Listened(disk, SourceOf[j]),
         j \in Live => Progress(disk', j) = Progress(disk, j),
         j \notin Live => /\ Progress(disk', j) \in Rows
                          /\ Progress(disk', j).at >= Progress(disk, j).at
  PROVE  Ledger!Next
<1> DEFINE r == Progress(disk', j)
           src == SourceOf[j]
<1>1. src \in Sources BY ConstantsAssumption
<1>2. /\ \A i \in Items : /\ MergedProgress(disk)[i] = Progress(disk, i)
                          /\ MergedProgress(disk')[i] = Progress(disk', i)
      /\ \A s \in Sources : /\ MergedStatistics(disk)[s] = Listened(disk, s)
                            /\ MergedStatistics(disk')[s] = Listened(disk', s)
  BY DEF MergedProgress, MergedStatistics
<1>3. /\ MergedProgress(disk) \in [Items -> RowsOrNone]
      /\ MergedProgress(disk') \in [Items -> RowsOrNone]
      /\ MergedStatistics(disk) \in [Sources -> Nat]
      /\ MergedStatistics(disk') \in [Sources -> Nat]
  BY ReadTypes
<1>4. Ledger!Credit(src)
  <2> HIDE DEF src
  <2>1. MergedStatistics(disk')[src] >= MergedStatistics(disk)[src] BY <1>1, <1>2 DEF src
  <2>2. \A s \in Sources : MergedStatistics(disk')[s] =
          [MergedStatistics(disk) EXCEPT ![src] = MergedStatistics(disk')[src]][s]
    BY <1>1, <1>2, <1>3 DEF src
  <2>3. MergedStatistics(disk') =
          [MergedStatistics(disk) EXCEPT ![src] = MergedStatistics(disk')[src]]
    BY <1>1, <1>3, <2>2
  <2> QED BY <2>1, <2>3 DEF Ledger!Credit
<1>5. CASE j \in Live
  <2>1. \A i \in Items : MergedProgress(disk')[i] = MergedProgress(disk)[i]
    BY <1>2, <1>5
  <2>2. MergedProgress(disk') = MergedProgress(disk) BY <1>3, <2>1
  <2>3. Ledger!Listen(j) BY <1>4, <1>5, <2>2 DEF Ledger!Listen
  <2> QED BY <2>3 DEF Ledger!Next
<1>6. CASE j \notin Live
  <2>1. r \in Rows /\ r.at >= MergedProgress(disk)[j].at BY <1>2, <1>6
  <2>2. \A i \in Items : MergedProgress(disk')[i] = [MergedProgress(disk) EXCEPT ![j] = r][i]
    BY <1>2, <1>3
  <2>3. MergedProgress(disk') = [MergedProgress(disk) EXCEPT ![j] = r]
    BY <1>3, <2>1, <2>2 DEF RowsOrNone
  <2> HIDE DEF r
  <2>4. Ledger!Save(j) BY <1>4, <1>6, <2>1, <2>3 DEF Ledger!Save
  <2> QED BY <2>4 DEF Ledger!Next
<1> QED BY <1>5, <1>6

LEMMA LedgerStutters ==
  ASSUME Same(disk', disk)
  PROVE  UNCHANGED <<MergedProgress(disk), MergedStatistics(disk)>>
BY SameMerge

\* A document is replaced, whatever the call then reports.
LEMMA WriteEffect ==
  ASSUME NEW doc, NEW new, Persist(doc, new) \/ NotWritten(doc, new)
  PROVE  \/ disk' = disk
         \/ doc \notin stale /\ disk' = [disk EXCEPT ![doc] = new]
BY DEF Persist, Written, NotWritten

\* Publishing the rows of the checkpoint changes no row that is read.
LEMMA ProgressInvisible ==
  ASSUME NEW d \in Documents, NEW m \in Documents, Newest(m), RowsFollow(d, m),
         d.progress = m.progress, NEW e, PutProgress(e, d, MergedProgress(m))
  PROVE  Same(e, d)
<1>1. /\ e \in Documents /\ e.statistics = d.statistics /\ e.pending = d.pending
      /\ \A i \in Items : e.progress[i] = Progress(m, i)
  BY DEF PutProgress, MergedProgress
<1>2. \A s \in Sources : Listened(e, s) = Listened(d, s) BY <1>1 DEF Listened
<1>3. ASSUME NEW i \in Items PROVE Progress(e, i) = Progress(d, i)
  <2>1. Progress(m, i).at \in Int /\ d.pending.row.at \in Int BY ReadTypes, DocumentParts
  <2>2. CASE d.pending.item = i
    <3>1. Progress(m, i).at <= d.pending.row.at BY <2>2 DEF RowsFollow
    <3>2. Progress(e, i) = d.pending.row BY <1>1, <2>1, <2>2, <3>1 DEF Progress
    <3>3. Progress(d, i) = d.pending.row BY <2>2, NewestProgress DEF RowsFollow
    <3> QED BY <3>2, <3>3
  <2>3. CASE d.pending.item # i
    <3>1. Progress(m, i) = m.progress[i] BY <2>3, NewestProgress DEF RowsFollow
    <3>2. Progress(e, i) = Progress(m, i) BY <1>1, <2>3 DEF Progress
    <3>3. Progress(d, i) = d.progress[i] BY <2>3 DEF Progress
    <3> QED BY <3>1, <3>2, <3>3
  <2> QED BY <2>2, <2>3
<1> QED BY <1>2, <1>3 DEF Same

\* Publishing its total changes no count that is read.
LEMMA StatisticsInvisible ==
  ASSUME NEW d \in Documents, NEW m \in Documents, NEW waiting \in Nat,
         SecondsFollow(d, m, waiting), d.statistics = m.statistics,
         NEW e, PutStatistics(e, d, MergedStatistics(m))
  PROVE  Same(e, d)
<1>1. /\ e \in Documents /\ e.progress = d.progress /\ e.pending = d.pending
      /\ \A s \in Sources : e.statistics[s] = Listened(m, s)
  BY DEF PutStatistics, MergedStatistics
<1>2. \A i \in Items : Progress(e, i) = Progress(d, i) BY <1>1 DEF Progress
<1>3. ASSUME NEW s \in Sources PROVE Listened(e, s) = Listened(d, s)
  <2>1. /\ Listened(m, s) \in Nat /\ Listened(d, s) \in Nat
        /\ d.statistics[s] \in Nat /\ d.pending.total \in Nat
    BY ReadTypes, DocumentParts
  <2>2. /\ d.statistics[s] <= Listened(m, s) /\ Listened(m, s) <= Listened(d, s)
        /\ Listened(d, s) <= Listened(m, s) + (IF d.pending.source = s THEN waiting ELSE 0)
    BY DEF SecondsFollow
  <2>3. CASE d.pending.source = s BY <1>1, <2>1, <2>2, <2>3 DEF Listened, Later
  <2>4. CASE d.pending.source # s
    <3>1. Listened(e, s) = Listened(m, s) BY <1>1, <2>4 DEF Listened
    <3> QED BY <2>1, <2>2, <2>4, <3>1
  <2> QED BY <2>3, <2>4
<1> QED BY <1>2, <1>3 DEF Same

LEMMA FlushProgressLedger ==
  ASSUME IInv, FlushProgress
  PROVE  Same(disk', disk)
<1> DEFINE new == MergedProgress(mem)
           e == [disk EXCEPT !["progress"] = new]
<1>1. /\ disk \in Documents /\ mem \in Documents /\ Newest(mem) /\ RowsFollow(disk, mem)
      /\ "progress" \notin stale => disk.progress = mem.progress
  BY DocNames DEF IInv, StoreInv
<1>2. Persist("progress", new) \/ NotWritten("progress", new)
  BY DEF FlushProgress, Failed
<1>3. PutProgress(e, disk, new) BY <1>1, ReadTypes, Puts
<1>4. disk' = disk \/ ("progress" \notin stale /\ disk' = e)
  <2> HIDE DEF new
  <2> QED BY <1>2, WriteEffect
<1>5. CASE disk' = disk BY <1>5 DEF Same
<1>6. CASE "progress" \notin stale /\ disk' = e
  <2> HIDE DEF e
  <2>1. Same(e, disk) BY <1>1, <1>3, <1>6, ProgressInvisible
  <2> QED BY <1>6, <2>1
<1> QED BY <1>4, <1>5, <1>6

LEMMA FlushStatisticsLedger ==
  ASSUME IInv, FlushStatistics
  PROVE  Same(disk', disk)
<1> DEFINE new == MergedStatistics(mem)
           e == [disk EXCEPT !["statistics"] = new]
<1>1. /\ disk \in Documents /\ mem \in Documents /\ unflushed \in Nat
      /\ SecondsFollow(disk, mem, unflushed)
      /\ "statistics" \notin stale => disk.statistics = mem.statistics
  BY DocNames DEF IInv, StoreInv, SecondsInv
<1>2. Persist("statistics", new) \/ NotWritten("statistics", new)
  BY DEF FlushStatistics, Failed
<1>3. PutStatistics(e, disk, new) BY <1>1, ReadTypes, Puts
<1>4. disk' = disk \/ ("statistics" \notin stale /\ disk' = e)
  <2> HIDE DEF new
  <2> QED BY <1>2, WriteEffect
<1>5. CASE disk' = disk BY <1>5 DEF Same
<1>6. CASE "statistics" \notin stale /\ disk' = e
  <2> HIDE DEF e
  <2>1. Same(e, disk) BY <1>1, <1>3, <1>6, StatisticsInvisible
  <2> QED BY <1>6, <2>1
<1> QED BY <1>4, <1>5, <1>6

\* Clearing the checkpoint: after a write of the rows that reported an error but
\* took effect, the published row may be another one of the same second.
LEMMA FlushClearLedger ==
  ASSUME IInv, phase = "up", FlushClear
  PROVE  Same(disk', disk) \/ Ledger!Next
<1> DEFINE e == [disk EXCEPT !["pending"] = NoPending]
           j == disk.pending.item
<1>1. /\ disk \in Documents /\ mem \in Documents /\ unflushed \in Nat
      /\ Newest(mem) /\ Newest(disk) /\ RowsFollow(disk, mem)
      /\ SecondsFollow(disk, mem, unflushed)
      /\ "pending" \notin stale => disk.pending = mem.pending
      /\ MergedProgress(mem) = mem.progress /\ MergedStatistics(mem) = mem.statistics
  BY DocNames DEF IInv, StoreInv, SecondsInv, ControlInv, OpSound, FlushClear, RowsFollow
<1>2. Persist("pending", NoPending) \/ NotWritten("pending", NoPending)
  BY DEF FlushClear, Failed
<1>3. PutPending(e, disk, NoPending) BY <1>1, NoPendingType, Puts
<1>4. disk' = disk \/ ("pending" \notin stale /\ disk' = e)
  BY <1>2, WriteEffect
<1>5. CASE disk' = disk BY <1>5 DEF Same
<1>6. CASE "pending" \notin stale /\ disk' = e
  <2> HIDE DEF e
  <2>1. /\ disk' \in Documents /\ disk'.progress = disk.progress
        /\ disk'.statistics = disk.statistics /\ disk'.pending.item = Nobody
        /\ disk'.pending.source = Nobody
    BY <1>3, <1>6 DEF PutPending, NoPending
  <2>2. \A i \in Items : i # Nobody /\ Progress(mem, i) = mem.progress[i]
    BY <1>1, ConstantsAssumption DEF MergedProgress
  <2>3. \A i \in Items : Progress(disk', i) = disk.progress[i]
    BY <2>1, <2>2 DEF Progress
  <2>4. ASSUME NEW s \in Sources PROVE Listened(disk', s) = Listened(disk, s)
    <3>1. Listened(disk', s) = disk.statistics[s]
      BY <2>1, ConstantsAssumption DEF Listened
    <3>2. Listened(mem, s) = mem.statistics[s]
      BY <1>1 DEF MergedStatistics
    <3>3. /\ mem.statistics[s] \in Nat /\ disk.statistics[s] \in Nat
          /\ disk.pending.total \in Nat /\ mem.pending.total \in Nat
      BY <1>1, DocumentParts
    <3>4. mem.statistics[s] <= disk.statistics[s] /\ disk.statistics[s] <= Listened(mem, s)
      BY <1>1 DEF SecondsFollow
    <3>5. disk.statistics[s] = mem.statistics[s] BY <3>2, <3>3, <3>4
    <3>6. Listened(disk, s) = Listened(mem, s) BY <1>1, <1>6, <3>5 DEF Listened
    <3> QED BY <3>1, <3>2, <3>5, <3>6
  <2>5. CASE j \in Items
    <3>1. j \notin Live /\ Progress(disk, j) = disk.pending.row /\ disk.pending.row \in Rows
      BY <1>1, <2>5, NewestProgress DEF Newest
    <3>2. Progress(mem, j) = disk.pending.row
      BY <1>1, <1>6, <2>5, NewestProgress
    <3>3. mem.progress[j].at <= disk.progress[j].at
      BY <1>1, <2>5 DEF RowsFollow
    <3>4. Progress(disk', j).at >= Progress(disk, j).at
      <4>1. disk.progress[j].at \in Int /\ disk.pending.row.at \in Int
        BY <1>1, <2>5, DocumentParts
      <4> QED BY <2>2, <2>3, <2>5, <3>1, <3>2, <3>3, <4>1
    <3>5. Progress(disk', j) \in Rows
      <4>1. disk.progress[j] \in RowsOrNone BY <1>1, <2>5, DocumentParts
      <4>2. disk.pending.row.at >= 0 BY <3>1 DEF Rows
      <4>3. disk.progress[j].at >= disk.pending.row.at BY <2>3, <2>5, <3>1, <3>4
      <4>4. disk.pending.row.at \in Int /\ disk.progress[j].at \in Int
        BY <1>1, <2>5, DocumentParts
      <4>5. disk.progress[j] # NoRow BY <4>2, <4>3, <4>4 DEF NoRow
      <4> QED BY <2>3, <2>5, <4>1, <4>5 DEF RowsOrNone
    <3>6. \A i \in Items : i # j => Progress(disk', i) = Progress(disk, i)
      BY <2>3 DEF Progress
    <3>7. SourceOf[j] \in Sources BY <2>5, ConstantsAssumption
    <3>8. Listened(disk', SourceOf[j]) >= Listened(disk, SourceOf[j])
      <4>1. Listened(disk, SourceOf[j]) \in Nat BY <1>1, <3>7, ReadTypes
      <4> QED BY <2>4, <3>7, <4>1
    <3> HIDE DEF j
    <3> QED BY <1>1, <2>1, <2>4, <2>5, <3>1, <3>4, <3>5, <3>6, <3>8, LedgerStep
  <2>6. CASE j \notin Items
    <3>1. \A i \in Items : Progress(disk', i) = Progress(disk, i)
      BY <2>3, <2>6 DEF Progress
    <3> QED BY <2>4, <3>1 DEF Same
  <2> QED BY <2>5, <2>6
<1> QED BY <1>4, <1>5, <1>6

\* A save, acknowledged or not.
LEMMA SaveCheckpointLedger ==
  ASSUME IInv, SaveCheckpoint
  PROVE  Same(disk', disk) \/ Ledger!Next
<1> DEFINE e == [disk EXCEPT !["pending"] = Checkpoint]
           n == [mem EXCEPT !["pending"] = Checkpoint]
           j == op.item
           src == SourceOf[j]
<1>1. /\ StoreInv /\ SecondsInv /\ ControlInv
      /\ disk \in Documents /\ mem \in Documents /\ unflushed \in Nat /\ clock \in Nat
      /\ op.step = "save" /\ op \in Ops
      /\ "pending" \notin stale => disk.pending = mem.pending
  BY ClockIsNat, DocNames DEF IInv, StoreInv, SecondsInv, ControlInv, SaveCheckpoint
<1>2. /\ j \in Items /\ op.row \in Rows /\ op.seconds \in Nat
      /\ OpSound(op, mem, unflushed) /\ op.row.at <= clock /\ src \in Sources
      /\ j \notin Live => Progress(mem, j).at <= op.row.at
  BY <1>1, ConstantsAssumption DEF ControlInv, OpSound, SaveSound, Ops
<1>3. /\ Newest(mem) /\ RowsFollow(disk, mem) /\ SecondsFollow(disk, mem, unflushed)
      /\ Past(disk, clock) /\ Past(mem, clock) /\ Newest(disk)
  BY <1>1 DEF StoreInv, SecondsInv, RowsFollow
<1>4. Checkpoint \in Checkpoints
  BY <1>1, <1>2, <1>3, CheckpointSaved
<1>5. PutPending(e, disk, Checkpoint) /\ PutPending(n, mem, Checkpoint)
  BY <1>1, <1>4, Puts
<1>6. Persist("pending", Checkpoint) \/ NotWritten("pending", Checkpoint)
  BY DEF SaveCheckpoint, Failed
<1>7. disk' = disk \/ ("pending" \notin stale /\ disk' = e)
  BY <1>6, WriteEffect
<1>8. CASE disk' = disk BY <1>8 DEF Same
<1>9. CASE "pending" \notin stale /\ disk' = e
  <2> HIDE DEF e, n
  <2>1. /\ disk' \in Documents /\ n \in Documents /\ disk.pending = mem.pending
        /\ disk'.progress = disk.progress /\ disk'.statistics = disk.statistics
        /\ n.progress = mem.progress /\ n.statistics = mem.statistics
        /\ disk'.pending = n.pending
    BY <1>1, <1>5, <1>9 DEF PutPending
  <2>2. /\ Newest(n) /\ RowsFollow(disk', n)
        /\ \A i \in Items : Progress(n, i) = IF i = j /\ i \notin Live
                                             THEN op.row ELSE Progress(mem, i)
        /\ \A s \in Sources : Listened(n, s) = IF s = src
                                               THEN Listened(mem, s) + op.seconds
                                               ELSE Listened(mem, s)
    BY <1>1, <1>2, <1>3, <1>5, <1>9, CheckpointSaved
  <2>3. Newest(disk') BY <2>2 DEF RowsFollow
  <2>4. /\ j \in Live => n.pending.item = mem.pending.item /\ n.pending.row = mem.pending.row
        /\ j \notin Live => n.pending.item = j /\ n.pending.row = op.row
                            /\ mem.pending.item \in {Nobody, j}
        /\ op.seconds = 0 => /\ n.pending.source = mem.pending.source
                             /\ n.pending.total = mem.pending.total
        /\ op.seconds # 0 => /\ n.pending.source = src /\ n.pending.total = op.target
                             /\ mem.pending.source \in {Nobody, src}
    BY <1>1, <1>2, <1>3, <1>5, CheckpointParts DEF PutPending
  <2>5. \A i \in Items : i # j => Progress(disk', i) = Progress(disk, i)
    BY <2>1, <2>4, ConstantsAssumption DEF Progress
  <2>6. j \in Live => Progress(disk', j) = Progress(disk, j)
    BY <2>1, <2>4 DEF Progress
  <2>7. ASSUME j \notin Live
        PROVE  Progress(disk', j) \in Rows /\ Progress(disk', j).at >= Progress(disk, j).at
    <3>1. Progress(disk', j) = op.row BY <1>2, <2>1, <2>3, <2>4, <2>7, NewestProgress
    <3>2. Progress(disk, j).at <= Progress(mem, j).at
      <4>1. CASE disk.pending.item = j
        <5>1. Progress(disk, j) = disk.pending.row /\ Progress(mem, j) = mem.pending.row
          BY <1>1, <1>2, <1>3, <2>1, <4>1, NewestProgress
        <5>2. disk.pending.row.at \in Int BY <1>1, DocumentParts
        <5> QED BY <2>1, <5>1, <5>2
      <4>2. CASE disk.pending.item # j
        <5>1. Progress(disk, j) = disk.progress[j] BY <1>1, <1>2, <1>3, <4>2, NewestProgress
        <5> QED BY <1>2, <1>3, <5>1 DEF RowsFollow
      <4> QED BY <4>1, <4>2
    <3>3. Progress(disk, j).at \in Int /\ Progress(mem, j).at \in Int /\ op.row.at \in Int
      BY <1>1, <1>2, ReadTypes, RowAt DEF RowsOrNone
    <3> QED BY <1>2, <2>7, <3>1, <3>2, <3>3
  <2>8. \A s \in Sources : /\ disk.statistics[s] \in Nat /\ Listened(mem, s) \in Nat
                           /\ disk.statistics[s] <= Listened(mem, s)
                           /\ mem.statistics[s] \in Nat /\ s # Nobody
                           /\ Listened(disk, s) \in Nat /\ Listened(disk', s) \in Nat
    BY <1>1, <1>3, <2>1, DocumentParts, ReadTypes, ConstantsAssumption DEF SecondsFollow
  <2>9. \A s \in Sources : s # src => Listened(disk', s) = Listened(disk, s)
    BY <1>2, <2>1, <2>4, <2>8 DEF Listened
  <2>10. Listened(disk', src) >= Listened(disk, src)
    <3>1. CASE op.seconds = 0
      <4>1. Listened(disk', src) = Listened(disk, src) BY <2>1, <2>4, <3>1 DEF Listened
      <4> QED BY <1>2, <2>8, <4>1
    <3>2. CASE op.seconds # 0
      <4>1. op.target = Listened(mem, src) + op.seconds
        BY <1>1, <1>2 DEF OpSound, SaveSound
      <4>2. mem.pending.total \in Nat BY <1>1, DocumentParts
      <4>3. Listened(disk, src) <= Listened(mem, src)
        BY <1>2, <2>1, <2>8, <4>2 DEF Listened, Later
      <4>4. Listened(disk', src) >= op.target
        BY <1>2, <2>1, <2>4, <2>8, <3>2, <4>1 DEF Listened, Later
      <4> QED BY <1>2, <2>8, <4>1, <4>3, <4>4
    <3> QED BY <3>1, <3>2
  <2> HIDE DEF j, src
  <2>11. Ledger!Next
    BY <1>1, <1>2, <2>1, <2>5, <2>6, <2>7, <2>9, <2>10, LedgerStep DEF src
  <2> QED BY <2>11
<1> QED BY <1>7, <1>8, <1>9

LEMMA InitLedger ==
  ASSUME Init
  PROVE  Ledger!Init
<1>1. disk = Empty BY DEF Init
<1>2. /\ MergedProgress(Empty) = [i \in Items |-> NoRow]
      /\ MergedStatistics(Empty) = [s \in Sources |-> 0]
  BY EmptyReads DEF MergedProgress, MergedStatistics
<1> QED BY <1>1, <1>2 DEF Ledger!Init

LEMMA StepLedger ==
  ASSUME IInv, [Next]_vars
  PROVE  [Ledger!Next]_<<MergedProgress(disk), MergedStatistics(disk)>>
<1>1. CASE disk' = disk
  BY <1>1, LedgerStutters DEF Same
<1>2. CASE StoreStep /\ disk' # disk
  <2>1. phase = "up" /\ (FlushProgress \/ FlushStatistics \/ FlushClear \/ SaveCheckpoint)
    BY <1>2 DEF StoreStep, Saved, Returned, store
  <2>2. Same(disk', disk) \/ Ledger!Next
    BY <2>1, FlushProgressLedger, FlushStatisticsLedger, FlushClearLedger,
       SaveCheckpointLedger
  <2> QED BY <2>2, LedgerStutters
<1>3. CASE disk' # disk /\ ~StoreStep
  BY <1>3 DEF Next, vars, store, Play, Started, Tick, Exit, Stop, Crash, Start, TimePasses, Edit
<1> QED BY <1>1, <1>2, <1>3

\* Saving is atomic whatever fails in between: every behaviour of the store is one
\* of the ledger, in which a save replaces the row of its item by one that is not
\* earlier and credits its source in one step, and nothing else changes either.
THEOREM SavingIsAtomic == Spec => SavesAreAtomic
<1>1. Init => Ledger!Init BY InitLedger
<1>2. IInv /\ [Next]_vars => [Ledger!Next]_<<MergedProgress(disk), MergedStatistics(disk)>>
  BY StepLedger
<1> QED BY <1>1, <1>2, SpecInv, PTL DEF Spec, SavesAreAtomic, Ledger!Spec
=============================================================================
