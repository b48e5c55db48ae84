--------------------------- MODULE PkgQueueProofs ---------------------------
(***************************************************************************)
(* What Create-PkgQueue promises to Build-Target, for every package list   *)
(* and every state of the log directory: first about the closed form,      *)
(* NextJob, then that the scan, line after line, comes to it.              *)
(***************************************************************************)
EXTENDS PkgQueue, WellFoundedInduction, TLAPS

\* A non-empty set of numbers has a least one.
LEMMA LeastNumber ==
  ASSUME NEW T, T \subseteq Nat, T # {}
  PROVE  \E n \in T : \A m \in T : n <= m
<1>1. PICK n \in T : \A m \in T : ~(<<m, n>> \in OpToRel(<, Nat))
  BY WFMin, NatLessThanWellFounded
<1>2. ASSUME NEW m \in T PROVE n <= m
  <2>1. ~(m < n)
    BY <1>1 DEF OpToRel
  <2> QED
    BY <2>1
<1> QED
  BY <1>2

\* A non-empty set of jobs has one that Create-PkgQueue reads before the others.
LEMMA FirstOfJobs ==
  ASSUME NEW T, T \subseteq Job, T # {}
  PROVE  \E j \in T : \A k \in T : k = j \/ Before(j, k)
<1> DEFINE S == {j[1] : j \in T}
<1>a. \A j \in T : /\ j = <<j[1], j[2]>>
                   /\ j[1] \in Nat /\ j[2] \in Nat
  BY DEF Job, Stage, Pkg
<1>1. PICK s \in S : \A t \in S : s <= t
  <2>1. S \subseteq Nat /\ S # {}
    BY <1>a
  <2> HIDE DEF S
  <2> QED
    BY <2>1, LeastNumber
<1> DEFINE L == {j[2] : j \in {i \in T : i[1] = s}}
<1>2. PICK p \in L : \A q \in L : p <= q
  <2>1. L \subseteq Nat /\ L # {}
    BY <1>a, <1>1
  <2> HIDE DEF L
  <2> QED
    BY <2>1, LeastNumber
<1>3. PICK j \in T : j[1] = s /\ j[2] = p
  BY <1>2
<1>4. ASSUME NEW k \in T PROVE k = j \/ Before(j, k)
  <2>1. s <= k[1]
    BY <1>1
  <2>2. CASE k[1] = s
    <3>1. p <= k[2]
      BY <1>2, <2>2
    <3>2. p = k[2] => k = j
      BY <1>3, <1>a, <2>2
    <3> QED
      BY <3>1, <3>2, <1>3, <1>a, <2>2 DEF Before
  <2>3. CASE k[1] # s
    BY <2>1, <2>3, <1>3, <1>a DEF Before
  <2> QED
    BY <2>2, <2>3
<1> QED
  BY <1>3, <1>4

\* Create-PkgQueue reads one of two jobs first, never both.
LEMMA BeforeIsAsymmetric ==
  ASSUME NEW j \in Job, NEW k \in Job, Before(j, k)
  PROVE  j # k /\ ~Before(k, j)
BY DEF Before, Job, Stage, Pkg

\* Without -nobrokendeps, and with no output file about, the job that is
\* offered is the first pending one: everything before it has ended.
THEOREM NextJobIsFirstPending ==
  ASSUME NEW files \in [Job -> SUBSET File],
         \A k \in Job : "out" \notin files[k],
         NEW j \in NextJob(files, FALSE)
  PROVE  /\ Pending(j, files)
         /\ \A k \in Job : Before(k, j) => ~Pending(k, files)
<1>1. j \in Job /\ Buildable(j, files, FALSE)
  BY DEF NextJob
<1>2. Pending(j, files)
  BY <1>1 DEF Buildable
<1> DEFINE T == {k \in Job : Pending(k, files)}
<1>3. PICK f \in T : \A k \in T : k = f \/ Before(f, k)
  BY <1>1, <1>2, FirstOfJobs
<1>4. MissingBefore(f, files, FALSE) = {}
  <2> SUFFICES ASSUME NEW k \in MissingBefore(f, files, FALSE) PROVE FALSE
    OBVIOUS
  <2>1. k \in T /\ Before(k, f)
    BY DEF MissingBefore, Missing
  <2> QED
    BY <1>3, <2>1, BeforeIsAsymmetric
<1>5. Buildable(f, files, FALSE)
  BY <1>3, <1>4 DEF Buildable
<1>6. f = j
  <2>1. ~Before(f, j)
    BY <1>5, <1>3 DEF NextJob
  <2> QED
    BY <2>1, <1>1, <1>2, <1>3
<1>7. ASSUME NEW k \in Job, Before(k, j) PROVE ~Pending(k, files)
  BY <1>3, <1>6, <1>7, BeforeIsAsymmetric
<1> QED
  BY <1>2, <1>7

\* ... and as long as a job is pending, one is offered: the build loop cannot
\* stop early.
THEOREM PendingIsOffered ==
  ASSUME NEW files \in [Job -> SUBSET File],
         \A k \in Job : "out" \notin files[k],
         NEW p \in Job, Pending(p, files)
  PROVE  NextJob(files, FALSE) # {}
<1> DEFINE T == {k \in Job : Pending(k, files)}
<1>1. PICK f \in T : \A k \in T : k = f \/ Before(f, k)
  BY FirstOfJobs
<1>2. MissingBefore(f, files, FALSE) = {}
  <2> SUFFICES ASSUME NEW k \in MissingBefore(f, files, FALSE) PROVE FALSE
    OBVIOUS
  <2>1. k \in T /\ Before(k, f)
    BY DEF MissingBefore, Missing
  <2> QED
    BY <1>1, <2>1, BeforeIsAsymmetric
<1>3. Buildable(f, files, FALSE)
  BY <1>1, <1>2 DEF Buildable
<1>4. ASSUME NEW k \in Job, Before(k, f) PROVE ~Buildable(k, files, FALSE)
  BY <1>1, <1>4, BeforeIsAsymmetric DEF Buildable
<1> QED
  BY <1>1, <1>3, <1>4 DEF NextJob

\* -nobrokendeps makes a difference only when there is a failed job to respect.
LEMMA NobrokendepsNeedsError ==
  ASSUME NEW files, \A k \in Job : "err" \notin files[k]
  PROVE  NextJob(files, TRUE) = NextJob(files, FALSE)
<1>1. \A j \in Job : MissingBefore(j, files, TRUE) = MissingBefore(j, files, FALSE)
  BY DEF MissingBefore, Missing
<1>2. \A j \in Job : Buildable(j, files, TRUE) <=> Buildable(j, files, FALSE)
  BY <1>1 DEF Buildable
<1> QED
  BY <1>2 DEF NextJob

\* With or without -nobrokendeps: nothing of an earlier stage is pending when
\* a job is offered (Create-PkgQueue:113-135).
THEOREM EarlierStagesEnded ==
  ASSUME NEW files, NEW nobrokendeps \in BOOLEAN,
         NEW j \in NextJob(files, nobrokendeps)
  PROVE  \A k \in Job : k[1] < j[1] => ~Pending(k, files)
<1> SUFFICES ASSUME NEW k \in Job, k[1] < j[1], Pending(k, files)
             PROVE  FALSE
  OBVIOUS
<1>1. j \in Job /\ Buildable(j, files, nobrokendeps)
  BY DEF NextJob
<1>2. k \in MissingBefore(j, files, nobrokendeps)
  BY DEF MissingBefore, Missing, Before
<1>3. j[1] = 9 /\ OnlyStage9Pending(files)
  BY <1>1, <1>2 DEF Buildable
<1> QED
  BY <1>3 DEF OnlyStage9Pending
-----------------------------------------------------------------------------
\* The order in which the lines are read.

LEMMA LineNumber ==
  ASSUME NEW n \in Nat, n # 0, NEW a \in Nat
  PROVE  /\ a \div n \in Nat /\ a % n \in 0 .. n - 1
         /\ a = (n * (a \div n)) + (a % n)
OBVIOUS

LEMMA LinesInOrder ==
  ASSUME NEW n \in Nat, NEW s \in Nat, NEW t \in Nat,
         NEW p \in 0 .. n - 1, NEW q \in 0 .. n - 1, s < t
  PROVE  n * s + p < n * t + q
<1>1. n * t = n * s + n * (t - s)
  OBVIOUS
<1>2. n * (t - s) >= n
  OBVIOUS
<1> QED
  BY <1>1, <1>2

\* The scan reads its lines in the order Before.
LEMMA ReadInOrder ==
  ASSUME NEW i \in 1 .. 10 * NPkg
  PROVE  /\ LineRead(i) \in Stage \X Pkg
         /\ \A m \in 1 .. i - 1 : Before(LineRead(m), LineRead(i))
<1> DEFINE s(m) == (m - 1) \div NPkg
           p(m) == (m - 1) % NPkg
<1>0. NPkg \in Nat /\ NPkg # 0
  BY PkgAssumption
<1>1. \A m \in 1 .. i : /\ s(m) \in Nat /\ p(m) \in 0 .. NPkg - 1
                        /\ m - 1 = NPkg * s(m) + p(m)
  <2> SUFFICES ASSUME NEW m \in 1 .. i
               PROVE  /\ s(m) \in Nat /\ p(m) \in 0 .. NPkg - 1
                      /\ m - 1 = NPkg * s(m) + p(m)
    OBVIOUS
  <2> QED
    BY <1>0, m - 1 \in Nat, LineNumber
<1>2. \A m \in 1 .. i : LineRead(m) = <<s(m), p(m) + 1>>
  BY DEF LineRead
<1> HIDE DEF s, p
<1>i. s(i) \in Nat /\ p(i) \in 0 .. NPkg - 1 /\ i - 1 = NPkg * s(i) + p(i)
  BY <1>0, <1>1, i \in 1 .. i
<1>3. s(i) < 10
  <2>1. i - 1 < NPkg * 10 + 0
    BY <1>0
  <2>2. ASSUME 10 < s(i) PROVE FALSE
    <3>1. NPkg * 10 + 0 < NPkg * s(i) + p(i)
      BY <1>0, <1>i, <2>2, 0 \in 0 .. NPkg - 1, 10 \in Nat, LinesInOrder
    <3> QED
      BY <1>0, <1>1, <2>1, <3>1
  <2>3. s(i) # 10
    BY <1>0, <1>1, <2>1
  <2> QED
    BY <1>1, <2>2, <2>3
<1>4. ASSUME NEW m \in 1 .. i - 1
      PROVE  s(m) < s(i) \/ (s(m) = s(i) /\ p(m) < p(i))
  <2>1. m \in 1 .. i /\ m - 1 < i - 1
    BY <1>0
  <2>2. ASSUME s(i) < s(m) PROVE FALSE
    <3>1. NPkg * s(i) + p(i) < NPkg * s(m) + p(m)
      <4>1. s(m) \in Nat /\ p(m) \in 0 .. NPkg - 1
        BY <1>1, <2>1
      <4> QED
        BY <1>0, <1>i, <4>1, <2>2, LinesInOrder
    <3> QED
      BY <1>0, <1>1, <2>1, <3>1
  <2>3. ASSUME s(m) = s(i) PROVE p(m) < p(i)
    <3>1. NPkg * s(m) = NPkg * s(i) /\ NPkg * s(i) \in Int
      BY <1>0, <1>1, <2>3
    <3>2. /\ m - 1 = NPkg * s(m) + p(m) /\ i - 1 = NPkg * s(i) + p(i)
          /\ p(m) \in Int /\ p(i) \in Int
      BY <1>1, <2>1
    <3> QED
      BY <2>1, <3>1, <3>2
  <2> QED
    BY <1>1, <2>1, <2>2, <2>3
<1>5. \A m \in 1 .. i - 1 : Before(LineRead(m), LineRead(i))
  BY <1>1, <1>2, <1>4 DEF Before
<1> QED
  <2>1. s(i) \in 0 .. 9 /\ p(i) + 1 \in 1 .. NPkg /\ LineRead(i) = <<s(i), p(i) + 1>>
    BY <1>0, <1>i, <1>2, <1>3
  <2> QED
    BY <2>1, <1>5 DEF Stage, Pkg

\* It reads every job.
LEMMA EveryJobRead ==
  ASSUME NEW j \in Job
  PROVE  \E i \in 1 .. 10 * NPkg : LineRead(i) = j
<1>0. /\ NPkg \in Nat /\ NPkg # 0
      /\ j = <<j[1], j[2]>> /\ j[1] \in 0 .. 9 /\ j[2] \in 1 .. NPkg
  BY PkgAssumption DEF Job, Stage, Pkg
<1> DEFINE a == NPkg * j[1] + (j[2] - 1)
           s == a \div NPkg
           p == a % NPkg
<1>1. a \in Nat /\ a < NPkg * 10 + 0
  <2>1. j[2] - 1 \in 0 .. NPkg - 1 /\ j[1] \in Nat /\ j[1] < 10
    BY <1>0
  <2>2. 0 \in 0 .. NPkg - 1 /\ 10 \in Nat
    BY <1>0
  <2>3. NPkg * j[1] \in Nat
    BY <1>0
  <2> QED
    BY <1>0, <2>1, <2>2, <2>3, LinesInOrder
<1>2. s \in Nat /\ p \in 0 .. NPkg - 1 /\ a = (NPkg * s) + p
  <2> HIDE DEF a
  <2> QED
    BY <1>0, <1>1, LineNumber
<1> HIDE DEF s, p
<1>3. s = j[1]
  <2>1. j[2] - 1 \in 0 .. NPkg - 1 /\ j[1] \in Nat
    BY <1>0
  <2>2. ASSUME s < j[1] PROVE FALSE
    <3>1. NPkg * s + p < a
      BY <1>0, <1>2, <2>1, <2>2, LinesInOrder
    <3> HIDE DEF a
    <3> QED
      BY <1>1, <1>2, <3>1
  <2>3. ASSUME j[1] < s PROVE FALSE
    <3>1. a < NPkg * s + p
      BY <1>0, <1>2, <2>1, <2>3, LinesInOrder
    <3> HIDE DEF a
    <3> QED
      BY <1>1, <1>2, <3>1
  <2> QED
    BY <1>2, <2>1, <2>2, <2>3
<1>4. p = j[2] - 1
  BY <1>0, <1>2, <1>3
<1>5. a + 1 \in 1 .. 10 * NPkg
  BY <1>0, <1>1
<1>6. LineRead(a + 1) = <<s, p + 1>>
  BY <1>1, (a + 1) - 1 = a DEF LineRead, s, p
<1> QED
  BY <1>0, <1>3, <1>4, <1>5, <1>6

-----------------------------------------------------------------------------
\* What the scan carries.

\* Scanning is defined on every line: the equation of its function has a
\* solution, as a shortest one without would have a predecessor with one.
LEMMA ScanningStep ==
  ASSUME NEW files, NEW nobrokendeps
  PROVE  /\ Scanning(files, nobrokendeps)[0] = ScanStart
         /\ \A i \in 1 .. 10 * NPkg :
              Scanning(files, nobrokendeps)[i] =
                CheckPackage(Scanning(files, nobrokendeps)[i - 1], LineRead(i), files, nobrokendeps)
<1> DEFINE C(acc, i) == CheckPackage(acc, LineRead(i), files, nobrokendeps)
           F(n, f) == [i \in 0 .. n |-> IF i = 0 THEN ScanStart ELSE C(f[i - 1], i)]
           T == {n \in Nat : ~\E f : f = F(n, f)}
<1>1. T = {}
  <2> SUFFICES ASSUME T # {} PROVE FALSE
    OBVIOUS
  <2>1. PICK n \in T : \A m \in T : n <= m
    <3>1. T \subseteq Nat /\ T # {}
      OBVIOUS
    <3> HIDE DEF T
    <3> QED
      BY <3>1, LeastNumber
  <2> HIDE DEF C
  <2>2. n # 0
    <3> SUFFICES ASSUME n = 0 PROVE FALSE
      OBVIOUS
    <3> DEFINE g == [i \in 0 .. 0 |-> ScanStart]
    <3>1. g = F(0, g)
      OBVIOUS
    <3> QED
      BY <3>1, <2>1
  <2>3. n \in Nat /\ n - 1 \in Nat /\ n - 1 \notin T
    <3>1. n \in Nat /\ n - 1 \in Nat /\ ~(n <= n - 1)
      BY <2>2
    <3> HIDE DEF T
    <3> QED
      BY <2>1, <3>1
  <2>4. PICK f : f = F(n - 1, f)
    BY <2>3
  <2> DEFINE g == [i \in 0 .. n |-> IF i = n THEN C(f[n - 1], n) ELSE f[i]]
  <2>5. \A i \in 0 .. n : g[i] = IF i = 0 THEN ScanStart ELSE C(g[i - 1], i)
    <3>1. ASSUME NEW i \in 0 .. n - 1
          PROVE  g[i] = IF i = 0 THEN ScanStart ELSE C(f[i - 1], i)
      BY <2>3, <2>4
    <3>2. \A i \in 0 .. n : i # 0 => g[i - 1] = f[i - 1]
      BY <2>3
    <3>3. g[n] = C(f[n - 1], n)
      BY <2>3
    <3> HIDE DEF g
    <3> QED
      BY <2>2, <2>3, <3>1, <3>2, <3>3
  <2>6. g = F(n, g)
    BY <2>5
  <2> QED
    BY <2>1, <2>6
<1>2. 10 * NPkg \in Nat
  BY PkgAssumption
<1>3. PICK f : f = F(10 * NPkg, f)
  <2> HIDE DEF F
  <2> QED
    BY <1>1, <1>2
<1> DEFINE S == Scanning(files, nobrokendeps)
<1>4. S = F(10 * NPkg, S)
  BY <1>3 DEF Scanning
<1>5. \A i \in 0 .. 10 * NPkg : S[i] = IF i = 0 THEN ScanStart ELSE C(S[i - 1], i)
  <2> HIDE DEF S, C
  <2> QED
    BY <1>4
<1> QED
  <2> HIDE DEF S
  <2>1. S[0] = ScanStart
    BY <1>5, <1>2
  <2>2. \A i \in 1 .. 10 * NPkg : S[i] = C(S[i - 1], i)
    BY <1>5, <1>2
  <2> QED
    BY <2>1, <2>2 DEF S

\* The jobs read with the first i lines.
ReadBy(i) == {j \in Job : \E m \in 1 .. i : LineRead(m) = j}

\* What the scan knows of the jobs R it has read: it has printed those of them
\* that are buildable, in order, and its flags say what is missing of them.
Carries(acc, R, files, nobrokendeps) ==
  /\ acc = [queue |-> acc.queue, absent |-> acc.absent, absent0 |-> acc.absent0,
            absent01 |-> acc.absent01, nodeps9 |-> acc.nodeps9]
  /\ acc.queue \in Seq(Job)
  /\ \A j \in Job : (\E i \in 1 .. Len(acc.queue) : acc.queue[i] = j)
                     <=> j \in R /\ Buildable(j, files, nobrokendeps)
  /\ \A i, k \in 1 .. Len(acc.queue) : i < k => Before(acc.queue[i], acc.queue[k])
  /\ acc.absent = {k[2] : k \in {j \in R : Missing(j, files, nobrokendeps)}}
  /\ acc.absent0 <=> \E k \in R : Pending(k, files) /\ k[1] = 0
  /\ acc.absent01 <=> \E k \in R : Pending(k, files) /\ k[1] <= 1
  /\ acc.nodeps9 <=> \A k \in R : Pending(k, files) => k[1] = 9
  /\ acc.absent0 \in BOOLEAN /\ acc.absent01 \in BOOLEAN /\ acc.nodeps9 \in BOOLEAN

LEMMA CarriesStart ==
  ASSUME NEW files, NEW nobrokendeps
  PROVE  Carries(ScanStart, {}, files, nobrokendeps)
BY DEF Carries, ScanStart

\* The tests of the scan come to Buildable when the flags are right.
LEMMA MayBuildIsBuildable ==
  ASSUME NEW files, NEW nobrokendeps \in BOOLEAN, NEW acc, NEW R \in SUBSET Job,
         NEW j \in Job, \A k \in Job : k \in R <=> Before(k, j),
         Carries(acc, R, files, nobrokendeps), Pending(j, files),
         NEW here, here = [acc EXCEPT !.absent0 = @ \/ j[1] = 0,
                                      !.absent01 = @ \/ j[1] <= 1,
                                      !.nodeps9 = @ /\ j[1] = 9]
  PROVE  MayBuild(here, j, files) <=> Buildable(j, files, nobrokendeps)
<1> DEFINE missing == MissingBefore(j, files, nobrokendeps)
<1>0. j[1] \in 0 .. 9 /\ \A k \in Job : k[1] \in 0 .. 9
  BY DEF Job, Stage
<1>1. missing = {k \in R : Missing(k, files, nobrokendeps)}
  BY DEF MissingBefore
<1>2. acc.absent = {k[2] : k \in missing}
  BY <1>1 DEF Carries
<1>3. /\ here.absent = acc.absent
      /\ here.absent0 <=> acc.absent0 \/ j[1] = 0
      /\ here.absent01 <=> acc.absent01 \/ j[1] <= 1
      /\ here.nodeps9 <=> acc.nodeps9 /\ j[1] = 9
  <2>1. acc = [queue |-> acc.queue, absent |-> acc.absent, absent0 |-> acc.absent0,
               absent01 |-> acc.absent01, nodeps9 |-> acc.nodeps9]
    BY DEF Carries
  <2> QED
    BY <2>1
<1>4. \A k \in R : Pending(k, files) => k \in missing
  BY <1>1 DEF Missing
<1> HIDE DEF missing
<1>5. CASE missing = {}
  <2>1. acc.absent = {}
    BY <1>2, <1>5
  <2>2. ~acc.absent0 /\ ~acc.absent01
    BY <1>4, <1>5 DEF Carries
  <2>3. MayBuild(here, j, files) <=> "out" \notin files[j]
    BY <1>0, <1>3, <2>1, <2>2
      DEF MayBuild, NotInWork, EarlierStagesPresent, EarlierPresent
  <2> QED
    BY <1>5, <2>3 DEF Buildable, missing
<1>6. CASE missing # {}
  <2>1. acc.absent # {}
    BY <1>2, <1>6
  <2>2. OnlyStage9Pending(files) => ~acc.absent0 /\ ~acc.absent01 /\ acc.nodeps9
    BY DEF Carries, OnlyStage9Pending
  <2>3. ASSUME j[1] = 9, acc.nodeps9 PROVE OnlyStage9Pending(files)
    <3> SUFFICES ASSUME NEW k \in Job, Pending(k, files) PROVE k[1] = 9
      BY DEF OnlyStage9Pending
    <3>1. k[1] < 9 => k \in R
      BY <1>0, <2>3 DEF Before
    <3> QED
      BY <1>0, <2>3, <3>1 DEF Carries
  <2>4. MayBuild(here, j, files) <=>
          /\ "out" \notin files[j] /\ j[2] \notin acc.absent
          /\ j[1] = 9 /\ OnlyStage9Pending(files) /\ j[2] \notin T2Debug
    BY <1>0, <1>3, <2>1, <2>2, <2>3
      DEF MayBuild, NotInWork, EarlierStagesPresent, EarlierPresent
  <2> QED
    BY <1>2, <1>6, <2>4 DEF Buildable, missing
<1> QED
  BY <1>5, <1>6

\* One line more.
LEMMA CarriesStep ==
  ASSUME NEW files, NEW nobrokendeps \in BOOLEAN, NEW acc, NEW R \in SUBSET Job,
         NEW j \in Stage \X Pkg, \A k \in Job : k \in R <=> Before(k, j),
         Carries(acc, R, files, nobrokendeps)
  PROVE  Carries(CheckPackage(acc, j, files, nobrokendeps), R \cup ({j} \cap Job),
                 files, nobrokendeps)
<1> DEFINE new == CheckPackage(acc, j, files, nobrokendeps)
<1>1. CASE j \notin Job
  <2>1. R \cup ({j} \cap Job) = R
    BY <1>1
  <2> QED
    BY <1>1, <2>1 DEF CheckPackage
<1>a. acc = [queue |-> acc.queue, absent |-> acc.absent, absent0 |-> acc.absent0,
             absent01 |-> acc.absent01, nodeps9 |-> acc.nodeps9]
  BY DEF Carries
<1>b. j \notin R
  BY BeforeIsAsymmetric DEF Before, Job, Stage, Pkg
<1>2. CASE j \in Job /\ ~Pending(j, files)
  <2>1. ~Buildable(j, files, nobrokendeps)
    BY <1>2 DEF Buildable
  <2>2. R \cup ({j} \cap Job) = R \cup {j}
    BY <1>2
  <2>3. CASE Missing(j, files, nobrokendeps)
    <3>1. new = [acc EXCEPT !.absent = @ \cup {j[2]}]
      BY <1>2, <2>3 DEF CheckPackage, NotPresent, Missing, Pending
    <3>2. /\ new = [queue |-> new.queue, absent |-> new.absent, absent0 |-> new.absent0,
                    absent01 |-> new.absent01, nodeps9 |-> new.nodeps9]
          /\ new.queue = acc.queue /\ new.absent = acc.absent \cup {j[2]}
          /\ new.absent0 = acc.absent0 /\ new.absent01 = acc.absent01
          /\ new.nodeps9 = acc.nodeps9
      BY <1>a, <3>1
    <3> HIDE DEF new
    <3>3. new.absent = {k[2] : k \in {i \in R \cup {j} : Missing(i, files, nobrokendeps)}}
      BY <2>3, <3>2 DEF Carries
    <3>4. /\ \A i \in Job : (\E m \in 1 .. Len(acc.queue) : acc.queue[m] = i)
                             <=> i \in R \cup {j} /\ Buildable(i, files, nobrokendeps)
          /\ acc.absent0 <=> \E k \in R \cup {j} : Pending(k, files) /\ k[1] = 0
          /\ acc.absent01 <=> \E k \in R \cup {j} : Pending(k, files) /\ k[1] <= 1
          /\ acc.nodeps9 <=> \A k \in R \cup {j} : Pending(k, files) => k[1] = 9
      BY <1>2, <2>1 DEF Carries
    <3>5. /\ acc.queue \in Seq(Job)
          /\ \A i, k \in 1 .. Len(acc.queue) : i < k => Before(acc.queue[i], acc.queue[k])
          /\ acc.absent0 \in BOOLEAN /\ acc.absent01 \in BOOLEAN /\ acc.nodeps9 \in BOOLEAN
      BY DEF Carries
    <3>6. /\ \A i \in Job : (\E m \in 1 .. Len(new.queue) : new.queue[m] = i)
                             <=> i \in R \cup {j} /\ Buildable(i, files, nobrokendeps)
          /\ new.queue \in Seq(Job)
          /\ \A i, k \in 1 .. Len(new.queue) : i < k => Before(new.queue[i], new.queue[k])
      BY <3>2, <3>4, <3>5
    <3>7. /\ new.absent0 <=> \E k \in R \cup {j} : Pending(k, files) /\ k[1] = 0
          /\ new.absent01 <=> \E k \in R \cup {j} : Pending(k, files) /\ k[1] <= 1
          /\ new.nodeps9 <=> \A k \in R \cup {j} : Pending(k, files) => k[1] = 9
          /\ new.absent0 \in BOOLEAN /\ new.absent01 \in BOOLEAN /\ new.nodeps9 \in BOOLEAN
      BY <3>2, <3>4, <3>5
    <3>8. Carries(new, R \cup {j}, files, nobrokendeps)
      BY <3>2, <3>3, <3>6, <3>7 DEF Carries
    <3> QED
      BY <2>2, <3>8 DEF new
  <2>4. CASE ~Missing(j, files, nobrokendeps)
    <3>1. new = acc
      BY <1>2, <2>4 DEF CheckPackage, Missing, Pending
    <3>2. acc.absent = {k[2] : k \in {i \in R \cup {j} : Missing(i, files, nobrokendeps)}}
      BY <2>4 DEF Carries
    <3> HIDE DEF new
    <3> QED
      BY <1>2, <2>1, <2>2, <3>1, <3>2 DEF Carries, new
  <2> QED
    BY <2>3, <2>4
<1>3. CASE j \in Job /\ Pending(j, files)
  <2> DEFINE here == [acc EXCEPT !.absent0 = @ \/ j[1] = 0,
                                 !.absent01 = @ \/ j[1] <= 1,
                                 !.nodeps9 = @ /\ j[1] = 9]
             may == MayBuild(here, j, files)
             line == IF may THEN Append(acc.queue, j) ELSE acc.queue
  <2>1. may <=> Buildable(j, files, nobrokendeps)
    BY <1>3, MayBuildIsBuildable
  <2>2. /\ here.queue = acc.queue
        /\ here = [queue |-> acc.queue, absent |-> acc.absent,
                   absent0 |-> acc.absent0 \/ j[1] = 0,
                   absent01 |-> acc.absent01 \/ j[1] <= 1,
                   nodeps9 |-> acc.nodeps9 /\ j[1] = 9]
    <3> DEFINE a == acc.queue  b == acc.absent  c == acc.absent0  d == acc.absent01  e == acc.nodeps9
    <3>1. /\ acc = [queue |-> a, absent |-> b, absent0 |-> c, absent01 |-> d, nodeps9 |-> e]
          /\ c \in BOOLEAN /\ d \in BOOLEAN /\ e \in BOOLEAN
      BY <1>a DEF Carries
    <3> HIDE DEF a, b, c, d, e
    <3> DEFINE x == (c \/ j[1] = 0)  y == (d \/ j[1] <= 1)  z == (e /\ j[1] = 9)
    <3>2. here = [acc EXCEPT !.absent0 = x, !.absent01 = y, !.nodeps9 = z]
      BY Zenon DEF c, d, e
    <3> HIDE DEF x, y, z, here
    <3>3. here = [queue |-> a, absent |-> b, absent0 |-> x, absent01 |-> y, nodeps9 |-> z]
      BY <3>1, <3>2
    <3>4. here.queue = a
      BY <3>3
    <3> QED
      BY <3>3, <3>4 DEF a, b, c, d, e, x, y, z
  <2>3. new = NotPresent([here EXCEPT !.queue = IF MayBuild(here, j, files)
                                                THEN Append(@, j) ELSE @], j)
    BY <1>3 DEF CheckPackage, Pending
  <2> HIDE DEF here, new
  <2>4. new = [queue |-> line, absent |-> acc.absent \cup {j[2]},
               absent0 |-> acc.absent0 \/ j[1] = 0, absent01 |-> acc.absent01 \/ j[1] <= 1,
               nodeps9 |-> acc.nodeps9 /\ j[1] = 9]
    BY <2>2, <2>3 DEF NotPresent
  <2> HIDE DEF may
  <2>5. R \cup ({j} \cap Job) = R \cup {j}
    BY <1>3
  <2>6. acc.absent \cup {j[2]} =
          {k[2] : k \in {i \in R \cup {j} : Missing(i, files, nobrokendeps)}}
    BY <1>3 DEF Carries, Missing
  <2>7. /\ line \in Seq(Job)
        /\ \A i \in Job : (\E m \in 1 .. Len(line) : line[m] = i)
                            <=> i \in R \cup {j} /\ Buildable(i, files, nobrokendeps)
        /\ \A i, k \in 1 .. Len(line) : i < k => Before(line[i], line[k])
    <3> DEFINE q == acc.queue
    <3>1. /\ q \in Seq(Job)
          /\ \A i \in Job : (\E m \in 1 .. Len(q) : q[m] = i)
                             <=> i \in R /\ Buildable(i, files, nobrokendeps)
          /\ \A i, k \in 1 .. Len(q) : i < k => Before(q[i], q[k])
      BY DEF Carries
    <3>2. CASE ~may
      BY <2>1, <3>1, <3>2
    <3>3. CASE may
      <4> HIDE DEF q
      <4>1. /\ line = Append(q, j) /\ line \in Seq(Job)
            /\ Len(line) = Len(q) + 1 /\ Len(q) \in Nat
            /\ line[Len(q) + 1] = j
            /\ \A m \in 1 .. Len(q) : line[m] = q[m]
        BY <1>3, <3>1, <3>3 DEF q
      <4> HIDE DEF line
      <4>2. \A i \in Job : (\E m \in 1 .. Len(line) : line[m] = i)
                            <=> i = j \/ \E m \in 1 .. Len(q) : q[m] = i
        BY <4>1
      <4>3. \A m \in 1 .. Len(q) : q[m] \in Job /\ Before(q[m], j)
        BY <3>1
      <4>4. ASSUME NEW i \in 1 .. Len(line), NEW k \in 1 .. Len(line), i < k
            PROVE  Before(line[i], line[k])
        <5>1. i \in 1 .. Len(q) /\ (k \in 1 .. Len(q) \/ k = Len(q) + 1)
          BY <4>1, <4>4
        <5> QED
          BY <3>1, <4>1, <4>3, <4>4, <5>1
      <4> QED
        BY <2>1, <3>1, <3>3, <4>1, <4>2, <4>4
    <3> QED
      BY <3>2, <3>3
  <2> HIDE DEF line
  <2>8. /\ new.queue = line /\ new.absent = acc.absent \cup {j[2]}
        /\ new.absent0 = (acc.absent0 \/ j[1] = 0)
        /\ new.absent01 = (acc.absent01 \/ j[1] <= 1)
        /\ new.nodeps9 = (acc.nodeps9 /\ j[1] = 9)
        /\ new = [queue |-> new.queue, absent |-> new.absent, absent0 |-> new.absent0,
                  absent01 |-> new.absent01, nodeps9 |-> new.nodeps9]
    BY <2>4
  <2>9. /\ new.absent0 <=> \E k \in R \cup {j} : Pending(k, files) /\ k[1] = 0
        /\ new.absent01 <=> \E k \in R \cup {j} : Pending(k, files) /\ k[1] <= 1
        /\ new.nodeps9 <=> \A k \in R \cup {j} : Pending(k, files) => k[1] = 9
        /\ new.absent0 \in BOOLEAN /\ new.absent01 \in BOOLEAN /\ new.nodeps9 \in BOOLEAN
    BY <1>3, <2>8 DEF Carries
  <2> QED
    BY <2>5, <2>6, <2>7, <2>8, <2>9 DEF Carries, new
<1> QED
  BY <1>1, <1>2, <1>3

\* After i lines.
LEMMA ScanCarries ==
  ASSUME NEW files, NEW nobrokendeps \in BOOLEAN
  PROVE  \A i \in 0 .. 10 * NPkg :
           Carries(Scanning(files, nobrokendeps)[i], ReadBy(i), files, nobrokendeps)
<1> DEFINE N == 10 * NPkg
           P(i) == Carries(Scanning(files, nobrokendeps)[i], ReadBy(i), files, nobrokendeps)
           T == {i \in 0 .. N : ~P(i)}
<1>0. N \in Nat
  BY PkgAssumption
<1> SUFFICES ASSUME T # {} PROVE FALSE
  OBVIOUS
<1>1. PICK n \in T : \A m \in T : n <= m
  <2>1. T \subseteq Nat
    BY <1>0
  <2> HIDE DEF T
  <2> QED
    BY <2>1, LeastNumber
<1>2. n # 0
  <2>1. ReadBy(0) = {}
    BY DEF ReadBy
  <2> QED
    BY <1>1, <2>1, ScanningStep, CarriesStart
<1> HIDE DEF N, P
<1>3. n \in 1 .. N /\ n - 1 \in 0 .. N /\ n - 1 \notin T
  <2>1. n \in 1 .. N /\ n - 1 \in 0 .. N /\ ~(n <= n - 1)
    BY <1>0, <1>2
  <2> HIDE DEF T
  <2> QED
    BY <1>1, <2>1
<1>4. P(n - 1)
  BY <1>3
<1> DEFINE j == LineRead(n)
           R == ReadBy(n - 1)
<1>5. j \in Stage \X Pkg /\ \A m \in 1 .. n - 1 : Before(LineRead(m), j)
  BY <1>3, ReadInOrder DEF N
<1>6. \A k \in Job : k \in R <=> Before(k, j)
  <2> SUFFICES ASSUME NEW k \in Job PROVE k \in R <=> Before(k, j)
    OBVIOUS
  <2>1. k \in R => Before(k, j)
    BY <1>5 DEF ReadBy
  <2>2. PICK m \in 1 .. N : LineRead(m) = k
    BY EveryJobRead DEF N
  <2>3. CASE m < n
    BY <1>0, <1>3, <2>1, <2>2, <2>3 DEF ReadBy
  <2>4. CASE m = n
    BY <2>1, <2>2, <2>4 DEF Before, Job, Stage, Pkg
  <2>5. CASE m > n
    <3>1. n \in 1 .. m - 1
      BY <1>0, <1>3, <2>5
    <3>2. Before(j, k)
      BY <2>2, <3>1, ReadInOrder DEF N
    <3>3. ~Before(k, j)
      BY <3>2, <1>5 DEF Before, Job, Stage, Pkg
    <3> QED
      BY <2>1, <3>3
  <2> QED
    BY <1>0, <1>3, <2>3, <2>4, <2>5
<1>7. ReadBy(n) = R \cup ({j} \cap Job)
  <2>1. 1 .. n = (1 .. n - 1) \cup {n}
    BY <1>0, <1>3
  <2> QED
    BY <2>1 DEF ReadBy
<1>8. Scanning(files, nobrokendeps)[n] =
        CheckPackage(Scanning(files, nobrokendeps)[n - 1], j, files, nobrokendeps)
  BY <1>3, ScanningStep DEF N
<1>9. R \in SUBSET Job
  BY DEF ReadBy
<1>10. P(n)
  <2> HIDE DEF j, R
  <2>1. Carries(Scanning(files, nobrokendeps)[n - 1], R, files, nobrokendeps)
    BY <1>4 DEF P, R
  <2>2. Carries(CheckPackage(Scanning(files, nobrokendeps)[n - 1], j, files, nobrokendeps),
                R \cup ({j} \cap Job), files, nobrokendeps)
    BY <1>5, <1>6, <1>9, <2>1, CarriesStep
  <2> QED
    BY <1>7, <1>8, <2>2 DEF P
<1> QED
  BY <1>1, <1>10

\* The scan prints the buildable jobs, each once, in the order of the stages and
\* of the packages file; the first of them is the one -single takes
\* (Create-PkgQueue:141-146).
THEOREM ScanIsBuildable ==
  ASSUME NEW files, NEW nobrokendeps \in BOOLEAN
  PROVE  LET queue == Scan(files, nobrokendeps)
         IN  /\ queue \in Seq(Job)
             /\ {queue[i] : i \in DOMAIN queue} = {j \in Job : Buildable(j, files, nobrokendeps)}
             /\ \A i, k \in DOMAIN queue : i < k => Before(queue[i], queue[k])
             /\ NextJob(files, nobrokendeps) = {queue[i] : i \in DOMAIN queue \cap {1}}
<1> DEFINE queue == Scan(files, nobrokendeps)
<1>1. ReadBy(10 * NPkg) = Job
  BY EveryJobRead DEF ReadBy
<1>2. Carries(Scanning(files, nobrokendeps)[10 * NPkg], Job, files, nobrokendeps)
  BY <1>1, ScanCarries, PkgAssumption
<1>3. /\ queue \in Seq(Job)
      /\ \A j \in Job : (\E i \in 1 .. Len(queue) : queue[i] = j)
                         <=> Buildable(j, files, nobrokendeps)
      /\ \A i, k \in 1 .. Len(queue) : i < k => Before(queue[i], queue[k])
  BY <1>2 DEF Carries, Scan
<1> HIDE DEF queue
<1>4. DOMAIN queue = 1 .. Len(queue) /\ Len(queue) \in Nat
      /\ \A i \in 1 .. Len(queue) : queue[i] \in Job
  BY <1>3
<1>5. {queue[i] : i \in DOMAIN queue} = {j \in Job : Buildable(j, files, nobrokendeps)}
  BY <1>3, <1>4
<1>6. NextJob(files, nobrokendeps) = {queue[i] : i \in DOMAIN queue \cap {1}}
  <2>1. ASSUME NEW j \in NextJob(files, nobrokendeps)
        PROVE  1 \in DOMAIN queue /\ j = queue[1]
    <3>1. j \in Job /\ Buildable(j, files, nobrokendeps)
          /\ \A k \in Job : Before(k, j) => ~Buildable(k, files, nobrokendeps)
      BY DEF NextJob
    <3>2. PICK i \in 1 .. Len(queue) : queue[i] = j
      BY <1>3, <3>1
    <3>3. 1 \in 1 .. Len(queue)
      BY <1>4
    <3>4. ~(1 < i)
      BY <1>3, <1>4, <3>1, <3>2, <3>3
    <3> QED
      BY <1>4, <3>2, <3>3, <3>4
  <2>2. ASSUME 1 \in DOMAIN queue PROVE queue[1] \in NextJob(files, nobrokendeps)
    <3> SUFFICES ASSUME NEW k \in Job, Before(k, queue[1]), Buildable(k, files, nobrokendeps)
                 PROVE  FALSE
      BY <1>3, <1>4, <2>2 DEF NextJob
    <3>1. PICK i \in 1 .. Len(queue) : queue[i] = k
      BY <1>3
    <3>2. i = 1 \/ Before(queue[1], k)
      BY <1>3, <1>4, <2>2, <3>1
    <3> QED
      BY <1>4, <2>2, <3>1, <3>2, BeforeIsAsymmetric
  <2> QED
    BY <2>1, <2>2
<1> QED
  BY <1>3, <1>4, <1>5, <1>6 DEF queue
=============================================================================
