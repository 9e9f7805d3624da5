----------------------- MODULE SymbolsRegistry_proofs -----------------------
(***************************************************************************)
(* The safety of symbol loading, for any number of binaries, shards,       *)
(* stages and threads: the loader is prepared by one closure at a time and *)
(* not used once it was taken away, complete() is called at most once, its *)
(* message wakes the main thread, what was loaded stays, an evicted binary *)
(* begins no further stage, and a failure is not masked by the             *)
(* cancellations it causes.                                                *)
(*                                                                         *)
(* The argument is about one binary: its closures J, its stage s, its      *)
(* tasks_left n, its flag `failed` f, its loader l and its reports r.  The *)
(* heart of it is Counted: tasks_left exceeds the number of closures of    *)
(* the stage that have yet to reach fetch_sub() as soon as one of them has *)
(* failed, so nobody prepares another stage.                               *)
(***************************************************************************)
EXTENDS SymbolsRegistry, FiniteSetTheorems, TLAPS

\* The stage a closure runs; that of the ELF file comes before the first.
StageOf(j) == j[1]

\* Places before fetch_sub(), those of a failure, and those of the one closure
\* that is to call complete().
Working == {"queued", "run", "start", "schedule"}
Troubles == {"fail_error", "fail_cancelled", "stop_error", "stop_cancelled", "cancelling",
             "report_error", "report_cancelled"}
Failures == {"stop_error", "stop_cancelled", "report_error", "report_cancelled"}
Claims == Failures \cup {"report_ok"}

\* Where a closure goes that ends early, that finds the stage finished, that finds
\* or makes a failure, and that has told the others to stop.
Endings == {"done", "fail_error", "fail_cancelled"}
AfterStage == {"preparing", "cancelling", "fail_cancelled"}
AfterTrouble == Failures \cup {"done"}
Stopped == {"report_error", "report_cancelled"}

\* Closures of the stage that have yet to be counted by fetch_sub().
Pending(J, s) == {j \in Jobs : StageOf(j) = s /\ J[j] \in Working \cup {"none"}}
Troubled(J, f) == f \/ \E j \in Jobs : J[j] \in Troubles
Begun(J, s) ==
    \/ s = 0
    \/ \E j \in Jobs : StageOf(j) = s /\ J[j] # "none"
    \/ \E j \in Jobs : J[j] = "fanout"

\* Closures of earlier stages are past fetch_sub(), those of later ones are not added yet.
StagesInOrder(J, s) ==
    \A j \in Jobs : /\ StageOf(j) < s => J[j] \notin Working \cup {"none"}
                    /\ StageOf(j) > s => J[j] = "none"

\* Who prepares a stage ran in the one before it, and is alone.
PreparerAlone(J, s, n, f) ==
    \A j \in Jobs : J[j] \in {"preparing", "report_ok"} =>
        /\ StageOf(j) + 1 = s /\ n = 0 /\ ~f
        /\ \A i \in Jobs \ {j} : J[i] \in {"none", "done"} /\ (StageOf(i) = s => J[i] = "none")

\* Who adds the tasks of a stage has yet to add the last.
FanoutOpen(J, s) ==
    \A j \in Jobs : J[j] = "fanout" =>
        /\ StageOf(j) + 1 = s /\ s < LastStage
        /\ J[<<s, NumShards>>] = "none"
        /\ \A i \in Jobs \ {j} : J[i] # "fanout"

Counted(J, s, n, f) ==
    Begun(J, s) => Cardinality(Pending(J, s)) + (IF Troubled(J, f) THEN 1 ELSE 0) <= n

\* The loader is there from the first call of schedule() on, until it is taken for good.
LoaderKept(J, s, f, l) ==
    /\ J[ElfJob] = "schedule" \/ s > 0 => l # "none"
    /\ l = "taken" => s = LastStage /\ ~f /\ \A j \in Jobs : J[j] \in {"none", "done", "report_ok"}
    /\ \A j \in Jobs : J[j] = "report_ok" => l = "taken"

\* One closure at most is to call complete(), or has called it.
OneClaim(J, f, l, r) ==
    /\ \A j \in Jobs : J[j] \in Claims => r = 0
    /\ \A j \in Jobs : J[j] \in Failures => f
    /\ \A i, j \in Jobs : J[i] \in Claims /\ J[j] \in Claims => i = j
    /\ r \in {0, 1}
    /\ r = 1 => f \/ l = "taken"

SchedOK(J, s, n, f, l, r) ==
    /\ StagesInOrder(J, s)
    /\ PreparerAlone(J, s, n, f)
    /\ FanoutOpen(J, s)
    /\ Counted(J, s, n, f)
    /\ LoaderKept(J, s, f, l)
    /\ OneClaim(J, f, l, r)

\* ... apart from who is to call complete().
Orderly(J, s, n, f, l) ==
    /\ StagesInOrder(J, s) /\ PreparerAlone(J, s, n, f) /\ FanoutOpen(J, s)
    /\ Counted(J, s, n, f) /\ LoaderKept(J, s, f, l)

SchedInv ==
    \A id \in Ids : SchedOK(job[id], stage[id], tasksLeft[id], failed[id], loader[id], reports[id])

\* What has been sent of a binary, and what the main thread made of it.  u is where
\* the closure of the unwind tables is, which is added once the ELF file was opened.
ElfFirst(J, u, r, l, s) ==
    /\ J[ElfJob] \in {"none", "queued", "run"} => u = "none"
    /\ u = "none" => /\ J[ElfJob] \in {"none", "queued", "run", "done"}
                     /\ \A j \in ShardJobs : J[j] = "none"
                     /\ r = 0 /\ l = "none" /\ s = 0

ElfFailed(id) == unwindJob[id] = "none" /\ job[id][ElfJob] = "done"

\* The two results the main thread waits for; whether a message is one of them, what the
\* main thread has of it, and whether it has been sent.
Kinds == {"symbols", "unwind"}
Sets(m, id, kind) == m.id = id /\ (m.what = kind \/ (m.what = "elf" /\ m.res = "error"))
Shown(id, kind) == IF kind = "symbols" THEN symbols[id] ELSE unwind[id]
Settled(id, kind) ==
    ElfFailed(id) \/ (IF kind = "symbols" THEN reports[id] = 1 ELSE unwindJob[id] = "done")

\* One message for the symbols and one for the unwind tables of a binary.
OneMessage ==
    \A id \in Ids, kind \in Kinds :
        /\ \A k \in DOMAIN msgs : Sets(msgs[k], id, kind) =>
              /\ Shown(id, kind) = "loading" /\ Settled(id, kind)
              /\ \A h \in DOMAIN msgs : Sets(msgs[h], id, kind) => h = k
        /\ Shown(id, kind) # "loading" => Settled(id, kind)

OpenedFirst ==
    \A id \in Ids : ElfFirst(job[id], unwindJob[id], reports[id], loader[id], stage[id])

\* A binary that is not registered yet has no closures, and one that was evicted is cancelled.
Registered ==
    \A id \in Ids :
        /\ id > count => /\ loc[id] = NoLocator /\ ~cancel[id] /\ ~failed[id]
                         /\ unwindJob[id] = "none"
                         /\ \A j \in Jobs : job[id][j] = "none"
                         /\ symbols[id] = "loading" /\ unwind[id] = "loading"
        /\ id <= count /\ loc[id] = NoLocator => cancel[id]

\* While a binary is registered, only a failure cancels it, and is reported.
Seen == {"fail_cancelled", "cancelling"}
Masking == {"stop_cancelled", "report_cancelled"}
Caused(J, c, f) ==
    /\ c = TRUE => f = TRUE
    /\ \A j \in Jobs : (J[j] \in Seen => c = TRUE) /\ J[j] \notin Masking
CancelHasCause ==
    \A id \in Live :
        /\ Caused(job[id], cancel[id], failed[id])
        /\ \A k \in DOMAIN msgs : Sets(msgs[k], id, "symbols") => msgs[k].res # "cancelled"

IInv ==
    /\ TypeOK /\ SchedInv /\ NoFaults /\ MessagesWake
    /\ OpenedFirst /\ OneMessage /\ Registered /\ CancelHasCause /\ ErrorNotMasked

(***************************************************************************)
(* Closures and their numbers.                                             *)
(***************************************************************************)

\* Every closure belongs to one stage, that of the ELF file to stage 0.
LEMMA JobStages ==
    /\ ElfJob \in Jobs /\ StageOf(ElfJob) = 0
    /\ \A j \in Jobs : /\ StageOf(j) \in Nat /\ StageOf(j) < LastStage
                       /\ j # ElfJob => StageOf(j) > 0 /\ j \in ShardJobs
    /\ \A j \in ShardJobs : j \in Jobs /\ StageOf(j) > 0 /\ j # ElfJob
    /\ \A s \in Nat \ {0}, i \in Shards : s < LastStage =>
          <<s, i>> \in ShardJobs /\ <<s, i>> \in Jobs /\ StageOf(<<s, i>>) = s
    /\ NumShards \in Shards /\ LastStage \in Nat \ {0} /\ NumShards \in Nat \ {0}
BY SizesAssumption DEF StageOf, Jobs, ElfJob, ShardJobs, Shards

\* There are finitely many closures, at most NumShards of a stage.
LEMMA PendingFinite ==
    ASSUME NEW J, NEW s
    PROVE  /\ IsFiniteSet(Pending(J, s))
           /\ Cardinality(Pending(J, s)) \in Nat
           /\ s \in Nat \ {0} => Cardinality(Pending(J, s)) <= NumShards
<1>1. IsFiniteSet(Shards) /\ Cardinality(Shards) = NumShards
  BY FS_Interval, SizesAssumption DEF Shards
<1>2. IsFiniteSet(1..(LastStage - 1))
  BY FS_Interval, SizesAssumption
<1>3. IsFiniteSet(ShardJobs)
  BY <1>1, <1>2, FS_Product DEF ShardJobs
<1>4. IsFiniteSet({ElfJob})
  BY FS_Singleton
<1>5. IsFiniteSet(Jobs)
  BY <1>3, <1>4, FS_Union DEF Jobs
<1>6. Pending(J, s) \subseteq Jobs
  BY DEF Pending
<1>7. IsFiniteSet(Pending(J, s)) /\ Cardinality(Pending(J, s)) \in Nat
  BY <1>5, <1>6, FS_Subset, FS_CardinalityType
<1>8. ASSUME s \in Nat \ {0} PROVE Cardinality(Pending(J, s)) <= NumShards
  <2>1. IsFiniteSet({s}) /\ Cardinality({s}) = 1
    BY FS_Singleton
  <2>2. IsFiniteSet({s} \X Shards) /\ Cardinality({s} \X Shards) = 1 * NumShards
    BY <2>1, <1>1, FS_Product
  <2>3. Pending(J, s) \subseteq {s} \X Shards
    BY <1>8 DEF Pending, StageOf, Jobs, ElfJob, ShardJobs
  <2>4. Cardinality(Pending(J, s)) <= Cardinality({s} \X Shards)
    BY <2>2, <2>3, FS_Subset
  <2> QED
    BY <2>2, <2>4, SizesAssumption
<1> QED
  BY <1>7, <1>8

\* Counted, without the IF.
LEMMA CountedFacts ==
    ASSUME NEW J, NEW s, NEW n \in Nat, NEW f
    PROVE  Counted(J, s, n, f) <=>
             (Begun(J, s) => /\ Cardinality(Pending(J, s)) <= n
                             /\ Troubled(J, f) => Cardinality(Pending(J, s)) + 1 <= n)
<1> DEFINE c == Cardinality(Pending(J, s))
<1>1. c \in Nat
  BY PendingFinite
<1> HIDE DEF c
<1>2. (c + (IF Troubled(J, f) THEN 1 ELSE 0) <= n) <=> c <= n /\ (Troubled(J, f) => c + 1 <= n)
  BY <1>1
<1> QED
  BY <1>2 DEF Counted, c

\* A closure that has yet to reach fetch_sub() is of the current stage.
LEMMA WorkingIsCurrent ==
    ASSUME NEW J \in [Jobs -> Places], NEW s \in Nat, StagesInOrder(J, s),
           NEW j \in Jobs, J[j] \in Working
    PROVE  StageOf(j) = s /\ j \in Pending(J, s) /\ Begun(J, s)
BY JobStages DEF StagesInOrder, Working, Pending, Begun

\* Where the closures are once j has gone to q.
Put(J, j, q) == [J EXCEPT ![j] = q]

\* It is counted; when it leaves, one less is.
LEMMA OneLeaves ==
    ASSUME NEW J \in [Jobs -> Places], NEW s \in Nat, NEW j \in Pending(J, s),
           NEW q, q \notin Working \cup {"none"}
    PROVE  /\ Cardinality(Pending(Put(J, j, q), s)) \in Nat
           /\ Cardinality(Pending(J, s)) = Cardinality(Pending(Put(J, j, q), s)) + 1
<1>1. Pending(Put(J, j, q), s) = Pending(J, s) \ {j}
  BY DEF Pending, Put
<1>2. IsFiniteSet(Pending(J, s)) /\ Cardinality(Pending(J, s)) \in Nat
  BY PendingFinite
<1>3. Cardinality(Pending(J, s) \ {j}) = Cardinality(Pending(J, s)) - 1
  BY <1>2, FS_RemoveElement
<1>4. Cardinality(Pending(J, s) \ {j}) \in Nat
  BY <1>1, PendingFinite
<1>5. Cardinality(Pending(J, s)) = Cardinality(Pending(J, s) \ {j}) + 1
  BY <1>2, <1>3, <1>4
<1> QED
  BY <1>1, <1>4, <1>5

\* If one is counted, it is the only one.
LEMMA OnlyOne ==
    ASSUME NEW J, NEW s, NEW j \in Pending(J, s), Cardinality(Pending(J, s)) <= 1
    PROVE  Pending(J, s) = {j}
<1>1. SUFFICES ASSUME NEW i \in Pending(J, s), i # j PROVE FALSE
  OBVIOUS
<1>2. IsFiniteSet(Pending(J, s)) /\ Cardinality(Pending(J, s)) \in Nat
  BY PendingFinite
<1>3. IsFiniteSet(Pending(J, s) \ {j}) /\ Cardinality(Pending(J, s) \ {j}) = Cardinality(Pending(J, s)) - 1
  BY <1>2, FS_RemoveElement
<1>4. Cardinality(Pending(J, s) \ {j}) = 0
  BY <1>2, <1>3, FS_CardinalityType
<1>5. Pending(J, s) \ {j} = {}
  BY <1>3, <1>4, FS_EmptySet
<1> QED
  BY <1>1, <1>5

\* Arithmetic of fetch_sub().
LEMMA OneLess ==
    ASSUME NEW c \in Nat, NEW d \in Nat, NEW n \in Nat, c = d + 1, c <= n
    PROVE  d + 1 <= n /\ d <= n /\ d <= n - 1 /\ n # 0 /\ (c + 1 <= n => d + 1 <= n - 1) /\ n - 1 \in Nat
OBVIOUS

(***************************************************************************)
(* What the steps of a closure do to SchedOK: closure j moves to place q.  *)
(***************************************************************************)

\* The last task of the stage that is being fanned out.
LEMMA FanoutLast ==
    ASSUME NEW J, NEW s \in Nat, FanoutOpen(J, s), NEW i \in Jobs, J[i] = "fanout"
    PROVE  /\ s \in Nat \ {0} /\ <<s, NumShards>> \in Jobs /\ <<s, NumShards>> \in ShardJobs
           /\ StageOf(<<s, NumShards>>) = s
<1>1. StageOf(i) + 1 = s /\ s < LastStage /\ StageOf(i) \in Nat
  BY JobStages DEF FanoutOpen
<1>2. s \in Nat \ {0}
  BY <1>1
<1> QED
  BY <1>1, <1>2, JobStages

\* A closure that was added and does not begin to fan out leaves who does alone.
LEMMA FanoutKept ==
    ASSUME NEW J \in [Jobs -> Places], NEW s \in Nat, FanoutOpen(J, s),
           NEW j \in Jobs, J[j] # "none", NEW q, q # "fanout"
    PROVE  FanoutOpen([J EXCEPT ![j] = q], s)
<1> DEFINE J2 == [J EXCEPT ![j] = q]
<1>1. \A i \in Jobs : J2[i] = IF i = j THEN q ELSE J[i]
  OBVIOUS
<1> HIDE DEF J2
<1>2. ASSUME NEW i \in Jobs, J2[i] = "fanout"
      PROVE  /\ StageOf(i) + 1 = s /\ s < LastStage /\ J2[<<s, NumShards>>] = "none"
             /\ \A h \in Jobs \ {i} : J2[h] # "fanout"
  <2>1. J[i] = "fanout"
    BY <1>1, <1>2
  <2>2. StageOf(i) + 1 = s /\ s < LastStage /\ J[<<s, NumShards>>] = "none"
    BY <2>1 DEF FanoutOpen
  <2>3. <<s, NumShards>> \in Jobs
    BY <2>1, FanoutLast
  <2>4. J2[<<s, NumShards>>] = "none"
    BY <1>1, <2>2, <2>3
  <2>5. \A h \in Jobs \ {i} : J2[h] # "fanout"
    BY <1>1, <2>1 DEF FanoutOpen
  <2> QED
    BY <2>2, <2>4, <2>5
<1> QED
  BY <1>2 DEF FanoutOpen, J2

\* While a closure is at work, nobody prepares a stage, and nobody begins to.
LEMMA NobodyPrepares ==
    ASSUME NEW J \in [Jobs -> Places], NEW s \in Nat, NEW n, NEW f, PreparerAlone(J, s, n, f),
           NEW j \in Jobs, J[j] \notin {"none", "done", "preparing", "report_ok"},
           NEW q, q \notin {"preparing", "report_ok"}, NEW t, NEW m, NEW g
    PROVE  PreparerAlone([J EXCEPT ![j] = q], t, m, g)
<1> DEFINE J2 == [J EXCEPT ![j] = q]
<1>1. \A i \in Jobs : J2[i] = IF i = j THEN q ELSE J[i]
  OBVIOUS
<1> HIDE DEF J2
<1>2. \A i \in Jobs : J2[i] \notin {"preparing", "report_ok"}
  BY <1>1 DEF PreparerAlone
<1> QED
  BY <1>2 DEF PreparerAlone, J2

\* A closure of the past or the current stage that is not at work any more keeps the order.
LEMMA OrderKept ==
    ASSUME NEW J \in [Jobs -> Places], NEW s \in Nat, StagesInOrder(J, s),
           NEW j \in Jobs, J[j] # "none", NEW q, q # "none",
           q \in Working => J[j] \in Working
    PROVE  StagesInOrder([J EXCEPT ![j] = q], s)
<1> DEFINE J2 == [J EXCEPT ![j] = q]
<1>1. \A i \in Jobs : J2[i] = IF i = j THEN q ELSE J[i]
  OBVIOUS
<1> HIDE DEF J2
<1> QED
  BY <1>1, JobStages DEF StagesInOrder, J2

\* A closure that was not to call complete() and is not to now.
LEMMA NoNewClaim ==
    ASSUME NEW J \in [Jobs -> Places], NEW f, NEW l, NEW r, OneClaim(J, f, l, r),
           NEW j \in Jobs, NEW q, q \notin Claims, NEW m, l = "taken" => m = "taken"
    PROVE  OneClaim([J EXCEPT ![j] = q], f, m, r)
<1> DEFINE J2 == [J EXCEPT ![j] = q]
<1>1. \A i \in Jobs : J2[i] = IF i = j THEN q ELSE J[i]
  OBVIOUS
<1> HIDE DEF J2
<1>2. \A i \in Jobs : /\ J2[i] \in Claims => J[i] \in Claims
                      /\ J2[i] \in Failures => J[i] \in Failures
  BY <1>1 DEF Claims
<1> QED
  BY <1>2 DEF OneClaim, J2

\* The closure goes on towards fetch_sub(); the loader may be made.
LEMMA StillWorking ==
    ASSUME NEW J \in [Jobs -> Places], NEW s \in Nat, NEW n \in Nat, NEW f \in BOOLEAN,
           NEW l \in {"none", "some", "taken"}, NEW r \in Nat,
           SchedOK(J, s, n, f, l, r),
           NEW j \in Jobs, J[j] \in Working, NEW q \in Working,
           NEW m \in {l, "some"}, q = "schedule" => m # "none"
    PROVE  SchedOK([J EXCEPT ![j] = q], s, n, f, m, r)
<1> DEFINE J2 == [J EXCEPT ![j] = q]
<1>1. /\ \A i \in Jobs : J2[i] = IF i = j THEN q ELSE J[i]
      /\ l # "taken"
  BY DEF SchedOK, LoaderKept, Working
<1>2. StageOf(j) = s /\ Begun(J, s)
  BY WorkingIsCurrent DEF SchedOK
<1>3. StagesInOrder(J2, s)
  BY OrderKept DEF SchedOK, Working
<1>4. PreparerAlone(J2, s, n, f)
  BY NobodyPrepares DEF SchedOK, Working
<1>5. FanoutOpen(J2, s)
  BY FanoutKept DEF SchedOK, Working
<1>8. OneClaim(J2, f, m, r)
  BY <1>1, NoNewClaim DEF SchedOK, Working, Claims, Failures
<1> HIDE DEF J2
<1>6. Counted(J2, s, n, f)
  <2>1. Pending(J2, s) = Pending(J, s)
    BY <1>1 DEF Pending
  <2>2. Troubled(J2, f) <=> Troubled(J, f)
    BY <1>1 DEF Troubled, Working, Troubles
  <2> QED
    BY <1>2, <2>1, <2>2, CountedFacts DEF SchedOK
<1>7. LoaderKept(J2, s, f, m)
  BY <1>1, JobStages DEF SchedOK, LoaderKept, Working
<1> QED
  BY <1>3, <1>4, <1>5, <1>6, <1>7, <1>8 DEF SchedOK, J2

\* The closure fails, or ends, before fetch_sub().
LEMMA LeavesEarly ==
    ASSUME NEW J \in [Jobs -> Places], NEW s \in Nat, NEW n \in Nat, NEW f \in BOOLEAN,
           NEW l \in {"none", "some", "taken"}, NEW r \in Nat,
           SchedOK(J, s, n, f, l, r),
           NEW j \in Jobs, J[j] \in Working,
           NEW q \in Endings
    PROVE  SchedOK([J EXCEPT ![j] = q], s, n, f, l, r)
<1> USE DEF Endings
<1> DEFINE J2 == [J EXCEPT ![j] = q]
<1>1. /\ \A i \in Jobs : J2[i] = IF i = j THEN q ELSE J[i]
      /\ l # "taken"
  BY DEF SchedOK, LoaderKept, Working
<1>2. StageOf(j) = s /\ Begun(J, s) /\ j \in Pending(J, s)
  BY WorkingIsCurrent DEF SchedOK
<1>3. StagesInOrder(J2, s)
  BY OrderKept DEF SchedOK, Working
<1>4. PreparerAlone(J2, s, n, f)
  BY NobodyPrepares DEF SchedOK, Working
<1>5. FanoutOpen(J2, s)
  BY FanoutKept DEF SchedOK, Working
<1>8. OneClaim(J2, f, l, r)
  BY NoNewClaim DEF SchedOK, Claims, Failures
<1>9. /\ Cardinality(Pending(J2, s)) \in Nat
      /\ Cardinality(Pending(J, s)) = Cardinality(Pending(J2, s)) + 1
  <2>1. q \notin Working \cup {"none"}
    BY DEF Working
  <2>2. J2 = Put(J, j, q)
    BY DEF Put
  <2> HIDE DEF J2
  <2> QED BY <1>2, <2>1, <2>2, OneLeaves
<1> HIDE DEF J2
<1>6. Counted(J2, s, n, f)
  <2>2. Cardinality(Pending(J, s)) <= n /\ Cardinality(Pending(J, s)) \in Nat
    BY <1>2, CountedFacts, PendingFinite DEF SchedOK
  <2>3. Cardinality(Pending(J2, s)) + 1 <= n /\ Cardinality(Pending(J2, s)) <= n
    BY <1>9, <2>2, OneLess
  <2> QED
    BY <2>3, CountedFacts
<1>7. LoaderKept(J2, s, f, l)
  BY <1>1, JobStages DEF SchedOK, LoaderKept, Working
<1> QED
  BY <1>3, <1>4, <1>5, <1>6, <1>7, <1>8 DEF SchedOK, J2
\* task_load_elf() of a new binary is added.
LEMMA ElfAdded ==
    ASSUME NEW J \in [Jobs -> Places], NEW s \in Nat, s = 0, NEW n \in Nat, NEW f \in BOOLEAN,
           NEW l \in {"none", "some", "taken"}, NEW r \in Nat,
           SchedOK(J, s, n, f, l, r), \A j \in Jobs : J[j] = "none"
    PROVE  SchedOK([J EXCEPT ![ElfJob] = "queued"], s, n, f, l, r)
<1> DEFINE J2 == [J EXCEPT ![ElfJob] = "queued"]
<1>1. /\ \A i \in Jobs : J2[i] = IF i = ElfJob THEN "queued" ELSE J[i]
      /\ J2[ElfJob] = "queued"
  BY JobStages
<1>8. OneClaim(J2, f, l, r)
  BY NoNewClaim, JobStages DEF SchedOK, Claims, Failures
<1> HIDE DEF J2
<1>3. StagesInOrder(J2, s)
  BY <1>1, JobStages DEF StagesInOrder
<1>4. PreparerAlone(J2, s, n, f) /\ FanoutOpen(J2, s)
  BY <1>1 DEF PreparerAlone, FanoutOpen
<1>6. Counted(J2, s, n, f)
  <2>1. Pending(J2, s) = Pending(J, s)
    BY <1>1 DEF Pending, Working
  <2>2. Troubled(J2, f) <=> Troubled(J, f)
    BY <1>1 DEF Troubled, Troubles
  <2>3. Begun(J, s)
    BY DEF Begun
  <2> QED
    BY <2>1, <2>2, <2>3, CountedFacts DEF SchedOK
<1>7. LoaderKept(J2, s, f, l)
  <2>1. l # "taken"
    BY SizesAssumption DEF SchedOK, LoaderKept
  <2>2. J2[ElfJob] # "schedule"
    BY <1>1
  <2>3. ~(s > 0)
    OBVIOUS
  <2>4. \A j \in Jobs : J2[j] # "report_ok"
    BY <1>1
  <2> QED
    BY <2>1, <2>2, <2>3, <2>4 DEF LoaderKept
<1> QED
  BY <1>3, <1>4, <1>6, <1>7, <1>8 DEF SchedOK, J2

\* fetch_sub() finds others that have yet to come.
LEMMA NotTheLast ==
    ASSUME NEW J \in [Jobs -> Places], NEW s \in Nat, NEW n \in Nat, NEW f \in BOOLEAN,
           NEW l \in {"none", "some", "taken"}, NEW r \in Nat,
           SchedOK(J, s, n, f, l, r),
           NEW j \in Jobs, J[j] = "schedule"
    PROVE  /\ n # 0
           /\ n # 1 => SchedOK([J EXCEPT ![j] = "done"], s, n - 1, f, l, r)
<1> DEFINE J2 == [J EXCEPT ![j] = "done"]
<1>1. /\ \A i \in Jobs : J2[i] = IF i = j THEN "done" ELSE J[i]
      /\ l # "taken"
  BY DEF SchedOK, LoaderKept
<1>2. StageOf(j) = s /\ Begun(J, s) /\ j \in Pending(J, s)
  BY WorkingIsCurrent DEF SchedOK, Working
<1>3. StagesInOrder(J2, s)
  BY OrderKept DEF SchedOK, Working
<1>4. PreparerAlone(J2, s, n - 1, f)
  BY NobodyPrepares DEF SchedOK
<1>5. FanoutOpen(J2, s)
  BY FanoutKept DEF SchedOK
<1>8. OneClaim(J2, f, l, r)
  BY NoNewClaim DEF SchedOK, Claims, Failures
<1>9. /\ Cardinality(Pending(J2, s)) \in Nat
      /\ Cardinality(Pending(J, s)) = Cardinality(Pending(J2, s)) + 1
  <2>1. "done" \notin Working \cup {"none"}
    BY DEF Working
  <2>2. J2 = Put(J, j, "done")
    BY DEF Put
  <2> HIDE DEF J2
  <2> QED BY <1>2, <2>1, <2>2, OneLeaves
<1> HIDE DEF J2
<1>10. /\ Cardinality(Pending(J, s)) <= n /\ Cardinality(Pending(J, s)) \in Nat
       /\ Troubled(J, f) => Cardinality(Pending(J, s)) + 1 <= n
  BY <1>2, CountedFacts, PendingFinite DEF SchedOK
<1>11. /\ n # 0 /\ Cardinality(Pending(J2, s)) <= n - 1 /\ n - 1 \in Nat
       /\ Troubled(J, f) => Cardinality(Pending(J2, s)) + 1 <= n - 1
  BY <1>9, <1>10, OneLess
<1>12. Troubled(J2, f) => Troubled(J, f)
  BY <1>1 DEF Troubled, Troubles
<1>6. Counted(J2, s, n - 1, f)
  BY <1>11, <1>12, CountedFacts
<1>7. LoaderKept(J2, s, f, l)
  BY <1>1, JobStages DEF SchedOK, LoaderKept
<1> QED
  BY <1>3, <1>4, <1>5, <1>6, <1>7, <1>8, <1>11 DEF SchedOK, J2

\* All closures but j are done, or of stages to come.
OthersDone(J, s, j) ==
    \A i \in Jobs \ {j} : /\ StageOf(i) <= s => J[i] = "done"
                          /\ StageOf(i) > s => J[i] = "none"

\* It finds none: then all others are done, and none has failed.
LEMMA LastIsAlone ==
    ASSUME NEW J \in [Jobs -> Places], NEW s \in Nat, NEW k \in Nat, k < 2, NEW f \in BOOLEAN,
           NEW l \in {"none", "some", "taken"}, NEW r \in Nat,
           SchedOK(J, s, k, f, l, r),
           NEW j \in Jobs, J[j] = "schedule"
    PROVE  StageOf(j) = s /\ s < LastStage /\ l = "some" /\ ~f /\ OthersDone(J, s, j)
<1>1. StageOf(j) = s /\ Begun(J, s) /\ j \in Pending(J, s) /\ s < LastStage
  BY WorkingIsCurrent, JobStages DEF SchedOK, Working
<1>2. l = "some"
  BY <1>1, JobStages DEF SchedOK, LoaderKept
<1>3. /\ Cardinality(Pending(J, s)) <= k /\ Cardinality(Pending(J, s)) \in Nat
      /\ Troubled(J, f) => Cardinality(Pending(J, s)) + 1 <= k
  BY <1>1, CountedFacts, PendingFinite DEF SchedOK
<1>4. Pending(J, s) = {j}
  BY <1>1, <1>3, OnlyOne
<1>5. Cardinality(Pending(J, s)) = 1
  BY <1>4, FS_Singleton
<1>6. ~Troubled(J, f)
  BY <1>3, <1>5
<1>7. ASSUME NEW i \in Jobs \ {j}
      PROVE  (StageOf(i) <= s => J[i] = "done") /\ (StageOf(i) > s => J[i] = "none")
  <2>1. J[i] \notin Troubles
    BY <1>6 DEF Troubled
  <2>2. J[i] \notin {"preparing", "report_ok"}
    BY DEF SchedOK, PreparerAlone
  <2>3. J[i] # "fanout"
    <3> SUFFICES ASSUME J[i] = "fanout" PROVE FALSE
      OBVIOUS
    <3>1. J[<<s, NumShards>>] = "none" /\ <<s, NumShards>> \in Jobs /\ StageOf(<<s, NumShards>>) = s
      BY FanoutLast DEF SchedOK, FanoutOpen
    <3>2. <<s, NumShards>> \in Pending(J, s)
      BY <3>1 DEF Pending
    <3> QED
      BY <3>1, <3>2, <1>4
  <2>4. StageOf(i) = s => J[i] \notin Working \cup {"none"}
    BY <1>4 DEF Pending
  <2>5. /\ StageOf(i) < s => J[i] \notin Working \cup {"none"}
        /\ StageOf(i) > s => J[i] = "none"
    BY DEF SchedOK, StagesInOrder
  <2>6. J[i] \in Places
    OBVIOUS
  <2>7. StageOf(i) <= s => J[i] \notin Working \cup {"none"}
    BY <2>4, <2>5, JobStages
  <2>8. StageOf(i) <= s => J[i] = "done"
    BY <2>1, <2>2, <2>3, <2>6, <2>7 DEF Places, Troubles, Working
  <2> QED
    BY <2>5, <2>8
<1>8. ~f
  BY <1>6 DEF Troubled
<1> QED
  BY <1>1, <1>2, <1>7, <1>8 DEF OthersDone

\* So it may prepare the next stage, or stop.
LEMMA TheLast ==
    ASSUME NEW J \in [Jobs -> Places], NEW s \in Nat, NEW k \in Nat, k < 2, NEW f \in BOOLEAN,
           NEW l \in {"none", "some", "taken"}, NEW r \in Nat,
           SchedOK(J, s, k, f, l, r),
           NEW j \in Jobs, J[j] = "schedule",
           NEW q \in AfterStage,
           NEW t \in Nat, t = s + 1, NEW n \in Nat, n = 0
    PROVE  SchedOK([J EXCEPT ![j] = q], t, n, f, l, r)
<1> USE DEF AfterStage
<1> DEFINE J2 == [J EXCEPT ![j] = q]
<1>1. \A i \in Jobs : J2[i] = IF i = j THEN q ELSE J[i]
  OBVIOUS
<1>2. StageOf(j) = s /\ s < LastStage /\ l = "some" /\ ~f /\ OthersDone(J, s, j)
  BY LastIsAlone
<1>8. OneClaim(J2, f, l, r)
  BY NoNewClaim DEF SchedOK, Claims, Failures
<1> HIDE DEF J2
<1>a. /\ \A i \in Jobs \ {j} : /\ StageOf(i) <= s => J2[i] = "done"
                               /\ StageOf(i) > s => J2[i] = "none"
      /\ J2[j] = q
  BY <1>1, <1>2 DEF OthersDone
<1>b. ASSUME NEW i \in Jobs
      PROVE  /\ StageOf(i) < t => StageOf(i) <= s
             /\ StageOf(i) <= s => StageOf(i) < t /\ StageOf(i) # t
             /\ StageOf(i) > t => StageOf(i) > s
             /\ StageOf(i) = t => StageOf(i) > s
             /\ StageOf(i) <= s \/ StageOf(i) > s
  <2> DEFINE y == StageOf(i)
  <2>1. y \in Nat
    BY JobStages
  <2> HIDE DEF y
  <2>2. /\ y < t => y <= s
        /\ y <= s => y < t /\ y # t
        /\ y > t => y > s
        /\ y = t => y > s
        /\ y <= s \/ y > s
    BY <2>1
  <2> QED
    BY <2>2 DEF y
<1>c. StageOf(j) <= s /\ ~(StageOf(j) > s) /\ t # 0 /\ StageOf(j) + 1 = t
  <2>1. StageOf(j) = s
    BY <1>2
  <2> QED
    BY <2>1
<1>3. StagesInOrder(J2, t)
  <2> SUFFICES ASSUME NEW i \in Jobs
               PROVE  /\ StageOf(i) < t => J2[i] \notin Working \cup {"none"}
                      /\ StageOf(i) > t => J2[i] = "none"
    BY DEF StagesInOrder
  <2>1. CASE i = j
    BY <2>1, <1>a, <1>b, <1>c DEF Working
  <2>2. CASE i # j
    BY <2>2, <1>a, <1>b DEF Working
  <2> QED
    BY <2>1, <2>2
<1>4. PreparerAlone(J2, t, n, f)
  BY <1>a, <1>b, <1>c, <1>2 DEF PreparerAlone
<1>5. FanoutOpen(J2, t)
  BY <1>a, <1>b DEF FanoutOpen
<1>6. Counted(J2, t, n, f)
  <2>1. ~Begun(J2, t)
    BY <1>a, <1>b, <1>c DEF Begun
  <2> QED
    BY <2>1 DEF Counted
<1>7. LoaderKept(J2, t, f, l)
  BY <1>a, <1>b, <1>2 DEF LoaderKept
<1> QED
  BY <1>3, <1>4, <1>5, <1>6, <1>7, <1>8 DEF SchedOK, J2

\* A stage that nobody has begun.
LEMMA StageIsNew ==
    ASSUME NEW J \in [Jobs -> Places], NEW s \in Nat, NEW n \in Nat, NEW f \in BOOLEAN,
           NEW l \in {"none", "some", "taken"}, NEW r \in Nat,
           SchedOK(J, s, n, f, l, r),
           NEW j \in Jobs, J[j] = "preparing"
    PROVE  /\ StageOf(j) + 1 = s /\ s \in Nat \ {0} /\ n = 0 /\ ~f /\ r = 0 /\ l = "some"
           /\ \A i \in Jobs \ {j} : /\ J[i] \in {"none", "done"}
                                    /\ StageOf(i) = s => J[i] = "none"
<1>1. /\ StageOf(j) + 1 = s /\ n = 0 /\ ~f
      /\ \A i \in Jobs \ {j} : J[i] \in {"none", "done"} /\ (StageOf(i) = s => J[i] = "none")
  BY DEF SchedOK, PreparerAlone
<1>2. s \in Nat \ {0}
  BY <1>1, JobStages
<1>3. l = "some"
  <2>1. s > 0
    BY <1>2
  <2>2. l # "none"
    BY <2>1 DEF SchedOK, LoaderKept
  <2>3. l # "taken"
    BY DEF SchedOK, LoaderKept
  <2> QED
    BY <2>2, <2>3
<1>4. r = 0
  BY <1>1, <1>3 DEF SchedOK, OneClaim
<1> QED
  BY <1>1, <1>2, <1>3, <1>4

\* prepare_stage() returns Ok(false): the loader is taken.
LEMMA AllPrepared ==
    ASSUME NEW J \in [Jobs -> Places], NEW n \in Nat, NEW f \in BOOLEAN,
           NEW l \in {"none", "some", "taken"}, NEW r \in Nat,
           SchedOK(J, LastStage, n, f, l, r),
           NEW j \in Jobs, J[j] = "preparing"
    PROVE  SchedOK([J EXCEPT ![j] = "report_ok"], LastStage, n, f, "taken", r)
<1> DEFINE J2 == [J EXCEPT ![j] = "report_ok"]
<1>1. \A i \in Jobs : J2[i] = IF i = j THEN "report_ok" ELSE J[i]
  OBVIOUS
<1>0. LastStage \in Nat
  BY SizesAssumption
<1>2. /\ StageOf(j) + 1 = LastStage /\ n = 0 /\ ~f /\ r = 0
      /\ \A i \in Jobs \ {j} : J[i] \in {"none", "done"} /\ (StageOf(i) = LastStage => J[i] = "none")
  BY <1>0, StageIsNew
<1>3. StagesInOrder(J2, LastStage)
  BY <1>0, OrderKept DEF SchedOK, Working
<1> HIDE DEF J2
<1>4. PreparerAlone(J2, LastStage, n, f)
  BY <1>1, <1>2 DEF PreparerAlone
<1>5. FanoutOpen(J2, LastStage)
  BY <1>1, <1>2 DEF FanoutOpen
<1>6. Counted(J2, LastStage, n, f)
  <2>0. LastStage # 0 /\ \A i \in Jobs : StageOf(i) # LastStage
    BY JobStages
  <2>1. ~Begun(J2, LastStage)
    BY <1>1, <1>2, <2>0 DEF Begun
  <2> QED
    BY <2>1 DEF Counted
<1>7. LoaderKept(J2, LastStage, f, "taken")
  BY <1>1, <1>2 DEF LoaderKept
<1>8. OneClaim(J2, f, "taken", r)
  BY <1>1, <1>2 DEF OneClaim, Claims, Failures
<1> QED
  BY <1>3, <1>4, <1>5, <1>6, <1>7, <1>8 DEF SchedOK, J2

\* The tasks of the stage are counted, or given up.
LEMMA StagePrepared ==
    ASSUME NEW J \in [Jobs -> Places], NEW s \in Nat, NEW n \in Nat, NEW f \in BOOLEAN,
           NEW l \in {"none", "some", "taken"}, NEW r \in Nat,
           SchedOK(J, s, n, f, l, r), s < LastStage,
           NEW j \in Jobs, J[j] = "preparing"
    PROVE  /\ SchedOK([J EXCEPT ![j] = "cancelling"], s, n, f, l, r)
           /\ SchedOK([J EXCEPT ![j] = "fanout"], s, NumShards, f, l, r)
<1>2. /\ StageOf(j) + 1 = s /\ n = 0 /\ ~f /\ r = 0 /\ l = "some" /\ s \in Nat \ {0}
      /\ \A i \in Jobs \ {j} : J[i] \in {"none", "done"} /\ (StageOf(i) = s => J[i] = "none")
  BY StageIsNew
<1>a. SchedOK([J EXCEPT ![j] = "cancelling"], s, n, f, l, r)
  <2> DEFINE J2 == [J EXCEPT ![j] = "cancelling"]
  <2>1. \A i \in Jobs : J2[i] = IF i = j THEN "cancelling" ELSE J[i]
    OBVIOUS
  <2>3. StagesInOrder(J2, s)
    BY OrderKept DEF SchedOK, Working
  <2>8. OneClaim(J2, f, l, r)
    BY NoNewClaim DEF SchedOK, Claims, Failures
  <2> HIDE DEF J2
  <2>4. PreparerAlone(J2, s, n, f) /\ FanoutOpen(J2, s)
    BY <2>1, <1>2 DEF PreparerAlone, FanoutOpen
  <2>5. ~Begun(J2, s)
    BY <2>1, <1>2, JobStages DEF Begun
  <2>6. Counted(J2, s, n, f)
    BY <2>5 DEF Counted
  <2>7. LoaderKept(J2, s, f, l)
    BY <2>1, <1>2 DEF LoaderKept
  <2> QED
    BY <2>3, <2>4, <2>6, <2>7, <2>8 DEF SchedOK, J2
<1>b. SchedOK([J EXCEPT ![j] = "fanout"], s, NumShards, f, l, r)
  <2> DEFINE J2 == [J EXCEPT ![j] = "fanout"]
  <2>1. \A i \in Jobs : J2[i] = IF i = j THEN "fanout" ELSE J[i]
    OBVIOUS
  <2>3. StagesInOrder(J2, s)
    BY OrderKept DEF SchedOK, Working
  <2>8. OneClaim(J2, f, l, r)
    BY NoNewClaim DEF SchedOK, Claims, Failures
  <2> HIDE DEF J2
  <2>4. PreparerAlone(J2, s, NumShards, f)
    BY <2>1, <1>2 DEF PreparerAlone
  <2>5. FanoutOpen(J2, s)
    <3>1. /\ <<s, NumShards>> \in Jobs /\ StageOf(<<s, NumShards>>) = s
          /\ StageOf(j) # s
      BY <1>2, JobStages
    <3>2. J2[<<s, NumShards>>] = "none"
      BY <3>1, <2>1, <1>2
    <3> QED
      BY <3>2, <2>1, <1>2 DEF FanoutOpen
  <2>6. Counted(J2, s, NumShards, f)
    <3>1. ~Troubled(J2, f)
      BY <2>1, <1>2 DEF Troubled, Troubles
    <3> QED
      BY <3>1, <1>2, PendingFinite, CountedFacts, SizesAssumption
  <2>7. LoaderKept(J2, s, f, l)
    BY <2>1, <1>2 DEF LoaderKept
  <2> QED
    BY <2>3, <2>4, <2>5, <2>6, <2>7, <2>8 DEF SchedOK, J2
<1> QED
  BY <1>a, <1>b

\* Where they are once j has queued the closure x, and gone to q.
Queued(J, x, j, q) == [J EXCEPT ![x] = "queued", ![j] = q]

\* A task of the stage is added; q is where the closure that adds it goes on.
LEMMA TaskAdded ==
    ASSUME NEW J \in [Jobs -> Places], NEW s \in Nat, NEW n \in Nat, NEW f \in BOOLEAN,
           NEW l \in {"none", "some", "taken"}, NEW r \in Nat,
           SchedOK(J, s, n, f, l, r),
           NEW j \in Jobs, J[j] = "fanout",
           NEW i \in Shards, NEW x \in ShardJobs, x = <<s, i>>, J[x] = "none",
           NEW q, q = IF i = NumShards THEN "done" ELSE "fanout"
    PROVE  SchedOK(Queued(J, x, j, q), s, n, f, l, r)
<1> DEFINE J2 == Queued(J, x, j, q)
<1>1. /\ StageOf(j) + 1 = s /\ s < LastStage /\ J[<<s, NumShards>>] = "none"
      /\ \A h \in Jobs \ {j} : J[h] # "fanout"
      /\ s \in Nat \ {0} /\ <<s, NumShards>> \in Jobs
  BY FanoutLast DEF SchedOK, FanoutOpen
<1>2. x \in Jobs /\ StageOf(x) = s /\ x # j /\ x # ElfJob /\ StageOf(j) # s
  BY <1>1, JobStages
<1>9. x = <<s, NumShards>> => i = NumShards
  OBVIOUS
<1>10. i # NumShards => x # <<s, NumShards>>
  OBVIOUS
<1>3. \A h \in Jobs : J2[h] = IF h = j THEN q ELSE IF h = x THEN "queued" ELSE J[h]
  BY <1>2 DEF Queued
<1> HIDE DEF J2
<1>4. StagesInOrder(J2, s)
  BY <1>1, <1>2, <1>3, JobStages DEF SchedOK, StagesInOrder, Working
<1>5. PreparerAlone(J2, s, n, f)
  BY <1>3 DEF SchedOK, PreparerAlone
<1>6. FanoutOpen(J2, s)
  <2>1. CASE i = NumShards
    <3>1. \A h \in Jobs : J2[h] # "fanout"
      BY <2>1, <1>1, <1>3
    <3> QED
      BY <3>1 DEF FanoutOpen
  <2>2. CASE i # NumShards
    <3>1. J2[<<s, NumShards>>] = "none"
      BY <2>2, <1>1, <1>3, <1>10
    <3> QED
      BY <3>1, <2>2, <1>1, <1>3 DEF FanoutOpen
  <2> QED
    BY <2>1, <2>2
<1>7. Counted(J2, s, n, f)
  <2>1. Pending(J2, s) = Pending(J, s)
    BY <1>1, <1>2, <1>3 DEF Pending, Working
  <2>2. Troubled(J2, f) <=> Troubled(J, f)
    BY <1>1, <1>2, <1>3 DEF Troubled, Troubles
  <2>3. Begun(J, s)
    BY DEF Begun
  <2> QED
    BY <2>1, <2>2, <2>3, CountedFacts DEF SchedOK
<1>8. LoaderKept(J2, s, f, l)
  BY <1>2, <1>3, JobStages DEF SchedOK, LoaderKept
<1>11. OneClaim(J2, f, l, r)
  <2>1. \A h \in Jobs : /\ J2[h] \in Claims => J[h] \in Claims
                        /\ J2[h] \in Failures => J[h] \in Failures
    BY <1>3 DEF Claims, Failures
  <2> QED
    BY <2>1 DEF SchedOK, OneClaim
<1> QED
  BY <1>4, <1>5, <1>6, <1>7, <1>8, <1>11 DEF SchedOK, J2

\* A closure that failed or saw the cancellation claims `failed`, or finds it claimed.
\* Nobody prepares a stage then, whatever becomes of `failed`.
LEMMA InTrouble ==
    ASSUME NEW J \in [Jobs -> Places], NEW s \in Nat, NEW n \in Nat, NEW f \in BOOLEAN,
           NEW l \in {"none", "some", "taken"}, NEW r \in Nat,
           SchedOK(J, s, n, f, l, r),
           NEW j \in Jobs, J[j] \in {"fail_error", "fail_cancelled", "cancelling"},
           NEW q \in AfterTrouble, NEW g \in BOOLEAN
    PROVE  Orderly([J EXCEPT ![j] = q], s, n, g, l) /\ l # "taken"
<1> USE DEF AfterTrouble
<1> DEFINE J2 == [J EXCEPT ![j] = q]
<1>1. /\ \A i \in Jobs : J2[i] = IF i = j THEN q ELSE J[i]
      /\ l # "taken"
  BY DEF SchedOK, LoaderKept
<1>2. q \notin Working \cup {"none", "fanout", "preparing", "report_ok"}
  BY DEF Failures, Working
<1>3. StagesInOrder(J2, s)
  BY <1>2, OrderKept DEF SchedOK
<1>4. PreparerAlone(J2, s, n, g)
  BY <1>2, NobodyPrepares DEF SchedOK
<1>5. FanoutOpen(J2, s)
  BY <1>2, FanoutKept DEF SchedOK
<1> HIDE DEF J2
<1>6. Counted(J2, s, n, g)
  <2>1. Pending(J2, s) = Pending(J, s)
    BY <1>1, <1>2 DEF Pending, Working
  <2>2. Troubled(J, f)
    BY DEF Troubled, Troubles
  <2>3. Begun(J2, s) => Begun(J, s)
    BY <1>1, <1>2 DEF Begun
  <2> QED
    BY <2>1, <2>2, <2>3, CountedFacts DEF SchedOK
<1>7. LoaderKept(J2, s, g, l)
  BY JobStages, <1>1, <1>2 DEF SchedOK, LoaderKept, Working
<1> QED
  BY <1>1, <1>3, <1>4, <1>5, <1>6, <1>7 DEF J2, Orderly

\* The first to claim `failed` is the only one to call complete().
LEMMA ClaimedFirst ==
    ASSUME NEW J \in [Jobs -> Places], NEW s \in Nat, NEW n \in Nat,
           NEW l \in {"none", "some", "taken"}, NEW r \in Nat,
           SchedOK(J, s, n, FALSE, l, r),
           NEW j \in Jobs, J[j] \in {"fail_error", "fail_cancelled", "cancelling"},
           NEW q \in Failures
    PROVE  SchedOK([J EXCEPT ![j] = q], s, n, TRUE, l, r)
<1> DEFINE J2 == [J EXCEPT ![j] = q]
<1>1. \A i \in Jobs : J2[i] = IF i = j THEN q ELSE J[i]
  OBVIOUS
<1>2. q \in AfterTrouble /\ FALSE \in BOOLEAN /\ TRUE \in BOOLEAN
  BY DEF AfterTrouble
<1>3. /\ StagesInOrder(J2, s) /\ PreparerAlone(J2, s, n, TRUE) /\ FanoutOpen(J2, s)
      /\ Counted(J2, s, n, TRUE) /\ LoaderKept(J2, s, TRUE, l) /\ l # "taken"
  <2>1. Orderly(J2, s, n, TRUE, l) /\ l # "taken"
    BY <1>2, InTrouble
  <2> QED BY <2>1 DEF Orderly
<1> HIDE DEF J2
<1>4. \A i \in Jobs : J[i] \in Claims => J[i] \in Failures
  BY <1>3 DEF SchedOK, LoaderKept, Claims
<1>5. /\ \A i \in Jobs : J[i] \notin Claims
      /\ r = 0
  BY <1>3, <1>4 DEF SchedOK, OneClaim
<1>6. \A i \in Jobs : J2[i] \in Claims => i = j
  BY <1>1, <1>5
<1>7. OneClaim(J2, TRUE, l, r)
  BY <1>5, <1>6 DEF OneClaim
<1> QED
  BY <1>3, <1>7 DEF SchedOK, J2

\* The others end.
LEMMA ClaimedBefore ==
    ASSUME NEW J \in [Jobs -> Places], NEW s \in Nat, NEW n \in Nat,
           NEW l \in {"none", "some", "taken"}, NEW r \in Nat,
           SchedOK(J, s, n, TRUE, l, r),
           NEW j \in Jobs, J[j] \in {"fail_error", "fail_cancelled", "cancelling"}
    PROVE  SchedOK([J EXCEPT ![j] = "done"], s, n, TRUE, l, r)
<1> DEFINE J2 == [J EXCEPT ![j] = "done"]
<1>2. "done" \in AfterTrouble /\ TRUE \in BOOLEAN
  BY DEF AfterTrouble
<1>3. /\ StagesInOrder(J2, s) /\ PreparerAlone(J2, s, n, TRUE) /\ FanoutOpen(J2, s)
      /\ Counted(J2, s, n, TRUE) /\ LoaderKept(J2, s, TRUE, l)
  <2>1. Orderly(J2, s, n, TRUE, l)
    BY <1>2, InTrouble
  <2> QED BY <2>1 DEF Orderly
<1>4. OneClaim(J2, TRUE, l, r)
  BY NoNewClaim DEF SchedOK, Claims, Failures
<1> QED
  BY <1>3, <1>4 DEF SchedOK

\* It tells the others to stop, and goes on to complete().
LEMMA Stopping ==
    ASSUME NEW J \in [Jobs -> Places], NEW s \in Nat, NEW n \in Nat, NEW f \in BOOLEAN,
           NEW l \in {"none", "some", "taken"}, NEW r \in Nat,
           SchedOK(J, s, n, f, l, r),
           NEW j \in Jobs, J[j] \in {"stop_error", "stop_cancelled"},
           NEW q \in Stopped
    PROVE  SchedOK([J EXCEPT ![j] = q], s, n, f, l, r)
<1> USE DEF Stopped
<1> DEFINE J2 == [J EXCEPT ![j] = q]
<1>1. /\ \A i \in Jobs : J2[i] = IF i = j THEN q ELSE J[i]
      /\ l # "taken"
  BY DEF SchedOK, LoaderKept
<1>3. StagesInOrder(J2, s)
  BY OrderKept DEF SchedOK, Working
<1>4. PreparerAlone(J2, s, n, f)
  BY NobodyPrepares DEF SchedOK
<1>5. FanoutOpen(J2, s)
  BY FanoutKept DEF SchedOK
<1> HIDE DEF J2
<1>6. Counted(J2, s, n, f)
  <2>1. Pending(J2, s) = Pending(J, s)
    BY <1>1 DEF Pending, Working
  <2>2. Troubled(J, f)
    BY DEF Troubled, Troubles
  <2>3. Begun(J2, s) => Begun(J, s)
    BY <1>1 DEF Begun
  <2> QED
    BY <2>1, <2>2, <2>3, CountedFacts DEF SchedOK
<1>7. LoaderKept(J2, s, f, l)
  BY JobStages, <1>1 DEF SchedOK, LoaderKept
<1>8. OneClaim(J2, f, l, r)
  <2>1. \A i \in Jobs : /\ J2[i] \in Claims => J[i] \in Claims
                        /\ J2[i] \in Failures => J[i] \in Failures
    BY <1>1 DEF Claims, Failures
  <2> QED
    BY <2>1 DEF SchedOK, OneClaim
<1> QED
  BY <1>3, <1>4, <1>5, <1>6, <1>7, <1>8 DEF SchedOK, J2

\* complete()
LEMMA Completing ==
    ASSUME NEW J \in [Jobs -> Places], NEW s \in Nat, NEW n \in Nat, NEW f \in BOOLEAN,
           NEW l \in {"none", "some", "taken"}, NEW r \in Nat,
           SchedOK(J, s, n, f, l, r),
           NEW j \in Jobs, J[j] \in {"report_ok", "report_error", "report_cancelled"}
    PROVE  /\ SchedOK([J EXCEPT ![j] = "done"], s, n, f, l, r + 1)
           /\ r = 0
<1> DEFINE J2 == [J EXCEPT ![j] = "done"]
<1>1. \A i \in Jobs : J2[i] = IF i = j THEN "done" ELSE J[i]
  OBVIOUS
<1>2. /\ r = 0 /\ (f \/ J[j] = "report_ok")
      /\ \A i \in Jobs : J[i] \in Claims => i = j
  BY DEF SchedOK, OneClaim, Claims, Failures
<1>3. StagesInOrder(J2, s)
  BY OrderKept DEF SchedOK, Working
<1>5. FanoutOpen(J2, s)
  BY FanoutKept DEF SchedOK
<1> HIDE DEF J2
<1>4. PreparerAlone(J2, s, n, f)
  <2>1. \A i \in Jobs : J2[i] \notin {"preparing", "report_ok"}
    BY <1>1, <1>2 DEF SchedOK, PreparerAlone, Claims
  <2> QED
    BY <2>1 DEF PreparerAlone
<1>6. Counted(J2, s, n, f)
  <2>1. CASE J[j] = "report_ok"
    <3>1. /\ s = LastStage
          /\ \A i \in Jobs : J[i] # "fanout"
      BY <2>1 DEF SchedOK, LoaderKept
    <3>2. LastStage # 0 /\ \A i \in Jobs : StageOf(i) # LastStage
      BY JobStages
    <3>3. \A i \in Jobs : J2[i] # "fanout"
      BY <1>1, <3>1
    <3>4. ~Begun(J2, s)
      BY <3>1, <3>2, <3>3 DEF Begun
    <3> QED
      BY <3>4 DEF Counted
  <2>2. CASE J[j] # "report_ok"
    <3>1. Pending(J2, s) = Pending(J, s)
      BY <1>1 DEF Pending, Working
    <3>2. Troubled(J, f)
      BY <1>2, <2>2 DEF Troubled
    <3>3. Begun(J2, s) => Begun(J, s)
      BY <1>1 DEF Begun
    <3> QED
      BY <3>1, <3>2, <3>3, CountedFacts DEF SchedOK
  <2> QED
    BY <2>1, <2>2
<1>7. LoaderKept(J2, s, f, l)
  BY JobStages, <1>1 DEF SchedOK, LoaderKept
<1>8. OneClaim(J2, f, l, r + 1)
  <2>1. \A i \in Jobs : J2[i] \notin Claims /\ J2[i] \notin Failures
    BY <1>1, <1>2 DEF Claims, Failures
  <2>2. f \/ l = "taken"
    BY <1>2 DEF SchedOK, LoaderKept
  <2> QED
    BY <1>2, <2>1, <2>2 DEF OneClaim
<1> QED
  BY <1>2, <1>3, <1>4, <1>5, <1>6, <1>7, <1>8 DEF SchedOK, J2

(***************************************************************************)
(* The steps of the program.  First what each leaves alone.                *)
(***************************************************************************)

\* The state of one binary has its types.
LEMMA Typed ==
    ASSUME TypeOK, NEW id \in Ids
    PROVE  /\ job[id] \in [Jobs -> Places] /\ stage[id] \in Nat /\ stage[id] <= LastStage
           /\ tasksLeft[id] \in Nat /\ failed[id] \in BOOLEAN /\ cancel[id] \in BOOLEAN
           /\ loader[id] \in {"none", "some", "taken"} /\ reports[id] \in Nat
           /\ id \in Nat
BY SizesAssumption DEF TypeOK, Ids

\* A closure moves, and no other one does.
LEMMA Moved ==
    ASSUME TypeOK, NEW id \in Ids, NEW j \in Jobs, NEW p, NEW q, Goto(id, j, p, q)
    PROVE  /\ job[id][j] = p
           /\ job'[id] = [job[id] EXCEPT ![j] = q]
           /\ job'[id][j] = q
           /\ \A i \in Jobs \ {j} : job'[id][i] = job[id][i]
           /\ \A o \in Ids \ {id} : job'[o] = job[o]
           /\ q \in Places => job' \in [Ids -> [Jobs -> Places]]
<1>1. job \in [Ids -> [Jobs -> Places]]
  BY DEF TypeOK
<1> QED
  BY <1>1 DEF Goto

\* The places of closures keep their type.
LEMMA MovedType ==
    ASSUME TypeOK, NEW id \in Ids, NEW j \in Jobs, NEW p, NEW q \in Places, Goto(id, j, p, q)
    PROVE  job' \in [Ids -> [Jobs -> Places]]
BY Moved

\* What is sent is a message.
LEMMA Sent ==
    ASSUME TypeOK, NEW id \in Ids, NEW what \in {"elf", "symbols", "unwind"}, NEW res \in Results,
           Send(id, what, res)
    PROVE  /\ msgs' \in Seq(Messages) /\ wake' = TRUE /\ main' = main
           /\ msgs' = Append(msgs, [id |-> id, what |-> what, res |-> res])
           /\ Len(msgs) \in Nat /\ DOMAIN msgs = 1..Len(msgs) /\ DOMAIN msgs' = 1..(Len(msgs) + 1)
           /\ \A k \in DOMAIN msgs : msgs'[k] = msgs[k]
           /\ msgs'[Len(msgs) + 1] = [id |-> id, what |-> what, res |-> res]
           /\ main # "drain"
<1> DEFINE m == [id |-> id, what |-> what, res |-> res]
<1>1. m \in Messages
  BY DEF Messages
<1>2. msgs \in Seq(Messages)
  BY DEF TypeOK
<1>3. msgs' = Append(msgs, m) /\ wake' = TRUE /\ main' = main /\ main # "drain"
  BY DEF Send
<1> HIDE DEF m
<1>4. /\ Append(msgs, m) \in Seq(Messages)
      /\ Len(msgs) \in Nat /\ DOMAIN msgs = 1..Len(msgs)
      /\ DOMAIN Append(msgs, m) = 1..(Len(msgs) + 1)
      /\ \A k \in DOMAIN msgs : Append(msgs, m)[k] = msgs[k]
      /\ Append(msgs, m)[Len(msgs) + 1] = m
  BY <1>1, <1>2
<1> QED
  BY <1>3, <1>4 DEF m

\* The first message leaves the queue, the others move up.
LEMMA Received ==
    ASSUME TypeOK, msgs # <<>>
    PROVE  /\ Tail(msgs) \in Seq(Messages)
           /\ Head(msgs) \in Messages /\ Head(msgs) = msgs[1]
           /\ Len(msgs) \in Nat \ {0} /\ DOMAIN msgs = 1..Len(msgs)
           /\ DOMAIN Tail(msgs) = 1..(Len(msgs) - 1)
           /\ \A k \in 1..(Len(msgs) - 1) : Tail(msgs)[k] = msgs[k + 1]
<1>1. msgs \in Seq(Messages)
  BY DEF TypeOK
<1> QED
  BY <1>1

\* What a refresh of the mapped files does to one binary: it is new, or it is evicted,
\* or it is left alone.
IsNew(id) ==
    /\ count < id /\ id <= count' /\ loc[id] = NoLocator /\ loc'[id] \in Locators
    /\ job'[id] = [job[id] EXCEPT ![ElfJob] = "queued"]
    /\ symbols'[id] = symbols[id] /\ unwind'[id] = unwind[id] /\ cancel'[id] = cancel[id]
IsEvicted(id) ==
    /\ id <= count /\ loc[id] # NoLocator /\ loc'[id] = NoLocator /\ cancel'[id] = TRUE
    /\ symbols'[id] = "loading" /\ unwind'[id] = "loading" /\ job'[id] = job[id]
IsKept(id) ==
    /\ id <= count \/ id > count'
    /\ loc'[id] = loc[id] /\ job'[id] = job[id]
    /\ symbols'[id] = symbols[id] /\ unwind'[id] = unwind[id] /\ cancel'[id] = cancel[id]

LEMMA RefreshFacts ==
    ASSUME TypeOK, Registered, NEW maps \in SUBSET Locators, Refresh(maps)
    PROVE  /\ count' \in 0..MaxBinaries /\ count \in Nat /\ count <= count' /\ count' \in Nat
           /\ \A id \in Ids : IsNew(id) \/ IsEvicted(id) \/ IsKept(id)
           /\ UNCHANGED <<shared, failed, stage, tasksLeft, loader, unwindJob, reports, faults>>
           /\ loc' \in [Ids -> Locators \cup {NoLocator}]
           /\ symbols' \in [Ids -> Outcomes] /\ unwind' \in [Ids -> Outcomes]
           /\ cancel' \in [Ids -> BOOLEAN]
           /\ job' \in [Ids -> [Jobs -> Places]]
<1> DEFINE new == Unknown(maps)
           n == Cardinality(new)
           fresh == (count + 1)..(count + n)
           evicted == Evicted(maps)
<1>1. n \in Nat
  <2>1. new \subseteq Locators
    BY DEF Unknown
  <2> QED
    BY <2>1, LocatorsAssumption, FS_Subset, FS_CardinalityType
<1>2. /\ count + n <= MaxBinaries /\ count' = count + n
      /\ symbols' = [id \in Ids |-> IF id \in evicted THEN "loading" ELSE symbols[id]]
      /\ unwind' = [id \in Ids |-> IF id \in evicted THEN "loading" ELSE unwind[id]]
      /\ cancel' = [id \in Ids |-> cancel[id] \/ id \in evicted]
      /\ job' = [id \in Ids |-> IF id \in fresh THEN [job[id] EXCEPT ![ElfJob] = "queued"]
                                ELSE job[id]]
      /\ UNCHANGED <<shared, failed, stage, tasksLeft, loader, unwindJob, reports, faults>>
  BY DEF Refresh
<1>3. PICK add \in [fresh -> new] :
        loc' = [id \in Ids |-> IF id \in evicted THEN NoLocator
                               ELSE IF id \in fresh THEN add[id] ELSE loc[id]]
  BY DEF Refresh
<1>4. count \in Nat /\ MaxBinaries \in Nat
  BY SizesAssumption DEF TypeOK
<1>5. /\ new \subseteq Locators
      /\ \A id \in Ids : id \in evicted => loc[id] # NoLocator
  BY DEF Unknown, Evicted, Live
<1>6. ASSUME NEW id \in Ids
      PROVE  /\ id \in Nat
             /\ id \in fresh => count < id /\ id <= count' /\ loc[id] = NoLocator
             /\ id \notin fresh => id <= count \/ id > count'
             /\ id \in evicted => id <= count
  <2>1. id \in Nat
    BY DEF Ids
  <2>2. id \in fresh <=> count < id /\ id <= count'
    BY <1>1, <1>2, <1>4, <2>1
  <2>3. id > count => loc[id] = NoLocator
    BY DEF Registered
  <2> QED
    BY <1>1, <1>2, <1>4, <1>5, <2>1, <2>2, <2>3
<1> HIDE DEF new, n, fresh, evicted
<1>7. ASSUME NEW id \in Ids PROVE IsNew(id) \/ IsEvicted(id) \/ IsKept(id)
  <2>1. CASE id \in fresh
    <3>1. id \notin evicted /\ loc'[id] = add[id] /\ add[id] \in Locators
      BY <2>1, <1>3, <1>5, <1>6
    <3>2. cancel'[id] = (cancel[id] \/ FALSE) /\ cancel[id] \in BOOLEAN
      BY <3>1, <1>2, Typed
    <3> QED
      BY <2>1, <3>1, <3>2, <1>2, <1>6 DEF IsNew
  <2>2. CASE id \in evicted
    <3>1. id \notin fresh
      BY <2>2, <1>5, <1>6
    <3>2. cancel'[id] = TRUE
      BY <2>2, <1>2
    <3> QED
      BY <2>2, <3>1, <3>2, <1>2, <1>3, <1>5, <1>6 DEF IsEvicted
  <2>3. CASE id \notin fresh /\ id \notin evicted
    <3>1. cancel'[id] = (cancel[id] \/ FALSE) /\ cancel[id] \in BOOLEAN
      BY <2>3, <1>2, Typed
    <3> QED
      BY <2>3, <3>1, <1>2, <1>3, <1>6 DEF IsKept
  <2> QED
    BY <2>1, <2>2, <2>3
<1>8. loc' \in [Ids -> Locators \cup {NoLocator}]
  BY <1>3, <1>5 DEF TypeOK
<1>9. symbols' \in [Ids -> Outcomes] /\ unwind' \in [Ids -> Outcomes]
  BY <1>2 DEF TypeOK, Outcomes
<1>10. cancel' \in [Ids -> BOOLEAN]
  BY <1>2 DEF TypeOK
<1>11. job' \in [Ids -> [Jobs -> Places]]
  <2>1. job \in [Ids -> [Jobs -> Places]] /\ "queued" \in Places
    BY DEF TypeOK, Places
  <2> QED
    BY <2>1, <1>2
<1> QED
  BY <1>1, <1>2, <1>4, <1>7, <1>8, <1>9, <1>10, <1>11

\* Every step keeps the types.
LEMMA TypeStep == IInv /\ [Next]_vars => TypeOK'
<1> SUFFICES ASSUME IInv, [Next]_vars PROVE TypeOK'
  OBVIOUS
<1>t. TypeOK /\ Registered
  BY DEF IInv
<1>f. NoFaults
  BY DEF IInv
<1>p. Places = {"none", "queued", "run", "start", "schedule", "preparing", "fanout", "fail_error",
                "fail_cancelled", "stop_error", "stop_cancelled", "cancelling", "report_ok",
                "report_error", "report_cancelled", "done"}
  BY DEF Places
<1>1. ASSUME NEW maps \in SUBSET Locators, Refresh(maps) PROVE TypeOK'
  <2>1. /\ count' \in 0..MaxBinaries
        /\ UNCHANGED <<shared, failed, stage, tasksLeft, loader, unwindJob, reports, faults>>
        /\ loc' \in [Ids -> Locators \cup {NoLocator}]
        /\ symbols' \in [Ids -> Outcomes] /\ unwind' \in [Ids -> Outcomes]
        /\ cancel' \in [Ids -> BOOLEAN]
        /\ job' \in [Ids -> [Jobs -> Places]]
    BY <1>1, <1>t, RefreshFacts
  <2> QED
    BY <2>1, <1>t DEF TypeOK, shared
<1>2. CASE ReadEvent \/ LockQueue \/ UnlockQueue
  BY <1>2, <1>t DEF ReadEvent, LockQueue, UnlockQueue, TypeOK, regVars, sched
<1>3. CASE ApplyMessage
  <2>1. Tail(msgs) \in Seq(Messages) /\ Head(msgs) \in Messages
    BY <1>3, <1>t, Received DEF ApplyMessage
  <2>2. Head(msgs).id \in Ids /\ Head(msgs).res \in Outcomes
    BY <2>1 DEF Messages, Outcomes
  <2>3. symbols' \in [Ids -> Outcomes] /\ unwind' \in [Ids -> Outcomes]
    BY <1>3, <1>t, <2>2 DEF ApplyMessage, TypeOK
  <2> QED
    BY <1>3, <1>t, <2>1, <2>3 DEF ApplyMessage, TypeOK, sched
<1>4. ASSUME NEW id \in Ids, NEW j \in Jobs, StartJob(id, j) PROVE TypeOK'
  <2>1. job' \in [Ids -> [Jobs -> Places]]
    BY <1>4, <1>t, <1>p, Moved DEF StartJob
  <2>2. faults' \in SUBSET {"loader_is_gone", "tasks_left_underflow", "unexpected_stage"}
    BY <1>4, <1>t DEF StartJob, NoLoader, TypeOK
  <2> QED
    BY <1>4, <1>t, <2>1, <2>2 DEF StartJob, TypeOK, regVars, shared, sched
<1>5. ASSUME NEW id \in Ids, NEW res \in {"ok", "error"}, OpenElf(id, res) PROVE TypeOK'
  <2>1. job' \in [Ids -> [Jobs -> Places]]
    BY <1>5, <1>t, <1>p, Moved, JobStages DEF OpenElf
  <2>2. msgs' \in Seq(Messages) /\ wake' = TRUE /\ main' = main
    BY <1>5, <1>t, Sent DEF OpenElf, Results
  <2> QED
    BY <1>5, <1>t, <2>1, <2>2 DEF OpenElf, TypeOK, regVars, sched
<1>6. ASSUME NEW id \in Ids, NEW ok \in BOOLEAN, StartLoader(id, ok) PROVE TypeOK'
  <2>1. job' \in [Ids -> [Jobs -> Places]]
    BY <1>6, <1>t, <1>p, Moved, JobStages DEF StartLoader
  <2> QED
    BY <1>6, <1>t, <2>1 DEF StartLoader, TypeOK, regVars, shared
<1>7. ASSUME NEW id \in Ids, NEW j \in Jobs, NEW res \in Results, RunShard(id, j, res) PROVE TypeOK'
  <2>1. job' \in [Ids -> [Jobs -> Places]]
    <3> DEFINE q == IF res = "ok" THEN "schedule" ELSE FailAt(res)
    <3>1. Goto(id, j, "run", q) /\ q \in Places
      BY <1>7, <1>p DEF RunShard, FailAt
    <3> HIDE DEF q
    <3> QED BY <1>t, <3>1, MovedType
  <2> QED
    BY <1>7, <1>t, <2>1 DEF RunShard, TypeOK, regVars, shared, sched
<1>8. ASSUME NEW id \in Ids, NEW j \in Jobs, Schedule(id, j) PROVE TypeOK'
  <2>1. job' \in [Ids -> [Jobs -> Places]]
    <3>1. PICK q \in {"cancelling", "fail_cancelled", "preparing", "done"} : Goto(id, j, "schedule", q)
      <4>1. CASE tasksLeft[id] = 1 /\ cancel[id]
        BY <1>8, <4>1 DEF Schedule, ScheduleFrom
      <4>2. CASE tasksLeft[id] = 1 /\ ~cancel[id]
        BY <1>8, <4>2 DEF Schedule, ScheduleFrom
      <4>3. CASE tasksLeft[id] # 1
        BY <1>8, <4>3 DEF Schedule, ScheduleFrom
      <4> QED
        BY <4>1, <4>2, <4>3
    <3> QED
      <4>1. q \in Places
        BY <1>p
      <4> QED
        BY <3>1, <4>1, <1>t, MovedType
  <2>2. faults' \in SUBSET {"loader_is_gone", "tasks_left_underflow", "unexpected_stage"}
    BY <1>8, <1>t DEF Schedule, ScheduleFrom, NoLoader, TypeOK
  <2>3. stage' \in [Ids -> 0..LastStage] /\ tasksLeft' \in [Ids -> 0..NumShards]
    BY <1>8, <1>t, SizesAssumption DEF Schedule, ScheduleFrom, TypeOK
  <2> QED
    BY <1>8, <1>t, <2>1, <2>2, <2>3 DEF Schedule, ScheduleFrom, TypeOK, regVars, shared
<1>9. ASSUME NEW id \in Ids, NEW j \in Jobs, Prepared(id, j) PROVE TypeOK'
  <2>1. job' \in [Ids -> [Jobs -> Places]]
    <3> DEFINE q == IF stage[id] = LastStage THEN "report_ok"
                    ELSE IF cancel[id] THEN "cancelling" ELSE "fanout"
    <3>1. Goto(id, j, "preparing", q) /\ q \in Places
      BY <1>9, <1>p DEF Prepared
    <3> HIDE DEF q
    <3> QED BY <1>t, <3>1, MovedType
  <2>2. tasksLeft' \in [Ids -> 0..NumShards] /\ loader' \in [Ids -> {"none", "some", "taken"}]
    BY <1>9, <1>t, SizesAssumption DEF Prepared, TypeOK
  <2> QED
    BY <1>9, <1>t, <2>1, <2>2 DEF Prepared, TypeOK, regVars, shared
<1>10. ASSUME NEW id \in Ids, NEW j \in Jobs, NEW i \in Shards, Fanout(id, j, i) PROVE TypeOK'
  <2>1. job' \in [Ids -> [Jobs -> Places]]
    BY <1>10, <1>t, <1>p DEF Fanout, TypeOK, Jobs
  <2> QED
    BY <1>10, <1>t, <2>1 DEF Fanout, TypeOK, regVars, shared, sched
<1>11. ASSUME NEW id \in Ids, NEW j \in Jobs, NEW res \in {"error", "cancelled"},
              Fail(id, j, res) \/ StopOthers(id, j, res) \/ Cancelling(id, j)
       PROVE  TypeOK'
  <2>1. job' \in [Ids -> [Jobs -> Places]]
    <3>1. CASE Fail(id, j, res)
      <4> DEFINE q == IF failed[id] THEN "done" ELSE StopAt(res)
      <4>1. Goto(id, j, FailAt(res), q) /\ q \in Places
        BY <1>p, <3>1 DEF Fail, StopAt
      <4> HIDE DEF q
      <4> QED BY <1>t, <4>1, MovedType
    <3>2. CASE StopOthers(id, j, res)
      <4>1. Goto(id, j, StopAt(res), ReportAt(res)) /\ ReportAt(res) \in Places
        BY <1>p, <3>2 DEF StopOthers, ReportAt
      <4> QED BY <1>t, <4>1, MovedType
    <3>3. CASE Cancelling(id, j)
      <4> DEFINE q == IF failed[id] THEN "done" ELSE "report_cancelled"
      <4>1. Goto(id, j, "cancelling", q) /\ q \in Places
        BY <1>p, <3>3 DEF Cancelling
      <4> HIDE DEF q
      <4> QED BY <1>t, <4>1, MovedType
    <3> QED BY <1>11, <3>1, <3>2, <3>3
  <2> QED
    BY <1>11, <1>t, <2>1 DEF Fail, StopOthers, Cancelling, TypeOK, regVars, shared
<1>12. ASSUME NEW id \in Ids, NEW j \in Jobs, NEW res \in Results, Complete(id, j, res) PROVE TypeOK'
  <2>1. job' \in [Ids -> [Jobs -> Places]]
    BY <1>12, <1>t, <1>p, Moved DEF Complete
  <2>2. msgs' \in Seq(Messages) /\ wake' = TRUE /\ main' = main
    BY <1>12, <1>t, Sent DEF Complete
  <2> QED
    BY <1>12, <1>t, <2>1, <2>2 DEF Complete, TypeOK, regVars, sched
<1>13. ASSUME NEW id \in Ids, NEW res \in {"ok", "error"}, LoadUnwind(id, res) PROVE TypeOK'
  <2>2. msgs' \in Seq(Messages) /\ wake' = TRUE /\ main' = main
    BY <1>13, <1>t, Sent DEF LoadUnwind, Results
  <2> QED
    BY <1>13, <1>t, <2>2 DEF LoadUnwind, TypeOK, regVars, sched
<1>14. CASE UNCHANGED vars
  BY <1>14, <1>t DEF TypeOK, vars, regVars, shared, sched
<1> QED
  BY <1>1, <1>2, <1>3, <1>4, <1>5, <1>6, <1>7, <1>8, <1>9, <1>10, <1>11, <1>12, <1>13, <1>14
  DEF Next, MainStep, WorkerStep, JobStep, UnwindStep

\* The state of the other binaries is left alone.
Elsewhere(id) ==
    \A o \in Ids \ {id} :
        /\ job'[o] = job[o] /\ stage'[o] = stage[o] /\ tasksLeft'[o] = tasksLeft[o]
        /\ failed'[o] = failed[o] /\ loader'[o] = loader[o] /\ reports'[o] = reports[o]
        /\ cancel'[o] = cancel[o] /\ unwindJob'[o] = unwindJob[o]

LEMMA SchedElsewhere ==
    ASSUME SchedInv, NEW id \in Ids, Elsewhere(id),
           SchedOK(job'[id], stage'[id], tasksLeft'[id], failed'[id], loader'[id], reports'[id])
    PROVE  SchedInv'
BY DEF SchedInv, Elsewhere

\* How a closure goes through schedule().
LEMMA ScheduleFacts ==
    ASSUME TypeOK, NEW id \in Ids, NEW j \in Jobs, Schedule(id, j)
    PROVE  /\ \/ /\ tasksLeft[id] = 1
                 /\ \E q \in {"preparing", "cancelling", "fail_cancelled"} :
                       Goto(id, j, "schedule", q) /\ (q = "preparing" => ~cancel[id])
                                                  /\ (q # "preparing" => cancel[id])
                 /\ stage'[id] = IF stage[id] = LastStage THEN LastStage ELSE stage[id] + 1
                 /\ \A o \in Ids \ {id} : stage'[o] = stage[o]
                 /\ faults' = faults \cup NoLoader(id)
                                 \cup (IF stage[id] = LastStage THEN {"unexpected_stage"} ELSE {})
              \/ /\ tasksLeft[id] # 1 /\ stage' = stage
                 /\ Goto(id, j, "schedule", "done")
                 /\ faults' = faults \cup (IF tasksLeft[id] = 0 THEN {"tasks_left_underflow"} ELSE {})
           /\ tasksLeft'[id] = IF tasksLeft[id] = 0 THEN 0 ELSE tasksLeft[id] - 1
           /\ \A o \in Ids \ {id} : tasksLeft'[o] = tasksLeft[o]
           /\ UNCHANGED <<regVars, shared, cancel, failed, loader, unwindJob, reports>>
<1>1. tasksLeft \in [Ids -> 0..NumShards] /\ stage \in [Ids -> 0..LastStage]
  BY DEF TypeOK
<1>2. /\ tasksLeft' = [tasksLeft EXCEPT ![id] = IF @ = 0 THEN 0 ELSE @ - 1]
      /\ UNCHANGED <<regVars, shared, cancel, failed, loader, unwindJob, reports>>
  BY DEF Schedule, ScheduleFrom
<1>3. CASE tasksLeft[id] = 1
  <2>1. /\ stage' = [stage EXCEPT ![id] = IF @ = LastStage THEN @ ELSE @ + 1]
        /\ \E q \in IF cancel[id] THEN {"cancelling", "fail_cancelled"} ELSE {"preparing"} :
              Goto(id, j, "schedule", q)
        /\ faults' = faults \cup NoLoader(id)
                        \cup (IF stage[id] = LastStage THEN {"unexpected_stage"} ELSE {})
    BY <1>3 DEF Schedule, ScheduleFrom
  <2>2. \E q \in {"preparing", "cancelling", "fail_cancelled"} :
            Goto(id, j, "schedule", q) /\ (q = "preparing" => ~cancel[id])
                                       /\ (q # "preparing" => cancel[id])
    <3>1. CASE cancel[id]
      BY <2>1, <3>1
    <3>2. CASE ~cancel[id]
      BY <2>1, <3>2
    <3> QED
      BY <3>1, <3>2
  <2> QED
    BY <1>1, <1>2, <1>3, <2>1, <2>2
<1>4. CASE tasksLeft[id] # 1
  <2>1. /\ Goto(id, j, "schedule", "done") /\ stage' = stage
        /\ faults' = faults \cup (IF tasksLeft[id] = 0 THEN {"tasks_left_underflow"} ELSE {})
    BY <1>4 DEF Schedule, ScheduleFrom
  <2> QED
    BY <1>1, <1>2, <1>4, <2>1
<1> QED
  BY <1>3, <1>4

\* What the step of one closure does to the LoadScheduler of its binary.
LEMMA JobSched ==
    ASSUME IInv, NEW id \in Ids, NEW j \in Jobs, JobStep(id, j) \/ StartJob(id, j)
    PROVE  /\ Elsewhere(id)
           /\ SchedOK(job'[id], stage'[id], tasksLeft'[id], failed'[id], loader'[id], reports'[id])
<1> DEFINE Goal == /\ Elsewhere(id)
                   /\ SchedOK(job'[id], stage'[id], tasksLeft'[id], failed'[id], loader'[id], reports'[id])
<1>t. TypeOK
  BY DEF IInv
<1>j. /\ job[id] \in [Jobs -> Places] /\ stage[id] \in Nat /\ stage[id] <= LastStage
      /\ tasksLeft[id] \in Nat /\ failed[id] \in BOOLEAN
      /\ loader[id] \in {"none", "some", "taken"} /\ reports[id] \in Nat
  BY <1>t, Typed
<1>s. SchedOK(job[id], stage[id], tasksLeft[id], failed[id], loader[id], reports[id])
  BY DEF IInv, SchedInv
<1>e. "done" \in Endings /\ "fail_error" \in Endings /\ "fail_cancelled" \in Endings
  BY DEF Endings
<1>w. Working = {"queued", "run", "start", "schedule"}
  BY DEF Working
<1>1. CASE StartJob(id, j)
  <2>1. Goto(id, j, "queued", "run") /\ UNCHANGED <<sched, unwindJob, reports>>
    BY <1>1 DEF StartJob
  <2>2. /\ job[id][j] = "queued" /\ job'[id] = [job[id] EXCEPT ![j] = "run"]
        /\ \A o \in Ids \ {id} : job'[o] = job[o]
    BY <2>1, <1>t, Moved
  <2>a. SchedOK([job[id] EXCEPT ![j] = "run"], stage[id], tasksLeft[id], failed[id], loader[id], reports[id])
    <3>1. job[id][j] \in Working /\ "run" \in Working
      BY <2>2, <1>w
    <3> QED
      BY <3>1, <1>j, <1>s, StillWorking
  <2>3. SchedOK(job'[id], stage[id], tasksLeft[id], failed[id], loader[id], reports[id])
    BY <2>2, <2>a
  <2> QED
    BY <2>1, <2>2, <2>3 DEF Elsewhere, sched
<1>2. ASSUME j = ElfJob, NEW res \in {"ok", "error"}, OpenElf(id, res) PROVE Goal
  <2> DEFINE q == IF res = "ok" THEN "start" ELSE "done"
  <2>1. Goto(id, j, "run", q) /\ UNCHANGED <<sched, reports>>
    BY <1>2 DEF OpenElf
  <2>2. /\ job[id][j] = "run" /\ job'[id] = [job[id] EXCEPT ![j] = q]
        /\ \A o \in Ids \ {id} : job'[o] = job[o]
    BY <2>1, <1>t, Moved
  <2>3. SchedOK(job'[id], stage[id], tasksLeft[id], failed[id], loader[id], reports[id])
    <3>1. job[id][j] \in Working /\ "start" \in Working
      BY <2>2, <1>w
    <3>2. SchedOK([job[id] EXCEPT ![j] = "start"], stage[id], tasksLeft[id], failed[id], loader[id], reports[id])
      BY <3>1, <1>j, <1>s, StillWorking
    <3>3. SchedOK([job[id] EXCEPT ![j] = "done"], stage[id], tasksLeft[id], failed[id], loader[id], reports[id])
      BY <3>1, <1>e, <1>j, <1>s, LeavesEarly
    <3> QED
      BY <2>2, <3>2, <3>3
  <2>4. \A o \in Ids \ {id} : unwindJob'[o] = unwindJob[o]
    BY <1>2, <1>t DEF OpenElf, TypeOK
  <2> QED
    BY <2>1, <2>2, <2>3, <2>4 DEF Elsewhere, sched
<1>3. ASSUME j = ElfJob, NEW ok \in BOOLEAN, StartLoader(id, ok) PROVE Goal
  <2> DEFINE q == IF ok THEN "schedule" ELSE "fail_error"
             m == IF ok THEN "some" ELSE loader[id]
  <2>1. Goto(id, j, "start", q) /\ UNCHANGED <<cancel, failed, stage, tasksLeft, unwindJob, reports>>
    BY <1>3 DEF StartLoader
  <2>2. /\ job[id][j] = "start" /\ job'[id] = [job[id] EXCEPT ![j] = q]
        /\ \A o \in Ids \ {id} : job'[o] = job[o]
    BY <2>1, <1>t, Moved
  <2>3. SchedOK(job'[id], stage[id], tasksLeft[id], failed[id], m, reports[id])
    <3>1. job[id][j] \in Working /\ "schedule" \in Working
      BY <2>2, <1>w
    <3>2. SchedOK([job[id] EXCEPT ![j] = "schedule"], stage[id], tasksLeft[id], failed[id], "some", reports[id])
      BY <3>1, <1>j, <1>s, StillWorking
    <3>3. SchedOK([job[id] EXCEPT ![j] = "fail_error"], stage[id], tasksLeft[id], failed[id], loader[id], reports[id])
      BY <3>1, <1>e, <1>j, <1>s, LeavesEarly
    <3> QED
      BY <2>2, <3>2, <3>3
  <2>4. loader'[id] = m /\ \A o \in Ids \ {id} : loader'[o] = loader[o]
    BY <1>3, <1>t DEF StartLoader, TypeOK
  <2> QED
    BY <2>1, <2>2, <2>3, <2>4 DEF Elsewhere
<1>4. ASSUME NEW res \in Results, RunShard(id, j, res) PROVE Goal
  <2> DEFINE q == IF res = "ok" THEN "schedule" ELSE FailAt(res)
  <2>1. Goto(id, j, "run", q) /\ UNCHANGED <<sched, unwindJob, reports>> /\ j \in ShardJobs
    BY <1>4 DEF RunShard
  <2>2. /\ job[id][j] = "run" /\ job'[id] = [job[id] EXCEPT ![j] = q]
        /\ \A o \in Ids \ {id} : job'[o] = job[o]
    BY <2>1, <1>t, Moved
  <2>3. loader[id] # "none"
    <3>1. StageOf(j) = stage[id]
      BY <2>2, <1>j, <1>s, <1>w, WorkingIsCurrent DEF SchedOK
    <3>2. stage[id] > 0
      BY <3>1, <2>1, JobStages
    <3> QED
      BY <3>2, <1>s DEF SchedOK, LoaderKept
  <2>4. SchedOK(job'[id], stage[id], tasksLeft[id], failed[id], loader[id], reports[id])
    <3>1. job[id][j] \in Working /\ "schedule" \in Working
      BY <2>2, <1>w
    <3>2. SchedOK([job[id] EXCEPT ![j] = "schedule"], stage[id], tasksLeft[id], failed[id], loader[id], reports[id])
      BY <3>1, <2>3, <1>j, <1>s, StillWorking
    <3>3. SchedOK([job[id] EXCEPT ![j] = "fail_error"], stage[id], tasksLeft[id], failed[id], loader[id], reports[id])
      BY <3>1, <1>e, <1>j, <1>s, LeavesEarly
    <3>4. SchedOK([job[id] EXCEPT ![j] = "fail_cancelled"], stage[id], tasksLeft[id], failed[id], loader[id], reports[id])
      BY <3>1, <1>e, <1>j, <1>s, LeavesEarly
    <3> QED
      BY <2>2, <3>2, <3>3, <3>4 DEF FailAt
  <2> QED
    BY <2>1, <2>2, <2>4 DEF Elsewhere, sched
<1>5. CASE Schedule(id, j)
  <2>0. /\ tasksLeft'[id] = IF tasksLeft[id] = 0 THEN 0 ELSE tasksLeft[id] - 1
        /\ \A o \in Ids \ {id} : tasksLeft'[o] = tasksLeft[o] /\ stage'[o] = stage[o]
        /\ UNCHANGED <<cancel, failed, loader, unwindJob, reports>>
    BY <1>5, <1>t, ScheduleFacts
  <2>1. CASE tasksLeft[id] = 1
    <3>1. PICK q \in {"preparing", "cancelling", "fail_cancelled"} : Goto(id, j, "schedule", q)
      BY <2>1, <1>5, <1>t, ScheduleFacts
    <3>2. /\ job[id][j] = "schedule" /\ job'[id] = [job[id] EXCEPT ![j] = q]
          /\ \A o \in Ids \ {id} : job'[o] = job[o]
      BY <3>1, <1>t, Moved
    <3>3. stage[id] < LastStage
      BY <2>1, <3>2, <1>j, <1>s, LastIsAlone
    <3>4. stage'[id] = stage[id] + 1 /\ tasksLeft'[id] = 0
      BY <2>0, <2>1, <3>3, <1>5, <1>t, <1>j, ScheduleFacts
    <3>5. stage'[id] \in Nat /\ tasksLeft'[id] \in Nat
      BY <3>4, <1>j
    <3>7. tasksLeft[id] < 2 /\ q \in AfterStage
      BY <2>1 DEF AfterStage
    <3>8. SchedOK([job[id] EXCEPT ![j] = q], stage'[id], tasksLeft'[id], failed[id], loader[id], reports[id])
      BY <3>2, <3>4, <3>5, <3>7, <1>j, <1>s, TheLast
    <3>6. SchedOK(job'[id], stage'[id], tasksLeft'[id], failed[id], loader[id], reports[id])
      BY <3>2, <3>8
    <3> QED
      BY <2>0, <3>2, <3>6 DEF Elsewhere
  <2>2. CASE tasksLeft[id] # 1
    <3>1. Goto(id, j, "schedule", "done") /\ stage' = stage
      BY <2>2, <1>5, <1>t, ScheduleFacts
    <3>2. /\ job[id][j] = "schedule" /\ job'[id] = [job[id] EXCEPT ![j] = "done"]
          /\ \A o \in Ids \ {id} : job'[o] = job[o]
      BY <3>1, <1>t, Moved
    <3>4. /\ tasksLeft[id] # 0
          /\ SchedOK([job[id] EXCEPT ![j] = "done"], stage[id], tasksLeft[id] - 1, failed[id], loader[id],
                     reports[id])
      BY <2>2, <3>2, <1>j, <1>s, NotTheLast
    <3>3. /\ tasksLeft[id] # 0
          /\ SchedOK(job'[id], stage[id], tasksLeft[id] - 1, failed[id], loader[id], reports[id])
      BY <3>2, <3>4
    <3> QED
      BY <2>0, <3>1, <3>2, <3>3 DEF Elsewhere
  <2> QED
    BY <2>1, <2>2
<1>6. CASE Prepared(id, j)
  <2> DEFINE last == stage[id] = LastStage
             q == IF last THEN "report_ok" ELSE IF cancel[id] THEN "cancelling" ELSE "fanout"
  <2>1. Goto(id, j, "preparing", q) /\ UNCHANGED <<cancel, failed, stage, unwindJob, reports>>
    BY <1>6 DEF Prepared
  <2>2. /\ job[id][j] = "preparing" /\ job'[id] = [job[id] EXCEPT ![j] = q]
        /\ \A o \in Ids \ {id} : job'[o] = job[o]
    BY <2>1, <1>t, Moved
  <2>3. /\ loader'[id] = IF last THEN "taken" ELSE loader[id]
        /\ tasksLeft'[id] = IF last \/ cancel[id] THEN tasksLeft[id] ELSE NumShards
        /\ \A o \in Ids \ {id} : loader'[o] = loader[o] /\ tasksLeft'[o] = tasksLeft[o]
    BY <1>6, <1>t DEF Prepared, TypeOK
  <2>4. SchedOK(job'[id], stage[id], tasksLeft'[id], failed[id], loader'[id], reports[id])
    <3>1. CASE last
      <4>1. SchedOK(job[id], LastStage, tasksLeft[id], failed[id], loader[id], reports[id])
        BY <3>1, <1>s
      <4>2. SchedOK([job[id] EXCEPT ![j] = "report_ok"], LastStage, tasksLeft[id], failed[id], "taken", reports[id])
        BY <4>1, <2>2, <1>j, AllPrepared
      <4> QED
        BY <3>1, <4>2, <2>2, <2>3
    <3>2. CASE ~last
      <4>1. stage[id] < LastStage
        BY <3>2, <1>j, SizesAssumption
      <4>2. /\ SchedOK([job[id] EXCEPT ![j] = "cancelling"], stage[id], tasksLeft[id], failed[id], loader[id], reports[id])
            /\ SchedOK([job[id] EXCEPT ![j] = "fanout"], stage[id], NumShards, failed[id], loader[id], reports[id])
        BY <4>1, <2>2, <1>j, <1>s, StagePrepared
      <4> QED
        BY <3>2, <4>2, <2>2, <2>3
    <3> QED
      BY <3>1, <3>2
  <2> QED
    BY <2>1, <2>2, <2>3, <2>4 DEF Elsewhere
<1>7. ASSUME NEW i \in Shards, Fanout(id, j, i) PROVE Goal
  <2> DEFINE q == IF i = NumShards THEN "done" ELSE "fanout"
             x == <<stage[id], i>>
  <2>1. /\ job[id][j] = "fanout" /\ x \in ShardJobs /\ job[id][x] = "none"
        /\ UNCHANGED <<sched, unwindJob, reports>>
    BY <1>7 DEF Fanout
  <2>2. x # j /\ x \in Jobs
    BY <2>1 DEF Jobs
  <2>3. /\ job'[id] = [job[id] EXCEPT ![x] = "queued", ![j] = q]
        /\ \A o \in Ids \ {id} : job'[o] = job[o]
    <3>1. job' = [job EXCEPT ![id][x] = "queued", ![id][j] = IF i = NumShards THEN "done" ELSE @]
      BY <1>7 DEF Fanout
    <3>2. job \in [Ids -> [Jobs -> Places]]
      BY <1>t DEF TypeOK
    <3> HIDE DEF x
    <3> QED
      BY <3>1, <3>2, <2>1, <2>2
  <2>4. SchedOK(job'[id], stage[id], tasksLeft[id], failed[id], loader[id], reports[id])
    <3>1. q = (IF i = NumShards THEN "done" ELSE "fanout") /\ x = <<stage[id], i>>
      OBVIOUS
    <3>2. job'[id] = Queued(job[id], x, j, q)
      BY <2>3 DEF Queued
    <3> HIDE DEF q, x
    <3> QED
      BY <2>1, <3>1, <3>2, <1>j, <1>s, TaskAdded
  <2> QED
    BY <2>1, <2>3, <2>4 DEF Elsewhere, sched
<1>8. ASSUME NEW res \in {"error", "cancelled"}, Fail(id, j, res) PROVE Goal
  <2> DEFINE q == IF failed[id] THEN "done" ELSE StopAt(res)
  <2>1. Goto(id, j, FailAt(res), q) /\ UNCHANGED <<cancel, stage, tasksLeft, loader, unwindJob, reports>>
    BY <1>8 DEF Fail
  <2>2. /\ job[id][j] = FailAt(res) /\ job'[id] = [job[id] EXCEPT ![j] = q]
        /\ \A o \in Ids \ {id} : job'[o] = job[o]
    BY <2>1, <1>t, Moved
  <2>3. failed'[id] = TRUE /\ \A o \in Ids \ {id} : failed'[o] = failed[o]
    BY <1>8, <1>t DEF Fail, TypeOK
  <2>4. /\ FailAt(res) \in {"fail_error", "fail_cancelled", "cancelling"}
        /\ q \in AfterTrouble /\ (failed[id] = TRUE => q = "done") /\ (failed[id] = FALSE => q # "done")
    BY <1>j DEF FailAt, StopAt, AfterTrouble, Failures
  <2> HIDE DEF q
  <2>b. job[id][j] \in {"fail_error", "fail_cancelled", "cancelling"} /\ failed'[id] \in BOOLEAN
    BY <2>2, <2>3, <2>4
  <2>a. SchedOK([job[id] EXCEPT ![j] = q], stage[id], tasksLeft[id], failed'[id], loader[id], reports[id])
    <3>1. CASE failed[id] = TRUE
      <4>1. SchedOK(job[id], stage[id], tasksLeft[id], TRUE, loader[id], reports[id])
        BY <3>1, <1>s
      <4>2. SchedOK([job[id] EXCEPT ![j] = "done"], stage[id], tasksLeft[id], TRUE, loader[id], reports[id])
        BY <4>1, <2>b, <1>j, ClaimedBefore
      <4> QED
        BY <3>1, <4>2, <2>3, <2>4
    <3>2. CASE failed[id] = FALSE
      <4>1. SchedOK(job[id], stage[id], tasksLeft[id], FALSE, loader[id], reports[id])
        BY <3>2, <1>s
      <4>2. q \in Failures
        BY <3>2, <2>4 DEF AfterTrouble
      <4>3. SchedOK([job[id] EXCEPT ![j] = q], stage[id], tasksLeft[id], TRUE, loader[id], reports[id])
        BY <4>1, <4>2, <2>b, <1>j, ClaimedFirst
      <4> QED
        BY <4>3, <2>3
    <3> QED
      BY <3>1, <3>2, <1>j
  <2>5. SchedOK(job'[id], stage[id], tasksLeft[id], failed'[id], loader[id], reports[id])
    BY <2>2, <2>a
  <2> QED
    BY <2>1, <2>2, <2>3, <2>5 DEF Elsewhere
<1>9. ASSUME NEW res \in {"error", "cancelled"}, StopOthers(id, j, res) PROVE Goal
  <2> DEFINE q == ReportAt(res)
  <2>1. Goto(id, j, StopAt(res), q) /\ UNCHANGED <<failed, stage, tasksLeft, loader, unwindJob, reports>>
    BY <1>9 DEF StopOthers
  <2>2. /\ job[id][j] = StopAt(res) /\ job'[id] = [job[id] EXCEPT ![j] = q]
        /\ \A o \in Ids \ {id} : job'[o] = job[o]
    BY <2>1, <1>t, Moved
  <2>3. \A o \in Ids \ {id} : cancel'[o] = cancel[o]
    BY <1>9, <1>t DEF StopOthers, TypeOK
  <2>4. StopAt(res) \in {"stop_error", "stop_cancelled"} /\ q \in Stopped
    BY DEF StopAt, ReportAt, Stopped
  <2> HIDE DEF q
  <2>a. SchedOK([job[id] EXCEPT ![j] = q], stage[id], tasksLeft[id], failed[id], loader[id], reports[id])
    BY <2>2, <2>4, <1>j, <1>s, Stopping
  <2>5. SchedOK(job'[id], stage[id], tasksLeft[id], failed[id], loader[id], reports[id])
    BY <2>2, <2>a
  <2> QED
    BY <2>1, <2>2, <2>3, <2>5 DEF Elsewhere
<1>10. CASE Cancelling(id, j)
  <2> DEFINE q == IF failed[id] THEN "done" ELSE "report_cancelled"
  <2>1. Goto(id, j, "cancelling", q) /\ UNCHANGED <<cancel, stage, tasksLeft, loader, unwindJob, reports>>
    BY <1>10 DEF Cancelling
  <2>2. /\ job[id][j] = "cancelling" /\ job'[id] = [job[id] EXCEPT ![j] = q]
        /\ \A o \in Ids \ {id} : job'[o] = job[o]
    BY <2>1, <1>t, Moved
  <2>3. failed'[id] = TRUE /\ \A o \in Ids \ {id} : failed'[o] = failed[o]
    BY <1>10, <1>t DEF Cancelling, TypeOK
  <2>4. q \in AfterTrouble /\ (failed[id] = TRUE => q = "done") /\ (failed[id] = FALSE => q # "done")
    BY <1>j DEF AfterTrouble, Failures
  <2> HIDE DEF q
  <2>b. job[id][j] \in {"fail_error", "fail_cancelled", "cancelling"} /\ failed'[id] \in BOOLEAN
    BY <2>2, <2>3, <2>4
  <2>a. SchedOK([job[id] EXCEPT ![j] = q], stage[id], tasksLeft[id], failed'[id], loader[id], reports[id])
    <3>1. CASE failed[id] = TRUE
      <4>1. SchedOK(job[id], stage[id], tasksLeft[id], TRUE, loader[id], reports[id])
        BY <3>1, <1>s
      <4>2. SchedOK([job[id] EXCEPT ![j] = "done"], stage[id], tasksLeft[id], TRUE, loader[id], reports[id])
        BY <4>1, <2>b, <1>j, ClaimedBefore
      <4> QED
        BY <3>1, <4>2, <2>3, <2>4
    <3>2. CASE failed[id] = FALSE
      <4>1. SchedOK(job[id], stage[id], tasksLeft[id], FALSE, loader[id], reports[id])
        BY <3>2, <1>s
      <4>2. q \in Failures
        BY <3>2, <2>4 DEF AfterTrouble
      <4>3. SchedOK([job[id] EXCEPT ![j] = q], stage[id], tasksLeft[id], TRUE, loader[id], reports[id])
        BY <4>1, <4>2, <2>b, <1>j, ClaimedFirst
      <4> QED
        BY <4>3, <2>3
    <3> QED
      BY <3>1, <3>2, <1>j
  <2>5. SchedOK(job'[id], stage[id], tasksLeft[id], failed'[id], loader[id], reports[id])
    BY <2>2, <2>a
  <2> QED
    BY <2>1, <2>2, <2>3, <2>5 DEF Elsewhere
<1>11. ASSUME NEW res \in Results, Complete(id, j, res) PROVE Goal
  <2>1. Goto(id, j, ReportAt(res), "done") /\ UNCHANGED <<sched, unwindJob>>
    BY <1>11 DEF Complete
  <2>2. /\ job[id][j] = ReportAt(res) /\ job'[id] = [job[id] EXCEPT ![j] = "done"]
        /\ \A o \in Ids \ {id} : job'[o] = job[o]
    BY <2>1, <1>t, Moved
  <2>3. reports'[id] = reports[id] + 1 /\ \A o \in Ids \ {id} : reports'[o] = reports[o]
    BY <1>11, <1>t DEF Complete, TypeOK
  <2>4. ReportAt(res) \in {"report_ok", "report_error", "report_cancelled"}
    BY DEF ReportAt
  <2>a. SchedOK([job[id] EXCEPT ![j] = "done"], stage[id], tasksLeft[id], failed[id], loader[id], reports[id] + 1)
    BY <2>2, <2>4, <1>j, <1>s, Completing
  <2>5. SchedOK(job'[id], stage[id], tasksLeft[id], failed[id], loader[id], reports[id] + 1)
    BY <2>2, <2>a
  <2> QED
    BY <2>1, <2>2, <2>3, <2>5 DEF Elsewhere, sched
<1> QED
  BY <1>1, <1>2, <1>3, <1>4, <1>5, <1>6, <1>7, <1>8, <1>9, <1>10, <1>11 DEF JobStep

\* What the step of one closure leaves alone.
LEMMA JobFrame ==
    ASSUME IInv, NEW id \in Ids, NEW j \in Jobs, JobStep(id, j) \/ StartJob(id, j)
    PROVE  /\ UNCHANGED regVars
           /\ job[id][j] \notin {"none", "done"}
           /\ id <= count
           /\ cancel[id] = TRUE => cancel'[id] = TRUE
           /\ unwindJob[id] # "none" => unwindJob'[id] = unwindJob[id]
<1> DEFINE Goal == /\ UNCHANGED regVars
                   /\ job[id][j] \notin {"none", "done"}
                   /\ cancel[id] = TRUE => cancel'[id] = TRUE
                   /\ unwindJob[id] # "none" => unwindJob'[id] = unwindJob[id]
<1>t. TypeOK
  BY DEF IInv
<1>1. ASSUME StartJob(id, j) PROVE Goal
  BY <1>1 DEF StartJob, Goto, sched
<1>2. ASSUME j = ElfJob, NEW res \in {"ok", "error"}, OpenElf(id, res) PROVE Goal
  <2>1. Goto(id, ElfJob, "run", IF res = "ok" THEN "start" ELSE "done") /\ UNCHANGED <<regVars, sched>>
    BY <1>2 DEF OpenElf
  <2>2. unwindJob[id] = "none"
    <3>1. unwindJob[id] \in {"none", "queued", "done"}
      BY <1>t DEF TypeOK
    <3>2. job[id][ElfJob] = "run"
      BY <2>1 DEF Goto
    <3> QED
      BY <3>1, <3>2 DEF IInv, OpenedFirst, ElfFirst
  <2> QED
    BY <1>2, <2>1, <2>2 DEF Goto, sched
<1>3. ASSUME j = ElfJob, NEW ok \in BOOLEAN, StartLoader(id, ok) PROVE Goal
  BY <1>3 DEF StartLoader, Goto
<1>4. ASSUME NEW res \in Results, RunShard(id, j, res) PROVE Goal
  BY <1>4 DEF RunShard, Goto, sched
<1>5. ASSUME Schedule(id, j) PROVE Goal
  BY <1>5 DEF Schedule, ScheduleFrom, Goto
<1>6. ASSUME Prepared(id, j) PROVE Goal
  BY <1>6 DEF Prepared, Goto
<1>7. ASSUME NEW i \in Shards, Fanout(id, j, i) PROVE Goal
  BY <1>7 DEF Fanout, sched
<1>8. ASSUME NEW res \in {"error", "cancelled"}, Fail(id, j, res) PROVE Goal
  BY <1>8 DEF Fail, Goto, FailAt
<1>9. ASSUME NEW res \in {"error", "cancelled"}, StopOthers(id, j, res) PROVE Goal
  BY <1>9, <1>t DEF StopOthers, Goto, StopAt, TypeOK
<1>10. ASSUME Cancelling(id, j) PROVE Goal
  BY <1>10 DEF Cancelling, Goto
<1>11. ASSUME NEW res \in Results, Complete(id, j, res) PROVE Goal
  BY <1>11 DEF Complete, Goto, ReportAt, sched
<1>12. Goal
  BY <1>1, <1>2, <1>3, <1>4, <1>5, <1>6, <1>7, <1>8, <1>9, <1>10, <1>11 DEF JobStep
<1>13. id <= count
  <2>1. id \in Nat /\ count \in Nat
    BY <1>t, Typed DEF TypeOK
  <2> QED
    BY <1>12, <2>1 DEF IInv, Registered
<1> QED
  BY <1>12, <1>13

\* Until task_load_unwind() was added, only task_load_elf() takes steps.
LEMMA Opening ==
    ASSUME IInv, NEW id \in Ids, NEW j \in Jobs, JobStep(id, j) \/ StartJob(id, j),
           unwindJob[id] = "none"
    PROVE  /\ j = ElfJob /\ job[id][j] \in {"queued", "run"}
           /\ StartJob(id, j) \/ (\E res \in {"ok", "error"} : OpenElf(id, res))
<1>1. /\ job[id][ElfJob] \in {"none", "queued", "run", "done"}
      /\ \A i \in ShardJobs : job[id][i] = "none"
  BY DEF IInv, OpenedFirst, ElfFirst
<1>2. job[id][j] \notin {"none", "done"}
  BY JobFrame
<1>3. j = ElfJob /\ job[id][j] \in {"queued", "run"}
  BY <1>1, <1>2 DEF Jobs
<1>4. j \notin ShardJobs
  BY <1>3, JobStages
<1>5. StartJob(id, j) \/ (\E res \in {"ok", "error"} : OpenElf(id, res))
  BY <1>3, <1>4 DEF JobStep, StartLoader, RunShard, Schedule, ScheduleFrom, Prepared, Fanout,
     Fail, StopOthers, Cancelling, Complete, Goto, FailAt, StopAt, ReportAt
<1> QED
  BY <1>3, <1>5

\* The steps of the closures of symbols and unwind tables, and of the main thread.
LEMMA Steps ==
    ASSUME [Next]_vars
    PROVE  \/ \E maps \in SUBSET Locators : Refresh(maps)
           \/ ReadEvent \/ LockQueue \/ UnlockQueue
           \/ ApplyMessage
           \/ \E id \in Ids, j \in Jobs : JobStep(id, j) \/ StartJob(id, j)
           \/ \E id \in Ids, res \in {"ok", "error"} : LoadUnwind(id, res)
           \/ UNCHANGED vars
BY DEF Next, MainStep, WorkerStep, UnwindStep

\* Loading goes on in order: tasks_left, `failed` and the loader stay consistent.
LEMMA SchedStep == IInv /\ [Next]_vars => SchedInv'
<1> SUFFICES ASSUME IInv, [Next]_vars PROVE SchedInv'
  OBVIOUS
<1>t. TypeOK /\ Registered /\ SchedInv /\ OpenedFirst
  BY DEF IInv
<1>1. ASSUME NEW maps \in SUBSET Locators, Refresh(maps) PROVE SchedInv'
  <2>1. /\ \A id \in Ids : IsNew(id) \/ IsEvicted(id) \/ IsKept(id)
        /\ UNCHANGED <<failed, stage, tasksLeft, loader, reports>>
    BY <1>1, <1>t, RefreshFacts
  <2>2. ASSUME NEW id \in Ids
        PROVE  SchedOK(job'[id], stage[id], tasksLeft[id], failed[id], loader[id], reports[id])
    <3>j. /\ job[id] \in [Jobs -> Places] /\ stage[id] \in Nat
          /\ tasksLeft[id] \in Nat /\ failed[id] \in BOOLEAN
          /\ loader[id] \in {"none", "some", "taken"} /\ reports[id] \in Nat
      BY <1>t, Typed
    <3>s. SchedOK(job[id], stage[id], tasksLeft[id], failed[id], loader[id], reports[id])
      BY <1>t DEF SchedInv
    <3>1. CASE IsNew(id)
      <4>1. (\A j \in Jobs : job[id][j] = "none") /\ unwindJob[id] = "none"
        <5>1. count < id /\ id \in Nat /\ count \in Nat
          BY <3>1, <1>t, Typed DEF IsNew, TypeOK
        <5> QED
          BY <5>1, <1>t DEF Registered
      <4>2. stage[id] = 0
        BY <4>1, <1>t DEF OpenedFirst, ElfFirst
      <4>3. SchedOK([job[id] EXCEPT ![ElfJob] = "queued"], stage[id], tasksLeft[id], failed[id],
                    loader[id], reports[id])
        BY <4>1, <4>2, <3>j, <3>s, ElfAdded
      <4> QED
        BY <4>3, <3>1 DEF IsNew
    <3>2. CASE IsEvicted(id) \/ IsKept(id)
      BY <3>2, <3>s DEF IsEvicted, IsKept
    <3> QED
      BY <2>1, <3>1, <3>2
  <2> QED
    BY <2>1, <2>2 DEF SchedInv
<1>2. CASE ReadEvent \/ LockQueue \/ UnlockQueue
  BY <1>2, <1>t DEF ReadEvent, LockQueue, UnlockQueue, SchedInv, sched
<1>3. CASE ApplyMessage
  BY <1>3, <1>t DEF ApplyMessage, SchedInv, sched
<1>4. ASSUME NEW id \in Ids, NEW j \in Jobs, JobStep(id, j) \/ StartJob(id, j) PROVE SchedInv'
  <2>1. /\ Elsewhere(id)
        /\ SchedOK(job'[id], stage'[id], tasksLeft'[id], failed'[id], loader'[id], reports'[id])
    BY <1>4, JobSched
  <2> QED
    BY <2>1, <1>t, SchedElsewhere
<1>5. ASSUME NEW id \in Ids, NEW res \in {"ok", "error"}, LoadUnwind(id, res) PROVE SchedInv'
  BY <1>5, <1>t DEF LoadUnwind, SchedInv, sched
<1>6. CASE UNCHANGED vars
  BY <1>6, <1>t DEF vars, SchedInv, sched
<1> QED
  BY <1>1, <1>2, <1>3, <1>4, <1>5, <1>6, Steps

\* Nobody unwraps a loader that is gone, and tasks_left does not wrap around.
LEMMA FaultsStep == IInv /\ [Next]_vars => NoFaults'
<1> SUFFICES ASSUME IInv, [Next]_vars PROVE faults' = {}
  BY DEF NoFaults
<1>t. TypeOK /\ SchedInv /\ faults = {}
  BY DEF IInv, NoFaults
<1>1. ASSUME NEW id \in Ids, NEW j \in Jobs, StartJob(id, j) PROVE faults' = {}
  <2>1. CASE j = ElfJob
    BY <1>1, <2>1, <1>t DEF StartJob
  <2>2. CASE j # ElfJob
    <3>j. /\ job[id] \in [Jobs -> Places] /\ stage[id] \in Nat
          /\ loader[id] \in {"none", "some", "taken"}
      BY <1>t, Typed
    <3>s. SchedOK(job[id], stage[id], tasksLeft[id], failed[id], loader[id], reports[id])
      BY <1>t DEF SchedInv
    <3>1. job[id][j] = "queued" /\ job[id][j] \in Working
      BY <1>1 DEF StartJob, Goto, Working
    <3>2. StageOf(j) = stage[id]
      BY <3>1, <3>j, <3>s, WorkingIsCurrent DEF SchedOK
    <3>3. stage[id] > 0
      BY <2>2, <3>2, JobStages
    <3>4. loader[id] = "some"
      BY <3>1, <3>3, <3>j, <3>s DEF SchedOK, LoaderKept
    <3> QED
      BY <1>1, <2>2, <3>4, <1>t DEF StartJob, NoLoader
  <2> QED
    BY <2>1, <2>2
<1>2. ASSUME NEW id \in Ids, NEW j \in Jobs, Schedule(id, j) PROVE faults' = {}
  <2>j. /\ job[id] \in [Jobs -> Places] /\ stage[id] \in Nat
        /\ tasksLeft[id] \in Nat /\ failed[id] \in BOOLEAN
        /\ loader[id] \in {"none", "some", "taken"} /\ reports[id] \in Nat
    BY <1>t, Typed
  <2>s. SchedOK(job[id], stage[id], tasksLeft[id], failed[id], loader[id], reports[id])
    BY <1>t DEF SchedInv
  <2>0. job[id][j] = "schedule"
    <3>1. PICK q : Goto(id, j, "schedule", q)
      BY <1>2, <1>t, ScheduleFacts
    <3> QED
      BY <3>1 DEF Goto
  <2>1. CASE tasksLeft[id] = 1
    <3>1. tasksLeft[id] < 2
      BY <2>1
    <3>2. stage[id] < LastStage /\ loader[id] = "some"
      BY <3>1, <2>0, <2>j, <2>s, LastIsAlone
    <3>3. stage[id] # LastStage /\ NoLoader(id) = {}
      BY <3>2, <2>j, SizesAssumption DEF NoLoader
    <3>4. faults' = faults \cup NoLoader(id)
                       \cup (IF stage[id] = LastStage THEN {"unexpected_stage"} ELSE {})
      BY <2>1, <1>2, <1>t, ScheduleFacts
    <3> QED
      BY <3>3, <3>4, <1>t
  <2>2. CASE tasksLeft[id] # 1
    <3>1. /\ tasksLeft[id] # 0
          /\ SchedOK([job[id] EXCEPT ![j] = "done"], stage[id], tasksLeft[id] - 1, failed[id], loader[id],
                     reports[id])
      BY <2>0, <2>2, <2>j, <2>s, NotTheLast
    <3>2. faults' = faults \cup (IF tasksLeft[id] = 0 THEN {"tasks_left_underflow"} ELSE {})
      BY <2>2, <1>2, <1>t, ScheduleFacts
    <3> QED
      BY <3>1, <3>2, <1>t
  <2> QED
    BY <2>1, <2>2
<1>3. ASSUME NEW id \in Ids, NEW j \in Jobs, JobStep(id, j), ~Schedule(id, j) PROVE faults' = {}
  BY <1>3, <1>t DEF JobStep, OpenElf, StartLoader, RunShard, Prepared, Fanout, Fail, StopOthers,
     Cancelling, Complete
<1>4. CASE \E maps \in SUBSET Locators : Refresh(maps)
  BY <1>4, <1>t DEF Refresh
<1>5. CASE ReadEvent \/ LockQueue \/ UnlockQueue \/ ApplyMessage
  BY <1>5, <1>t DEF ReadEvent, LockQueue, UnlockQueue, ApplyMessage
<1>6. CASE \E id \in Ids, res \in {"ok", "error"} : LoadUnwind(id, res)
  BY <1>6, <1>t DEF LoadUnwind
<1>7. CASE UNCHANGED vars
  BY <1>7, <1>t DEF vars
<1> QED
  BY <1>1, <1>2, <1>3, <1>4, <1>5, <1>6, <1>7, Steps

\* A message is left in the queue only when the main thread will find it.
LEMMA WakeStep == IInv /\ [Next]_vars => MessagesWake'
<1> SUFFICES ASSUME IInv, [Next]_vars PROVE MessagesWake'
  OBVIOUS
<1>t. MessagesWake
  BY DEF IInv
<1>1. ASSUME NEW id, NEW j, JobStep(id, j) \/ StartJob(id, j) PROVE MessagesWake'
  <2>1. UNCHANGED shared \/ wake' = TRUE
    <3>1. ASSUME NEW res, OpenElf(id, res) \/ Complete(id, j, res) PROVE wake' = TRUE
      BY <3>1 DEF OpenElf, Complete, Send
    <3>2. ASSUME NEW ok, StartLoader(id, ok) PROVE UNCHANGED shared
      BY <3>2 DEF StartLoader
    <3>3. ASSUME NEW res, RunShard(id, j, res) \/ Fail(id, j, res) \/ StopOthers(id, j, res)
          PROVE  UNCHANGED shared
      BY <3>3 DEF RunShard, Fail, StopOthers
    <3>4. ASSUME Schedule(id, j) \/ Prepared(id, j) \/ Cancelling(id, j) \/ StartJob(id, j)
          PROVE  UNCHANGED shared
      BY <3>4 DEF Schedule, ScheduleFrom, Prepared, Cancelling, StartJob
    <3>5. ASSUME NEW i, Fanout(id, j, i) PROVE UNCHANGED shared
      BY <3>5 DEF Fanout
    <3> QED
      BY <1>1, <3>1, <3>2, <3>3, <3>4, <3>5 DEF JobStep
  <2> QED
    BY <2>1, <1>t DEF shared, MessagesWake
<1>2. ASSUME NEW maps, Refresh(maps) PROVE MessagesWake'
  BY <1>2, <1>t DEF Refresh, shared, MessagesWake
<1>3. CASE ReadEvent \/ LockQueue \/ UnlockQueue \/ ApplyMessage
  BY <1>3, <1>t DEF ReadEvent, LockQueue, UnlockQueue, ApplyMessage, MessagesWake
<1>4. ASSUME NEW id, NEW res, LoadUnwind(id, res) PROVE MessagesWake'
  BY <1>4, <1>t DEF LoadUnwind, Send, MessagesWake
<1>5. CASE UNCHANGED vars
  BY <1>5, <1>t DEF vars, shared, MessagesWake
<1> QED
  BY <1>1, <1>2, <1>3, <1>4, <1>5, Steps

\* The ELF file is opened before anything else is done.
LEMMA OpenedStep == IInv /\ [Next]_vars => OpenedFirst'
<1> SUFFICES ASSUME IInv, [Next]_vars PROVE OpenedFirst'
  OBVIOUS
<1>t. TypeOK /\ Registered /\ OpenedFirst
  BY DEF IInv
<1>1. ASSUME NEW maps \in SUBSET Locators, Refresh(maps) PROVE OpenedFirst'
  <2>1. /\ \A id \in Ids : IsNew(id) \/ IsEvicted(id) \/ IsKept(id)
        /\ UNCHANGED <<stage, loader, unwindJob, reports>>
    BY <1>1, <1>t, RefreshFacts
  <2>2. ASSUME NEW id \in Ids
        PROVE  ElfFirst(job'[id], unwindJob[id], reports[id], loader[id], stage[id])
    <3>1. CASE IsNew(id)
      <4>1. count < id /\ id \in Nat /\ count \in Nat
        BY <3>1, <1>t, Typed DEF IsNew, TypeOK
      <4>2. (\A j \in Jobs : job[id][j] = "none") /\ unwindJob[id] = "none"
        BY <4>1, <1>t DEF Registered
      <4>3. job'[id] = [job[id] EXCEPT ![ElfJob] = "queued"] /\ job[id] \in [Jobs -> Places]
        BY <3>1, <1>t, Typed DEF IsNew
      <4>4. job'[id][ElfJob] = "queued" /\ \A j \in ShardJobs : job'[id][j] = job[id][j]
        BY <4>3, JobStages
      <4>5. reports[id] = 0 /\ loader[id] = "none" /\ stage[id] = 0
        BY <4>2, <1>t DEF OpenedFirst, ElfFirst
      <4> QED
        BY <4>2, <4>4, <4>5, JobStages DEF ElfFirst
    <3>2. CASE IsEvicted(id) \/ IsKept(id)
      BY <3>2, <1>t DEF IsEvicted, IsKept, OpenedFirst
    <3> QED
      BY <2>1, <3>1, <3>2
  <2> QED
    BY <2>1, <2>2 DEF OpenedFirst
<1>2. CASE ReadEvent \/ LockQueue \/ UnlockQueue
  BY <1>2, <1>t DEF ReadEvent, LockQueue, UnlockQueue, OpenedFirst, sched
<1>3. CASE ApplyMessage
  BY <1>3, <1>t DEF ApplyMessage, OpenedFirst, sched
<1>4. ASSUME NEW id \in Ids, NEW j \in Jobs, JobStep(id, j) \/ StartJob(id, j) PROVE OpenedFirst'
  <2>1. Elsewhere(id)
    BY <1>4, JobSched
  <2>2. ElfFirst(job'[id], unwindJob'[id], reports'[id], loader'[id], stage'[id])
    <3>0. job[id][j] \notin {"none", "done"}
      BY <1>4, JobFrame
    <3>1. CASE unwindJob[id] # "none"
      <4>1. unwindJob'[id] # "none"
        BY <1>4, <3>1, JobFrame
      <4>2. job[id][ElfJob] \notin {"none", "queued", "run"}
        BY <3>1, <1>t DEF OpenedFirst, ElfFirst
      <4>3. job'[id][ElfJob] \notin {"none", "queued", "run"}
        <5> DEFINE Goal == job'[id][ElfJob] \notin {"none", "queued", "run"}
        <5>1. ASSUME NEW p, NEW q, Goto(id, j, p, q), q \notin {"none", "queued", "run"} \/ j # ElfJob
              PROVE  Goal
          <6>0. job'[id] = [job[id] EXCEPT ![j] = q] /\ job[id] \in [Jobs -> Places]
            BY <5>1, <1>t, Moved, Typed
          <6>1. job'[id][j] = q /\ \A i \in Jobs \ {j} : job'[id][i] = job[id][i]
            BY <6>0
          <6> QED
            BY <5>1, <6>1, <4>2, JobStages
        <5>2. ASSUME StartJob(id, j) PROVE Goal
          <6>1. Goto(id, j, "queued", "run") /\ j # ElfJob
            BY <5>2, <4>2 DEF StartJob, Goto
          <6> QED
            BY <6>1, <5>1
        <5>3. ASSUME j = ElfJob, NEW res, OpenElf(id, res) PROVE Goal
          BY <5>3, <4>2 DEF OpenElf, Goto
        <5>4. ASSUME j = ElfJob, NEW ok, StartLoader(id, ok) PROVE Goal
          BY <5>4, <5>1 DEF StartLoader
        <5>5. ASSUME NEW res \in Results, RunShard(id, j, res) PROVE Goal
          BY <5>5, <5>1 DEF RunShard, FailAt
        <5>6. ASSUME Schedule(id, j) PROVE Goal
          <6>1. PICK q \in {"preparing", "cancelling", "fail_cancelled", "done"} :
                   Goto(id, j, "schedule", q)
            BY <5>6, <1>t, ScheduleFacts
          <6> QED
            BY <6>1, <5>1
        <5>7. ASSUME Prepared(id, j) PROVE Goal
          BY <5>7, <5>1 DEF Prepared
        <5>8. ASSUME NEW i \in Shards, Fanout(id, j, i) PROVE Goal
          <6>1. /\ job' = [job EXCEPT ![id][<<stage[id], i>>] = "queued",
                                      ![id][j] = IF i = NumShards THEN "done" ELSE @]
                /\ <<stage[id], i>> \in ShardJobs
            BY <5>8 DEF Fanout
          <6>2. <<stage[id], i>> # ElfJob /\ ElfJob \in Jobs
            BY <6>1, JobStages
          <6>3. job'[id][ElfJob] \in {job[id][ElfJob], "done"}
            <7> DEFINE x == <<stage[id], i>>
            <7>1. x \in Jobs
              BY <6>1 DEF Jobs
            <7> HIDE DEF x
            <7>2. job' = [job EXCEPT ![id][x] = "queued", ![id][j] = IF i = NumShards THEN "done" ELSE @]
              BY <6>1 DEF x
            <7>3. x # ElfJob /\ job \in [Ids -> [Jobs -> Places]]
              BY <6>2, <1>t DEF x, TypeOK
            <7> QED
              BY <7>1, <7>2, <7>3, <6>2
          <6> QED
            BY <6>3, <4>2
        <5>9. ASSUME NEW res \in {"error", "cancelled"}, Fail(id, j, res) PROVE Goal
          BY <5>9, <5>1 DEF Fail, StopAt
        <5>10. ASSUME NEW res \in {"error", "cancelled"}, StopOthers(id, j, res) PROVE Goal
          BY <5>10, <5>1 DEF StopOthers, ReportAt
        <5>11. ASSUME Cancelling(id, j) PROVE Goal
          BY <5>11, <5>1 DEF Cancelling
        <5>12. ASSUME NEW res \in Results, Complete(id, j, res) PROVE Goal
          BY <5>12, <5>1 DEF Complete
        <5> QED
          BY <1>4, <5>2, <5>3, <5>4, <5>5, <5>6, <5>7, <5>8, <5>9, <5>10, <5>11, <5>12 DEF JobStep
      <4> QED
        BY <4>1, <4>3 DEF ElfFirst
    <3>2. CASE unwindJob[id] = "none"
      <4>1. /\ \A i \in ShardJobs : job[id][i] = "none"
            /\ reports[id] = 0 /\ loader[id] = "none" /\ stage[id] = 0
        BY <3>2, <1>t DEF OpenedFirst, ElfFirst
      <4>2. /\ j = ElfJob
            /\ StartJob(id, j) \/ (\E res \in {"ok", "error"} : OpenElf(id, res))
        BY <1>4, <3>2, Opening
      <4>3. CASE StartJob(id, j)
        <5>1. Goto(id, ElfJob, "queued", "run") /\ UNCHANGED <<sched, unwindJob, reports>>
          BY <4>2, <4>3 DEF StartJob
        <5>3. job'[id] = [job[id] EXCEPT ![ElfJob] = "run"] /\ job[id] \in [Jobs -> Places]
          BY <5>1, <1>t, Moved, Typed, JobStages
        <5>2. job'[id][ElfJob] = "run" /\ \A i \in Jobs \ {ElfJob} : job'[id][i] = job[id][i]
          BY <5>3, JobStages
        <5> QED
          BY <5>1, <5>2, <4>1, <3>2, JobStages DEF ElfFirst, sched
      <4>4. ASSUME NEW res \in {"ok", "error"}, OpenElf(id, res)
            PROVE  ElfFirst(job'[id], unwindJob'[id], reports'[id], loader'[id], stage'[id])
        <5>1. /\ Goto(id, ElfJob, "run", IF res = "ok" THEN "start" ELSE "done")
              /\ UNCHANGED <<sched, reports>>
              /\ unwindJob'[id] = IF res = "ok" THEN "queued" ELSE unwindJob[id]
          BY <4>4, <1>t DEF OpenElf, TypeOK
        <5>3. /\ job'[id] = [job[id] EXCEPT ![ElfJob] = IF res = "ok" THEN "start" ELSE "done"]
              /\ job[id] \in [Jobs -> Places]
          BY <5>1, <1>t, Moved, Typed, JobStages
        <5>2. /\ job'[id][ElfJob] = IF res = "ok" THEN "start" ELSE "done"
              /\ \A i \in Jobs \ {ElfJob} : job'[id][i] = job[id][i]
          BY <5>3, JobStages
        <5> QED
          BY <5>1, <5>2, <4>1, <3>2, JobStages DEF ElfFirst, sched
      <4> QED
        BY <4>2, <4>3, <4>4
    <3> QED
      BY <3>1, <3>2
  <2> QED
    BY <2>1, <2>2, <1>t DEF OpenedFirst, Elsewhere
<1>5. ASSUME NEW id \in Ids, NEW res \in {"ok", "error"}, LoadUnwind(id, res) PROVE OpenedFirst'
  <2>1. /\ unwindJob[id] = "queued" /\ unwindJob'[id] = "done"
        /\ \A o \in Ids \ {id} : unwindJob'[o] = unwindJob[o]
        /\ UNCHANGED <<sched, job, reports>>
    BY <1>5, <1>t DEF LoadUnwind, TypeOK
  <2> QED
    BY <2>1, <1>t DEF OpenedFirst, ElfFirst, sched
<1>6. CASE UNCHANGED vars
  BY <1>6, <1>t DEF vars, OpenedFirst, sched
<1> QED
  BY <1>1, <1>2, <1>3, <1>4, <1>5, <1>6, Steps

\* Binaries are registered before they are loaded, and cancelled when they are evicted.
LEMMA RegisteredStep == IInv /\ [Next]_vars => Registered'
<1> SUFFICES ASSUME IInv, [Next]_vars PROVE Registered'
  OBVIOUS
<1>t. TypeOK /\ Registered
  BY DEF IInv
<1>n. count \in Nat /\ \A id \in Ids : id \in Nat
  BY <1>t, Typed DEF TypeOK
<1>1. ASSUME NEW maps \in SUBSET Locators, Refresh(maps) PROVE Registered'
  <2>1. /\ \A id \in Ids : IsNew(id) \/ IsEvicted(id) \/ IsKept(id)
        /\ UNCHANGED <<failed, unwindJob>>
        /\ count' \in Nat /\ count <= count'
    BY <1>1, <1>t, RefreshFacts
  <2>2. ASSUME NEW id \in Ids, id > count'
        PROVE  /\ loc'[id] = NoLocator /\ ~cancel'[id] /\ ~failed'[id] /\ unwindJob'[id] = "none"
               /\ \A j \in Jobs : job'[id][j] = "none"
               /\ symbols'[id] = "loading" /\ unwind'[id] = "loading"
    <3>1. id > count /\ ~(id <= count) /\ ~(id <= count')
      BY <2>1, <2>2, <1>n
    <3>2. IsKept(id)
      BY <2>1, <3>1 DEF IsNew, IsEvicted
    <3> QED
      BY <2>1, <3>1, <3>2, <1>t DEF Registered, IsKept
  <2>3. ASSUME NEW id \in Ids, id <= count', loc'[id] = NoLocator PROVE cancel'[id]
    <3>1. CASE IsNew(id)
      BY <2>3, <3>1, LocatorsAssumption DEF IsNew
    <3>2. CASE IsEvicted(id)
      BY <3>2 DEF IsEvicted
    <3>3. CASE IsKept(id)
      <4>1. id <= count
        BY <2>1, <2>3, <3>3, <1>n DEF IsKept
      <4> QED
        BY <4>1, <2>3, <3>3, <1>t DEF Registered, IsKept
    <3> QED
      BY <2>1, <3>1, <3>2, <3>3
  <2> QED
    BY <2>2, <2>3 DEF Registered
<1>2. CASE ReadEvent \/ LockQueue \/ UnlockQueue
  BY <1>2, <1>t DEF ReadEvent, LockQueue, UnlockQueue, Registered, regVars, sched
<1>3. CASE ApplyMessage
  <2>1. /\ UNCHANGED <<count, loc, sched, job, unwindJob>>
        /\ \A id \in Ids \ Live : symbols'[id] = symbols[id] /\ unwind'[id] = unwind[id]
    BY <1>3, <1>t DEF ApplyMessage, TypeOK, Live
  <2>2. \A id \in Ids : id > count => id \notin Live
    BY <1>t DEF Registered, Live
  <2> QED
    BY <2>1, <2>2, <1>t DEF Registered, sched
<1>4. ASSUME NEW id \in Ids, NEW j \in Jobs, JobStep(id, j) \/ StartJob(id, j) PROVE Registered'
  <2>3. Elsewhere(id)
    BY <1>4, JobSched
  <2>4. UNCHANGED regVars /\ id <= count /\ (cancel[id] = TRUE => cancel'[id] = TRUE)
    BY <1>4, JobFrame
  <2>1. /\ Elsewhere(id) /\ UNCHANGED regVars /\ ~(id > count)
        /\ cancel[id] = TRUE => cancel'[id] = TRUE
    BY <2>3, <2>4, <1>n
  <2>2. cancel[id] \in BOOLEAN
    BY <1>t, Typed
  <2> QED
    BY <2>1, <2>2, <1>t DEF Registered, Elsewhere, regVars
<1>5. ASSUME NEW id \in Ids, NEW res \in {"ok", "error"}, LoadUnwind(id, res) PROVE Registered'
  <2>1. /\ unwindJob[id] = "queued" /\ unwindJob'[id] = "done"
        /\ \A o \in Ids \ {id} : unwindJob'[o] = unwindJob[o]
        /\ UNCHANGED <<regVars, sched, job>>
    BY <1>5, <1>t DEF LoadUnwind, TypeOK
  <2> QED
    BY <2>1, <1>t DEF Registered, regVars, sched
<1>6. CASE UNCHANGED vars
  BY <1>6, <1>t DEF vars, Registered, regVars, sched
<1> QED
  BY <1>1, <1>2, <1>3, <1>4, <1>5, <1>6, Steps

\* complete() is the only step that counts a report.
LEMMA ReportsGrow ==
    ASSUME TypeOK, NEW id \in Ids, NEW j \in Jobs, JobStep(id, j) \/ StartJob(id, j)
    PROVE  reports'[id] = reports[id] \/ reports'[id] = reports[id] + 1
<1>1. ASSUME NEW res \in Results, Complete(id, j, res) PROVE reports'[id] = reports[id] + 1
  BY <1>1 DEF Complete, TypeOK
<1>2. ASSUME StartJob(id, j) \/ Schedule(id, j) \/ Prepared(id, j) \/ Cancelling(id, j)
      PROVE  reports' = reports
  BY <1>2 DEF StartJob, Schedule, ScheduleFrom, Prepared, Cancelling
<1>3. ASSUME NEW res, OpenElf(id, res) \/ RunShard(id, j, res) \/ Fail(id, j, res) \/ StopOthers(id, j, res)
      PROVE  reports' = reports
  BY <1>3 DEF OpenElf, RunShard, Fail, StopOthers
<1>4. ASSUME NEW ok, StartLoader(id, ok) PROVE reports' = reports
  BY <1>4 DEF StartLoader
<1>5. ASSUME NEW i, Fanout(id, j, i) PROVE reports' = reports
  BY <1>5 DEF Fanout
<1> QED
  BY <1>1, <1>2, <1>3, <1>4, <1>5 DEF JobStep

\* What has been sent is not sent again.
LEMMA StaysSettled ==
    ASSUME IInv, [Next]_vars, NEW o \in Ids, NEW kind \in Kinds, Settled(o, kind)
    PROVE  Settled(o, kind)'
<1>t. TypeOK /\ Registered /\ OpenedFirst
  BY DEF IInv
<1>1. ASSUME NEW maps \in SUBSET Locators, Refresh(maps) PROVE Settled(o, kind)'
  <2>1. /\ IsNew(o) \/ IsEvicted(o) \/ IsKept(o)
        /\ UNCHANGED <<unwindJob, reports>>
    BY <1>1, <1>t, RefreshFacts
  <2>2. CASE IsNew(o)
    <3>1. count < o /\ o \in Nat /\ count \in Nat
      BY <2>2, <1>t, Typed DEF IsNew, TypeOK
    <3>2. job[o][ElfJob] = "none" /\ unwindJob[o] = "none"
      BY <3>1, <1>t, JobStages DEF Registered
    <3>3. reports[o] = 0
      BY <3>2, <1>t DEF OpenedFirst, ElfFirst
    <3> QED
      BY <3>2, <3>3 DEF Settled, ElfFailed
  <2>3. CASE IsEvicted(o) \/ IsKept(o)
    BY <2>1, <2>3 DEF IsEvicted, IsKept, Settled, ElfFailed
  <2> QED
    BY <2>1, <2>2, <2>3
<1>2. CASE ReadEvent \/ LockQueue \/ UnlockQueue
  BY <1>2 DEF ReadEvent, LockQueue, UnlockQueue, Settled, ElfFailed
<1>3. CASE ApplyMessage
  BY <1>3 DEF ApplyMessage, Settled, ElfFailed
<1>4. ASSUME NEW id \in Ids, NEW j \in Jobs, JobStep(id, j) \/ StartJob(id, j) PROVE Settled(o, kind)'
  <2>1. /\ Elsewhere(id)
        /\ SchedOK(job'[id], stage'[id], tasksLeft'[id], failed'[id], loader'[id], reports'[id])
    BY <1>4, JobSched
  <2>2. CASE o # id
    BY <2>1, <2>2 DEF Elsewhere, Settled, ElfFailed
  <2>3. CASE o = id
    <3>1. ~ElfFailed(id)
      <4> SUFFICES ASSUME ElfFailed(id) PROVE FALSE
        OBVIOUS
      <4>1. unwindJob[id] = "none" /\ job[id][ElfJob] = "done"
        BY DEF ElfFailed
      <4>2. j = ElfJob /\ job[id][j] \in {"queued", "run"}
        BY <1>4, <4>1, Opening
      <4> QED
        BY <4>1, <4>2
    <3>2. CASE kind = "symbols"
      <4>1. reports[id] = 1
        BY <2>3, <3>1, <3>2 DEF Settled
      <4>2. reports'[id] = reports[id] \/ reports'[id] = reports[id] + 1
        BY <1>4, <1>t, ReportsGrow
      <4>3. reports'[id] \in {0, 1}
        BY <2>1 DEF SchedOK, OneClaim
      <4>4. reports'[id] = 1
        BY <4>1, <4>2, <4>3
      <4> QED
        BY <4>4, <2>3, <3>2 DEF Settled
    <3>3. CASE kind # "symbols"
      <4>1. unwindJob[id] = "done"
        BY <2>3, <3>1, <3>3 DEF Settled
      <4>2. unwindJob[id] # "none" => unwindJob'[id] = unwindJob[id]
        BY <1>4, JobFrame
      <4> QED
        BY <4>1, <4>2, <2>3, <3>3 DEF Settled
    <3> QED
      BY <3>2, <3>3
  <2> QED
    BY <2>2, <2>3
<1>5. ASSUME NEW id \in Ids, NEW res \in {"ok", "error"}, LoadUnwind(id, res) PROVE Settled(o, kind)'
  <2>1. /\ unwindJob[id] = "queued" /\ unwindJob'[id] = "done"
        /\ \A i \in Ids \ {id} : unwindJob'[i] = unwindJob[i]
        /\ UNCHANGED <<job, reports>>
    BY <1>5, <1>t DEF LoadUnwind, TypeOK
  <2> QED
    BY <2>1 DEF Settled, ElfFailed
<1>6. CASE UNCHANGED vars
  BY <1>6 DEF vars, Settled, ElfFailed
<1> QED
  BY <1>1, <1>2, <1>3, <1>4, <1>5, <1>6, Steps

\* A message is sent of something that was not sent before.
LEMMA SentOnce ==
    ASSUME TypeOK, OneMessage, NEW id \in Ids, NEW what \in {"elf", "symbols", "unwind"},
           NEW res \in Results, Send(id, what, res), UNCHANGED <<symbols, unwind>>,
           \A o \in Ids, kind \in Kinds : Settled(o, kind) => Settled(o, kind)',
           \A kind \in Kinds : what = kind \/ (what = "elf" /\ res = "error") =>
              ~Settled(id, kind) /\ Settled(id, kind)'
    PROVE  OneMessage'
<1> DEFINE m == [id |-> id, what |-> what, res |-> res]
           n == Len(msgs)
<1>1. /\ n \in Nat /\ DOMAIN msgs = 1..n /\ DOMAIN msgs' = 1..(n + 1)
      /\ \A k \in DOMAIN msgs : msgs'[k] = msgs[k]
      /\ msgs'[n + 1] = m
  BY Sent
<1>2. \A kind \in Kinds, o \in Ids : Sets(m, o, kind) =>
        o = id /\ ~Settled(id, kind) /\ Settled(id, kind)'
  BY DEF Sets
<1> HIDE DEF m, n
<1>3. \A k \in DOMAIN msgs' : k \in DOMAIN msgs \/ k = n + 1
  BY <1>1
<1>4. \A k \in DOMAIN msgs : k # n + 1
  BY <1>1
<1>5. \A o \in Ids, kind \in Kinds : Shown(o, kind)' = Shown(o, kind)
  BY DEF Shown
<1>6. ASSUME NEW o \in Ids, NEW kind \in Kinds, NEW k \in DOMAIN msgs', Sets(msgs'[k], o, kind)
      PROVE  /\ Shown(o, kind)' = "loading" /\ Settled(o, kind)'
             /\ \A h \in DOMAIN msgs' : Sets(msgs'[h], o, kind) => h = k
  <2>1. CASE k \in DOMAIN msgs
    <3>1. /\ Shown(o, kind) = "loading" /\ Settled(o, kind)
          /\ \A h \in DOMAIN msgs : Sets(msgs[h], o, kind) => h = k
      BY <2>1, <1>1, <1>6 DEF OneMessage
    <3>2. ~Sets(m, o, kind)
      BY <3>1, <1>2
    <3> QED
      BY <3>1, <3>2, <1>1, <1>3, <1>5
  <2>2. CASE k = n + 1
    <3>1. Sets(m, o, kind)
      BY <2>2, <1>1, <1>6
    <3>2. o = id /\ ~Settled(o, kind) /\ Settled(o, kind)'
      BY <3>1, <1>2
    <3>3. \A h \in DOMAIN msgs : ~Sets(msgs[h], o, kind)
      BY <3>2 DEF OneMessage
    <3>4. Shown(o, kind) = "loading"
      BY <3>2 DEF OneMessage
    <3> QED
      BY <2>2, <3>2, <3>3, <3>4, <1>1, <1>3, <1>5
  <2> QED
    BY <2>1, <2>2, <1>3
<1>7. \A o \in Ids, kind \in Kinds : Shown(o, kind)' # "loading" => Settled(o, kind)'
  BY <1>5 DEF OneMessage
<1> QED
  BY <1>6, <1>7 DEF OneMessage

\* Nothing is sent.
LEMMA SentNothing ==
    ASSUME OneMessage, msgs' = msgs,
           \A o \in Ids, kind \in Kinds : Settled(o, kind) => Settled(o, kind)',
           \A o \in Ids, kind \in Kinds : Shown(o, kind)' = Shown(o, kind) \/ Shown(o, kind)' = "loading"
    PROVE  OneMessage'
BY DEF OneMessage

\* One result of each kind reaches the main thread.
LEMMA MessageStep == IInv /\ [Next]_vars => OneMessage'
<1> SUFFICES ASSUME IInv, [Next]_vars PROVE OneMessage'
  OBVIOUS
<1>t. TypeOK /\ Registered /\ OpenedFirst /\ OneMessage /\ SchedInv
  BY DEF IInv
<1>s. \A o \in Ids, kind \in Kinds : Settled(o, kind) => Settled(o, kind)'
  BY StaysSettled
<1>q. ASSUME UNCHANGED <<symbols, unwind, msgs>> PROVE OneMessage'
  <2>1. \A o \in Ids, kind \in Kinds : Shown(o, kind)' = Shown(o, kind)
    BY <1>q DEF Shown
  <2> QED
    BY <2>1, <1>q, <1>s, <1>t, SentNothing
<1>1. ASSUME NEW maps \in SUBSET Locators, Refresh(maps) PROVE OneMessage'
  <2>1. /\ \A id \in Ids : IsNew(id) \/ IsEvicted(id) \/ IsKept(id)
        /\ UNCHANGED shared
    BY <1>1, <1>t, RefreshFacts
  <2>2. \A id \in Ids : /\ symbols'[id] = symbols[id] \/ symbols'[id] = "loading"
                        /\ unwind'[id] = unwind[id] \/ unwind'[id] = "loading"
    BY <2>1 DEF IsNew, IsEvicted, IsKept
  <2>3. \A o \in Ids, kind \in Kinds : Shown(o, kind)' = Shown(o, kind) \/ Shown(o, kind)' = "loading"
    BY <2>2 DEF Shown
  <2>4. msgs' = msgs
    BY <2>1 DEF shared
  <2> QED
    BY <2>3, <2>4, <1>s, <1>t, SentNothing
<1>2. CASE ReadEvent \/ LockQueue \/ UnlockQueue
  BY <1>2, <1>q DEF ReadEvent, LockQueue, UnlockQueue, regVars
<1>3. CASE ApplyMessage
  <2> DEFINE m == Head(msgs)
  <2>0. msgs # <<>> /\ msgs' = Tail(msgs) /\ UNCHANGED <<job, unwindJob, reports>>
    BY <1>3 DEF ApplyMessage
  <2>1. /\ m \in Messages /\ m = msgs[1]
        /\ Len(msgs) \in Nat \ {0} /\ DOMAIN msgs = 1..Len(msgs)
        /\ DOMAIN msgs' = 1..(Len(msgs) - 1)
        /\ \A k \in 1..(Len(msgs) - 1) : msgs'[k] = msgs[k + 1]
    BY <2>0, <1>t, Received
  <2>2. \A k \in DOMAIN msgs' : k \in Nat /\ k + 1 \in DOMAIN msgs /\ msgs'[k] = msgs[k + 1] /\ k + 1 # 1
    BY <2>1
  <2>3. 1 \in DOMAIN msgs
    BY <2>1
  <2>4. \A o \in Ids, kind \in Kinds :
          Shown(o, kind)' = Shown(o, kind) \/ Sets(m, o, kind)
    <3>1. m.id \in Ids
      BY <2>1 DEF Messages
    <3>2. \A o \in Ids : /\ symbols'[o] = symbols[o] \/ Sets(m, o, "symbols")
                         /\ unwind'[o] = unwind[o] \/ Sets(m, o, "unwind")
      BY <1>3, <1>t, <3>1 DEF ApplyMessage, Sets, TypeOK
    <3> QED
      BY <3>2 DEF Shown, Kinds
  <2> HIDE DEF m
  <2>5. \A o \in Ids, kind \in Kinds : Settled(o, kind)' <=> Settled(o, kind)
    BY <2>0 DEF Settled, ElfFailed
  <2>6. ASSUME NEW o \in Ids, NEW kind \in Kinds, NEW k \in DOMAIN msgs', Sets(msgs'[k], o, kind)
        PROVE  /\ Shown(o, kind)' = "loading" /\ Settled(o, kind)'
               /\ \A h \in DOMAIN msgs' : Sets(msgs'[h], o, kind) => h = k
    <3>1. Sets(msgs[k + 1], o, kind) /\ k + 1 \in DOMAIN msgs
      BY <2>2, <2>6
    <3>2. /\ Shown(o, kind) = "loading" /\ Settled(o, kind)
          /\ \A h \in DOMAIN msgs : Sets(msgs[h], o, kind) => h = k + 1
      BY <3>1, <1>t DEF OneMessage
    <3>3. ~Sets(m, o, kind)
      BY <2>1, <2>2, <2>3, <3>2
    <3>4. \A h \in DOMAIN msgs' : Sets(msgs'[h], o, kind) => h + 1 = k + 1
      BY <2>2, <3>2
    <3>5. \A h \in DOMAIN msgs' : h + 1 = k + 1 => h = k
      BY <2>2
    <3> QED
      BY <2>4, <2>5, <3>2, <3>3, <3>4, <3>5
  <2>7. ASSUME NEW o \in Ids, NEW kind \in Kinds, Shown(o, kind)' # "loading" PROVE Settled(o, kind)'
    BY <2>1, <2>3, <2>4, <2>5, <2>7, <1>t DEF OneMessage
  <2> QED
    BY <2>6, <2>7 DEF OneMessage
<1>4. ASSUME NEW id \in Ids, NEW j \in Jobs, JobStep(id, j) \/ StartJob(id, j) PROVE OneMessage'
  <2>0. UNCHANGED <<symbols, unwind>>
    <3>1. UNCHANGED regVars
      BY <1>4, JobFrame
    <3> QED
      BY <3>1 DEF regVars
  <2>1. ASSUME j = ElfJob, NEW res \in {"ok", "error"}, OpenElf(id, res) PROVE OneMessage'
    <3>1. /\ Goto(id, ElfJob, "run", IF res = "ok" THEN "start" ELSE "done")
          /\ Send(id, "elf", res) /\ res \in Results
          /\ unwindJob'[id] = IF res = "ok" THEN "queued" ELSE unwindJob[id]
          /\ UNCHANGED reports
      BY <2>1, <1>t DEF OpenElf, Results, TypeOK
    <3>2. job[id][ElfJob] = "run" /\ job'[id] = [job[id] EXCEPT ![ElfJob] = IF res = "ok" THEN "start" ELSE "done"]
      BY <3>1, <1>t, Moved, JobStages
    <3>3. unwindJob[id] = "none"
      BY <3>2, <1>t DEF OpenedFirst, ElfFirst
    <3>4. reports[id] = 0
      BY <3>3, <1>t DEF OpenedFirst, ElfFirst
    <3>5. \A kind \in Kinds : ~Settled(id, kind)
      BY <3>2, <3>3, <3>4 DEF Settled, ElfFailed
    <3>6. res = "error" => \A kind \in Kinds : Settled(id, kind)'
      <4> SUFFICES ASSUME res = "error" PROVE \A kind \in Kinds : Settled(id, kind)'
        OBVIOUS
      <4>1. job[id] \in [Jobs -> Places]
        BY <1>t, Typed
      <4>2. job'[id][ElfJob] = "done"
        BY <4>1, <3>2, JobStages
      <4>3. unwindJob'[id] = "none"
        BY <3>1, <3>3
      <4> QED
        BY <4>2, <4>3 DEF Settled, ElfFailed
    <3>7. \A kind \in Kinds : "elf" = kind \/ ("elf" = "elf" /\ res = "error") =>
             ~Settled(id, kind) /\ Settled(id, kind)'
      BY <3>5, <3>6 DEF Kinds
    <3> QED
      BY <3>1, <3>7, <2>0, <1>s, <1>t, SentOnce
  <2>2. ASSUME NEW res \in Results, Complete(id, j, res) PROVE OneMessage'
    <3>1. /\ Goto(id, j, ReportAt(res), "done") /\ Send(id, "symbols", res)
          /\ reports'[id] = reports[id] + 1 /\ UNCHANGED unwindJob
      BY <2>2, <1>t DEF Complete, TypeOK
    <3>2. job[id][j] = ReportAt(res)
      BY <3>1 DEF Goto
    <3>3. job[id][j] \in {"report_ok", "report_error", "report_cancelled"}
      BY <3>2 DEF ReportAt
    <3>4. unwindJob[id] # "none"
      <4> SUFFICES ASSUME unwindJob[id] = "none" PROVE FALSE
        OBVIOUS
      <4>1. job[id][j] \in {"queued", "run"}
        BY <1>4, Opening
      <4> QED
        BY <4>1, <3>3
    <3>5. reports[id] = 0
      <4>1. SchedOK(job[id], stage[id], tasksLeft[id], failed[id], loader[id], reports[id])
        BY <1>t DEF SchedInv
      <4>2. job[id][j] \in Claims
        BY <3>3 DEF Claims, Failures
      <4> QED
        BY <4>1, <4>2 DEF SchedOK, OneClaim
    <3>6. ~Settled(id, "symbols") /\ Settled(id, "symbols")'
      BY <3>1, <3>4, <3>5 DEF Settled, ElfFailed
    <3>7. \A kind \in Kinds : "symbols" = kind \/ ("symbols" = "elf" /\ res = "error") =>
             ~Settled(id, kind) /\ Settled(id, kind)'
      BY <3>6
    <3> QED
      BY <3>1, <3>7, <2>0, <1>s, <1>t, SentOnce
  <2>3. ASSUME UNCHANGED shared PROVE OneMessage'
    BY <2>3, <2>0, <1>q DEF shared
  <2>4. ASSUME NEW ok, StartLoader(id, ok) PROVE UNCHANGED shared
    BY <2>4 DEF StartLoader
  <2>5. ASSUME NEW res, RunShard(id, j, res) \/ Fail(id, j, res) \/ StopOthers(id, j, res)
        PROVE  UNCHANGED shared
    BY <2>5 DEF RunShard, Fail, StopOthers
  <2>6. ASSUME Schedule(id, j) \/ Prepared(id, j) \/ Cancelling(id, j) \/ StartJob(id, j)
        PROVE  UNCHANGED shared
    BY <2>6 DEF Schedule, ScheduleFrom, Prepared, Cancelling, StartJob
  <2>7. ASSUME NEW i, Fanout(id, j, i) PROVE UNCHANGED shared
    BY <2>7 DEF Fanout
  <2> QED
    BY <1>4, <2>1, <2>2, <2>3, <2>4, <2>5, <2>6, <2>7 DEF JobStep
<1>5. ASSUME NEW id \in Ids, NEW res \in {"ok", "error"}, LoadUnwind(id, res) PROVE OneMessage'
  <2>1. /\ unwindJob[id] = "queued" /\ unwindJob'[id] = "done"
        /\ Send(id, "unwind", res) /\ res \in Results
        /\ UNCHANGED <<symbols, unwind, job, reports>>
    BY <1>5, <1>t DEF LoadUnwind, TypeOK, Results, regVars
  <2>2. ~Settled(id, "unwind") /\ Settled(id, "unwind")'
    BY <2>1 DEF Settled, ElfFailed
  <2>3. \A kind \in Kinds : "unwind" = kind \/ ("unwind" = "elf" /\ res = "error") =>
           ~Settled(id, kind) /\ Settled(id, kind)'
    BY <2>2
  <2>4. UNCHANGED <<symbols, unwind>>
    BY <2>1
  <2> QED
    BY <2>1, <2>3, <2>4, <1>s, <1>t, SentOnce
<1>6. CASE UNCHANGED vars
  BY <1>6, <1>q DEF vars, regVars, shared
<1> QED
  BY <1>1, <1>2, <1>3, <1>4, <1>5, <1>6, Steps

\* A closure moves on, and neither masks a failure nor sees a cancellation that is not there.
LEMMA CauseMoved ==
    ASSUME NEW J \in [Jobs -> Places], NEW c \in BOOLEAN, NEW f \in BOOLEAN, Caused(J, c, f),
           NEW d \in BOOLEAN, NEW g \in BOOLEAN, c = TRUE => d = TRUE, d = TRUE => g = TRUE,
           NEW j \in Jobs, NEW q, q \notin Masking, q \in Seen => d = TRUE
    PROVE  Caused([J EXCEPT ![j] = q], d, g)
<1> DEFINE J2 == [J EXCEPT ![j] = q]
<1>1. \A i \in Jobs : J2[i] = IF i = j THEN q ELSE J[i]
  OBVIOUS
<1> HIDE DEF J2
<1> QED
  BY <1>1 DEF Caused, J2

\* A closure of a registered binary does not cancel it without a failure.
LEMMA JobCause ==
    ASSUME IInv, NEW id \in Live, NEW j \in Jobs, JobStep(id, j) \/ StartJob(id, j)
    PROVE  Caused(job'[id], cancel'[id], failed'[id])
<1> DEFINE Goal == Caused(job'[id], cancel'[id], failed'[id])
<1>t. TypeOK /\ SchedInv /\ id \in Ids
  BY DEF IInv, Live
<1>c. Caused(job[id], cancel[id], failed[id])
  BY DEF IInv, CancelHasCause
<1>y. /\ job[id] \in [Jobs -> Places] /\ cancel[id] \in BOOLEAN /\ failed[id] \in BOOLEAN
  BY <1>t, Typed
<1>q. \A q : job'[id] = [job[id] EXCEPT ![j] = q] /\ q \notin Masking /\ (q \in Seen => cancel[id] = TRUE)
             /\ cancel'[id] = cancel[id] /\ failed'[id] = failed[id]
             => Goal
  <2>1. cancel[id] = TRUE => failed[id] = TRUE
    BY <1>c DEF Caused
  <2> SUFFICES ASSUME NEW q, job'[id] = [job[id] EXCEPT ![j] = q], q \notin Masking,
                      q \in Seen => cancel[id] = TRUE,
                      cancel'[id] = cancel[id], failed'[id] = failed[id]
               PROVE  Goal
    OBVIOUS
  <2>2. Caused([job[id] EXCEPT ![j] = q], cancel[id], failed[id])
    BY <2>1, <1>c, <1>y, CauseMoved
  <2> QED
    BY <2>2
<1>1. ASSUME StartJob(id, j) PROVE Goal
  <2>1. Goto(id, j, "queued", "run") /\ UNCHANGED sched
    BY <1>1 DEF StartJob
  <2>2. job'[id] = [job[id] EXCEPT ![j] = "run"]
    BY <2>1, <1>t, Moved
  <2> QED
    BY <2>1, <2>2, <1>q DEF Masking, Seen, sched
<1>2. ASSUME j = ElfJob, NEW res \in {"ok", "error"}, OpenElf(id, res) PROVE Goal
  <2>1. Goto(id, j, "run", IF res = "ok" THEN "start" ELSE "done") /\ UNCHANGED sched
    BY <1>2 DEF OpenElf
  <2>2. job'[id] = [job[id] EXCEPT ![j] = IF res = "ok" THEN "start" ELSE "done"]
    BY <2>1, <1>t, Moved
  <2>3. (IF res = "ok" THEN "start" ELSE "done") \notin Masking \cup Seen
    BY DEF Masking, Seen
  <2> QED
    BY <2>1, <2>2, <2>3, <1>q DEF sched
<1>3. ASSUME j = ElfJob, NEW ok \in BOOLEAN, StartLoader(id, ok) PROVE Goal
  <2>1. Goto(id, j, "start", IF ok THEN "schedule" ELSE "fail_error") /\ UNCHANGED <<cancel, failed>>
    BY <1>3 DEF StartLoader
  <2>2. job'[id] = [job[id] EXCEPT ![j] = IF ok THEN "schedule" ELSE "fail_error"]
    BY <2>1, <1>t, Moved
  <2>3. (IF ok THEN "schedule" ELSE "fail_error") \notin Masking \cup Seen
    BY DEF Masking, Seen
  <2> QED
    BY <2>1, <2>2, <2>3, <1>q
<1>4. ASSUME NEW res \in Results, RunShard(id, j, res) PROVE Goal
  <2>1. /\ Goto(id, j, "run", IF res = "ok" THEN "schedule" ELSE FailAt(res)) /\ UNCHANGED sched
        /\ res = "cancelled" => cancel[id]
    BY <1>4 DEF RunShard
  <2>2. job'[id] = [job[id] EXCEPT ![j] = IF res = "ok" THEN "schedule" ELSE FailAt(res)]
    BY <2>1, <1>t, Moved
  <2>3. CASE res = "cancelled"
    <3>1. cancel[id] = TRUE
      BY <2>1, <2>3, <1>y
    <3>2. job'[id] = [job[id] EXCEPT ![j] = "fail_cancelled"]
      BY <2>2, <2>3 DEF FailAt
    <3> QED
      BY <3>1, <3>2, <2>1, <1>q DEF Masking, sched
  <2>4. CASE res # "cancelled"
    <3>1. (IF res = "ok" THEN "schedule" ELSE FailAt(res)) \notin Masking \cup Seen
      BY <2>4 DEF Masking, Seen, FailAt, Results
    <3> QED
      BY <3>1, <2>2, <2>1, <1>q DEF sched
  <2> QED
    BY <2>3, <2>4
<1>5. ASSUME Schedule(id, j) PROVE Goal
  <2>0. UNCHANGED <<cancel, failed>>
    BY <1>5 DEF Schedule, ScheduleFrom
  <2>1. PICK q \in {"preparing", "cancelling", "fail_cancelled", "done"} :
           Goto(id, j, "schedule", q) /\ (q \in Seen => cancel[id])
    BY <1>5, <1>t, ScheduleFacts DEF Seen
  <2>2. job'[id] = [job[id] EXCEPT ![j] = q]
    BY <2>1, <1>t, Moved
  <2>3. q \notin Masking
    BY <2>1 DEF Masking
  <2>4. q \in Seen => cancel[id] = TRUE
    BY <2>1, <1>y
  <2> QED
    BY <2>0, <2>2, <2>3, <2>4, <1>q
<1>6. ASSUME Prepared(id, j) PROVE Goal
  <2> DEFINE q == IF stage[id] = LastStage THEN "report_ok"
                  ELSE IF cancel[id] THEN "cancelling" ELSE "fanout"
  <2>1. Goto(id, j, "preparing", q) /\ UNCHANGED <<cancel, failed>>
    BY <1>6 DEF Prepared
  <2>2. job'[id] = [job[id] EXCEPT ![j] = q]
    BY <2>1, <1>t, Moved
  <2>3. q \notin Masking
    BY DEF Masking
  <2>4. q \in Seen => cancel[id] = TRUE
    BY <1>y DEF Seen
  <2> HIDE DEF q
  <2> QED
    BY <2>1, <2>2, <2>3, <2>4, <1>q
<1>7. ASSUME NEW i \in Shards, Fanout(id, j, i) PROVE Goal
  <2> DEFINE s == <<stage[id], i>>
  <2>1. /\ s \in ShardJobs /\ UNCHANGED sched /\ job[id][j] = "fanout" /\ job[id][s] = "none"
        /\ job' = [job EXCEPT ![id][s] = "queued", ![id][j] = IF i = NumShards THEN "done" ELSE @]
    BY <1>7 DEF Fanout
  <2>2. s \in Jobs
    BY <2>1, JobStages
  <2> HIDE DEF s
  <2>3. job \in [Ids -> [Jobs -> Places]]
    BY <1>t DEF TypeOK
  <2>4. \A k \in Jobs : job'[id][k] = job[id][k] \/ job'[id][k] \in {"queued", "done"}
    BY <2>1, <2>2, <2>3, <1>t
  <2> QED
    BY <2>1, <2>4, <1>c DEF Caused, Masking, Seen, sched
<1>8. ASSUME NEW res \in {"error", "cancelled"}, Fail(id, j, res) PROVE Goal
  <2> DEFINE q == IF failed[id] THEN "done" ELSE StopAt(res)
  <2>1. Goto(id, j, FailAt(res), q) /\ UNCHANGED cancel /\ failed'[id] = TRUE
    BY <1>8, <1>t DEF Fail, TypeOK
  <2>2. job'[id] = [job[id] EXCEPT ![j] = q] /\ job[id][j] = FailAt(res)
    BY <2>1, <1>t, Moved
  <2>3. q \notin Masking \cup Seen
    <3>1. CASE res = "cancelled"
      <4>1. job[id][j] \in Seen
        BY <2>2, <3>1 DEF FailAt, Seen
      <4>2. failed[id] = TRUE
        BY <4>1, <1>c DEF Caused
      <4> QED
        BY <4>2 DEF Masking, Seen
    <3>2. CASE res = "error"
      BY <3>2 DEF StopAt, Masking, Seen
    <3> QED
      BY <3>1, <3>2
  <2> HIDE DEF q
  <2>4. Caused([job[id] EXCEPT ![j] = q], cancel[id], TRUE)
    BY <2>3, <1>c, <1>y, CauseMoved
  <2> QED
    BY <2>1, <2>2, <2>4
<1>9. ASSUME NEW res \in {"error", "cancelled"}, StopOthers(id, j, res) PROVE Goal
  <2>1. Goto(id, j, StopAt(res), ReportAt(res)) /\ cancel'[id] = TRUE /\ UNCHANGED failed
    BY <1>9, <1>t DEF StopOthers, TypeOK
  <2>2. job'[id] = [job[id] EXCEPT ![j] = ReportAt(res)] /\ job[id][j] = StopAt(res)
    BY <2>1, <1>t, Moved
  <2>3. res = "error"
    <3>1. res = "cancelled" => job[id][j] \in Masking
      BY <2>2 DEF StopAt, Masking
    <3> QED
      BY <3>1, <1>c DEF Caused
  <2>4. ReportAt(res) \notin Masking \cup Seen
    BY <2>3 DEF ReportAt, Masking, Seen
  <2>5. failed[id] = TRUE
    <3>1. job[id][j] \in Failures
      BY <2>2, <2>3 DEF StopAt, Failures
    <3>2. OneClaim(job[id], failed[id], loader[id], reports[id])
      BY <1>t DEF SchedInv, SchedOK
    <3> QED
      BY <3>1, <3>2, <1>y DEF OneClaim
  <2>6. Caused([job[id] EXCEPT ![j] = ReportAt(res)], TRUE, TRUE)
    BY <2>4, <1>c, <1>y, CauseMoved
  <2> QED
    BY <2>1, <2>2, <2>5, <2>6
<1>10. ASSUME Cancelling(id, j) PROVE Goal
  <2> DEFINE q == IF failed[id] THEN "done" ELSE "report_cancelled"
  <2>1. Goto(id, j, "cancelling", q) /\ UNCHANGED cancel /\ failed'[id] = TRUE
    BY <1>10, <1>t DEF Cancelling, TypeOK
  <2>2. job'[id] = [job[id] EXCEPT ![j] = q] /\ job[id][j] = "cancelling"
    BY <2>1, <1>t, Moved
  <2>3. failed[id] = TRUE
    BY <2>2, <1>c DEF Caused, Seen
  <2>4. q \notin Masking \cup Seen
    BY <2>3 DEF Masking, Seen
  <2> HIDE DEF q
  <2>5. Caused([job[id] EXCEPT ![j] = q], cancel[id], TRUE)
    BY <2>4, <1>c, <1>y, CauseMoved
  <2> QED
    BY <2>1, <2>2, <2>5
<1>11. ASSUME NEW res \in Results, Complete(id, j, res) PROVE Goal
  <2>1. Goto(id, j, ReportAt(res), "done") /\ UNCHANGED sched
    BY <1>11 DEF Complete
  <2>2. job'[id] = [job[id] EXCEPT ![j] = "done"]
    BY <2>1, <1>t, Moved
  <2> QED
    BY <2>1, <2>2, <1>q DEF Masking, Seen, sched
<1> QED
  BY <1>1, <1>2, <1>3, <1>4, <1>5, <1>6, <1>7, <1>8, <1>9, <1>10, <1>11 DEF JobStep

\* No message of a registered binary says that it was cancelled.
NotCancelled(id) == \A k \in DOMAIN msgs : Sets(msgs[k], id, "symbols") => msgs[k].res # "cancelled"

\* A message of a closure of a registered binary says what happened to it.
LEMMA SentHonestly ==
    ASSUME TypeOK, NEW o \in Ids, NotCancelled(o), NEW id \in Ids, NEW what \in {"elf", "symbols", "unwind"},
           NEW res \in Results, Send(id, what, res),
           o = id /\ what # "unwind" => res # "cancelled"
    PROVE  NotCancelled(o)'
<1> DEFINE m == [id |-> id, what |-> what, res |-> res]
           n == Len(msgs)
<1>1. /\ n \in Nat /\ DOMAIN msgs = 1..n /\ DOMAIN msgs' = 1..(n + 1)
      /\ \A k \in DOMAIN msgs : msgs'[k] = msgs[k]
      /\ msgs'[n + 1] = m
  BY Sent
<1>2. Sets(m, o, "symbols") => m.res # "cancelled"
  BY DEF Sets
<1> HIDE DEF m, n
<1>3. \A k \in DOMAIN msgs' : k \in DOMAIN msgs \/ k = n + 1
  BY <1>1
<1> QED
  BY <1>1, <1>2, <1>3 DEF NotCancelled

\* Only a failure cancels a registered binary, and the failure is what is reported.
LEMMA CauseStep == IInv /\ [Next]_vars => CancelHasCause'
<1> SUFFICES ASSUME IInv, [Next]_vars PROVE CancelHasCause'
  OBVIOUS
<1>t. TypeOK /\ Registered /\ OpenedFirst /\ OneMessage
  BY DEF IInv
<1>c. \A id \in Live : Caused(job[id], cancel[id], failed[id]) /\ NotCancelled(id)
  BY DEF IInv, CancelHasCause, NotCancelled
<1>g. SUFFICES ASSUME NEW o \in Ids, loc'[o] # NoLocator
               PROVE  Caused(job'[o], cancel'[o], failed'[o]) /\ NotCancelled(o)'
  BY DEF CancelHasCause, NotCancelled, Live
<1>l. ASSUME loc'[o] = loc[o] PROVE o \in Live /\ Caused(job[o], cancel[o], failed[o]) /\ NotCancelled(o)
  BY <1>c, <1>g, <1>l DEF Live
<1> DEFINE Goal == Caused(job'[o], cancel'[o], failed'[o]) /\ NotCancelled(o)'
<1>1. ASSUME NEW maps \in SUBSET Locators, Refresh(maps) PROVE Goal
  <2>1. /\ IsNew(o) \/ IsEvicted(o) \/ IsKept(o)
        /\ UNCHANGED <<shared, failed>>
    BY <1>1, <1>t, RefreshFacts
  <2>2. msgs' = msgs /\ failed' = failed
    BY <2>1 DEF shared
  <2>3. CASE IsNew(o)
    <3>1. count < o /\ o \in Nat /\ count \in Nat
      BY <2>3, <1>t, Typed DEF IsNew, TypeOK
    <3>2. /\ \A j \in Jobs : job[o][j] = "none"
          /\ unwindJob[o] = "none" /\ ~cancel[o]
      BY <3>1, <1>t DEF Registered
    <3>3. reports[o] = 0
      BY <3>2, <1>t DEF OpenedFirst, ElfFirst
    <3>4. job[o] \in [Jobs -> Places] /\ cancel[o] \in BOOLEAN
      BY <1>t, Typed
    <3>5. ~Settled(o, "symbols")
      BY <3>2, <3>3, JobStages DEF Settled, ElfFailed
    <3>6. \A k \in DOMAIN msgs : ~Sets(msgs[k], o, "symbols")
      BY <3>5, <1>t DEF OneMessage, Kinds
    <3>7. job'[o] = [job[o] EXCEPT ![ElfJob] = "queued"] /\ cancel'[o] = cancel[o]
      BY <2>3 DEF IsNew
    <3>8. \A j \in Jobs : job'[o][j] \in {"none", "queued"}
      BY <3>2, <3>4, <3>7
    <3>9. Caused(job'[o], cancel'[o], failed'[o])
      BY <3>2, <3>4, <3>7, <3>8 DEF Caused, Seen, Masking
    <3> QED
      BY <3>6, <3>9, <2>2 DEF NotCancelled
  <2>4. CASE IsKept(o)
    <3>1. loc'[o] = loc[o] /\ job'[o] = job[o] /\ cancel'[o] = cancel[o]
      BY <2>4 DEF IsKept
    <3> QED
      BY <3>1, <2>2, <1>l DEF NotCancelled
  <2>5. ~IsEvicted(o)
    BY <1>g DEF IsEvicted
  <2> QED
    BY <2>1, <2>3, <2>4, <2>5
<1>2. ASSUME ReadEvent \/ LockQueue \/ UnlockQueue PROVE Goal
  <2>1. UNCHANGED <<regVars, msgs, sched, job>>
    BY <1>2 DEF ReadEvent, LockQueue, UnlockQueue
  <2> QED
    BY <2>1, <1>l DEF NotCancelled, regVars, sched
<1>3. ASSUME ApplyMessage PROVE Goal
  <2>1. msgs # <<>> /\ msgs' = Tail(msgs) /\ UNCHANGED <<loc, sched, job>>
    BY <1>3 DEF ApplyMessage
  <2>2. /\ Len(msgs) \in Nat \ {0} /\ DOMAIN msgs = 1..Len(msgs)
        /\ DOMAIN msgs' = 1..(Len(msgs) - 1)
        /\ \A k \in 1..(Len(msgs) - 1) : msgs'[k] = msgs[k + 1]
    BY <2>1, <1>t, Received
  <2>3. \A k \in DOMAIN msgs' : k + 1 \in DOMAIN msgs /\ msgs'[k] = msgs[k + 1]
    BY <2>2
  <2> QED
    BY <2>1, <2>3, <1>l DEF NotCancelled, sched
<1>4. ASSUME NEW id \in Ids, NEW j \in Jobs, JobStep(id, j) \/ StartJob(id, j) PROVE Goal
  <2>1. UNCHANGED regVars
    BY <1>4, JobFrame
  <2>2. o \in Live /\ Caused(job[o], cancel[o], failed[o]) /\ NotCancelled(o)
    BY <2>1, <1>l DEF regVars
  <2>3. Caused(job'[o], cancel'[o], failed'[o])
    <3>1. Elsewhere(id)
      BY <1>4, JobSched
    <3>2. CASE o # id
      BY <3>1, <3>2, <2>2 DEF Elsewhere
    <3>3. CASE o = id
      BY <3>3, <2>2, <1>4, JobCause
    <3> QED
      BY <3>2, <3>3
  <2>4. ASSUME NEW res \in {"ok", "error"}, OpenElf(id, res) PROVE NotCancelled(o)'
    <3>1. Send(id, "elf", res) /\ res \in Results /\ res # "cancelled"
      BY <2>4 DEF OpenElf, Results
    <3> QED
      BY <3>1, <2>2, <1>t, SentHonestly
  <2>5. ASSUME NEW res \in Results, Complete(id, j, res) PROVE NotCancelled(o)'
    <3>1. Send(id, "symbols", res) /\ job[id][j] = ReportAt(res)
      BY <2>5 DEF Complete, Goto
    <3>2. o = id => res # "cancelled"
      <4> SUFFICES ASSUME o = id, res = "cancelled" PROVE FALSE
        OBVIOUS
      <4>1. job[o][j] \in Masking
        BY <3>1 DEF ReportAt, Masking
      <4> QED
        BY <4>1, <2>2 DEF Caused
    <3> QED
      BY <3>1, <3>2, <2>2, <1>t, SentHonestly
  <2>6. ASSUME UNCHANGED shared PROVE NotCancelled(o)'
    BY <2>2, <2>6 DEF NotCancelled, shared
  <2>7. ASSUME NEW ok, StartLoader(id, ok) PROVE UNCHANGED shared
    BY <2>7 DEF StartLoader
  <2>8. ASSUME NEW res, RunShard(id, j, res) \/ Fail(id, j, res) \/ StopOthers(id, j, res)
        PROVE  UNCHANGED shared
    BY <2>8 DEF RunShard, Fail, StopOthers
  <2>9. ASSUME Schedule(id, j) \/ Prepared(id, j) \/ Cancelling(id, j) \/ StartJob(id, j)
        PROVE  UNCHANGED shared
    BY <2>9 DEF Schedule, ScheduleFrom, Prepared, Cancelling, StartJob
  <2>10. ASSUME NEW i, Fanout(id, j, i) PROVE UNCHANGED shared
    BY <2>10 DEF Fanout
  <2>11. NotCancelled(o)'
    BY <1>4, <2>4, <2>5, <2>6, <2>7, <2>8, <2>9, <2>10 DEF JobStep
  <2> QED
    BY <2>3, <2>11
<1>5. ASSUME NEW id \in Ids, NEW res \in {"ok", "error"}, LoadUnwind(id, res) PROVE Goal
  <2>1. Send(id, "unwind", res) /\ res \in Results /\ UNCHANGED <<regVars, sched, job>>
    BY <1>5 DEF LoadUnwind, Results
  <2>2. Caused(job[o], cancel[o], failed[o]) /\ NotCancelled(o)
    BY <2>1, <1>l DEF regVars
  <2>3. NotCancelled(o)'
    BY <2>1, <2>2, <1>t, SentHonestly
  <2> QED
    BY <2>1, <2>2, <2>3 DEF sched
<1>6. ASSUME UNCHANGED vars PROVE Goal
  BY <1>6, <1>l DEF vars, NotCancelled, regVars, sched, shared
<1> QED
  BY <1>1, <1>2, <1>3, <1>4, <1>5, <1>6, Steps

\* The main thread is told why loading failed.
LEMMA MaskedStep == IInv /\ [Next]_vars => ErrorNotMasked'
<1> SUFFICES ASSUME IInv, [Next]_vars PROVE ErrorNotMasked'
  OBVIOUS
<1>t. TypeOK /\ Registered
  BY DEF IInv
<1>c. \A id \in Ids : loc[id] # NoLocator => symbols[id] # "cancelled" /\ NotCancelled(id)
  BY DEF IInv, CancelHasCause, NotCancelled, ErrorNotMasked, Live
<1>g. SUFFICES ASSUME NEW o \in Ids, loc'[o] # NoLocator PROVE symbols'[o] # "cancelled"
  BY DEF ErrorNotMasked, Live
<1>1. ASSUME NEW maps \in SUBSET Locators, Refresh(maps) PROVE symbols'[o] # "cancelled"
  <2>1. IsNew(o) \/ IsEvicted(o) \/ IsKept(o)
    BY <1>1, <1>t, RefreshFacts
  <2>2. o > count => symbols[o] = "loading"
    BY <1>t DEF Registered
  <2>3. o \in Nat /\ count \in Nat
    BY <1>t, Typed DEF TypeOK
  <2> QED
    BY <2>1, <2>2, <2>3, <1>c, <1>g DEF IsNew, IsEvicted, IsKept
<1>2. ASSUME UNCHANGED regVars PROVE symbols'[o] # "cancelled"
  BY <1>2, <1>c, <1>g DEF regVars
<1>3. CASE ReadEvent \/ LockQueue \/ UnlockQueue
  BY <1>3, <1>2 DEF ReadEvent, LockQueue, UnlockQueue
<1>4. CASE ApplyMessage
  <2>1. msgs # <<>> /\ UNCHANGED loc
    BY <1>4 DEF ApplyMessage
  <2>2. /\ Head(msgs) \in Messages /\ Head(msgs) = msgs[1] /\ 1 \in DOMAIN msgs
    BY <2>1, <1>t, Received
  <2>3. symbols'[o] = symbols[o] \/ (Sets(Head(msgs), o, "symbols") /\ symbols'[o] = Head(msgs).res)
    <3>1. Head(msgs).id \in Ids
      BY <2>2 DEF Messages
    <3> QED
      BY <1>4, <1>t, <3>1 DEF ApplyMessage, Sets, TypeOK
  <2> QED
    BY <2>1, <2>2, <2>3, <1>c, <1>g DEF NotCancelled
<1>5. ASSUME NEW id \in Ids, NEW j \in Jobs, JobStep(id, j) \/ StartJob(id, j)
      PROVE  symbols'[o] # "cancelled"
  BY <1>5, <1>2, JobFrame
<1>6. ASSUME NEW id \in Ids, NEW res \in {"ok", "error"}, LoadUnwind(id, res)
      PROVE  symbols'[o] # "cancelled"
  BY <1>6, <1>2 DEF LoadUnwind
<1>7. CASE UNCHANGED vars
  BY <1>7, <1>2 DEF vars
<1> QED
  BY <1>1, <1>3, <1>4, <1>5, <1>6, <1>7, Steps

(***************************************************************************)
(* The theorems.                                                           *)
(***************************************************************************)

\* Nothing is registered at first.
LEMMA InitInv == Init => IInv
<1> SUFFICES ASSUME Init PROVE IInv
  OBVIOUS
<1>1. TypeOK
  <2>1. 0 \in 0..MaxBinaries /\ 0 \in 0..LastStage /\ 1 \in 0..NumShards
    BY SizesAssumption
  <2>2. \A j \in Jobs : "none" \in Places
    BY DEF Places
  <2>3. <<>> \in Seq(Messages)
    OBVIOUS
  <2> QED
    BY <2>1, <2>2, <2>3 DEF Init, TypeOK, Outcomes, Results
<1>2. SchedInv
  <2> SUFFICES ASSUME NEW id \in Ids
               PROVE  SchedOK(job[id], stage[id], tasksLeft[id], failed[id], loader[id], reports[id])
    BY DEF SchedInv
  <2> DEFINE J == job[id]
  <2>1. \A j \in Jobs : J[j] = "none"
    BY DEF Init
  <2>2. stage[id] = 0 /\ tasksLeft[id] = 1 /\ failed[id] = FALSE /\ loader[id] = "none" /\ reports[id] = 0
    BY DEF Init
  <2> HIDE DEF J
  <2>3. StagesInOrder(J, 0) /\ PreparerAlone(J, 0, 1, FALSE) /\ FanoutOpen(J, 0)
    BY <2>1, JobStages DEF StagesInOrder, PreparerAlone, FanoutOpen
  <2>4. Counted(J, 0, 1, FALSE)
    <3>1. Pending(J, 0) = {ElfJob}
      BY <2>1, JobStages DEF Pending, Jobs
    <3>2. Cardinality(Pending(J, 0)) = 1
      BY <3>1, FS_Singleton
    <3>3. ~Troubled(J, FALSE)
      BY <2>1 DEF Troubled, Troubles
    <3> QED
      BY <3>2, <3>3 DEF Counted
  <2>5. LoaderKept(J, 0, FALSE, "none") /\ OneClaim(J, FALSE, "none", 0)
    BY <2>1, JobStages DEF LoaderKept, OneClaim, Claims, Failures
  <2> QED
    BY <2>2, <2>3, <2>4, <2>5 DEF SchedOK, J
<1>3. NoFaults /\ MessagesWake
  BY DEF Init, NoFaults, MessagesWake
<1>4. OpenedFirst
  BY JobStages DEF Init, OpenedFirst, ElfFirst
<1>5. OneMessage
  <2>1. DOMAIN msgs = {}
    BY DEF Init
  <2>2. \A id \in Ids, kind \in Kinds : Shown(id, kind) = "loading"
    BY DEF Init, Shown
  <2> QED
    BY <2>1, <2>2 DEF OneMessage
<1>6. Registered
  BY <1>1, SizesAssumption DEF Init, Registered, Ids
<1>7. CancelHasCause /\ ErrorNotMasked
  BY DEF Init, CancelHasCause, ErrorNotMasked, Live
<1> QED
  BY <1>1, <1>2, <1>3, <1>4, <1>5, <1>6, <1>7 DEF IInv

\* The inductive invariant.
LEMMA Invariance == Spec => []IInv
<1>1. IInv /\ [Next]_vars => IInv'
  BY TypeStep, SchedStep, FaultsStep, WakeStep, OpenedStep, MessageStep, RegisteredStep, CauseStep,
     MaskedStep DEF IInv
<1> QED
  BY <1>1, InitInv, PTL DEF Spec

\* The loader is exclusive: no other closure of the binary is, or can still come,
\* where it uses the loader while one prepares a stage; and nobody unwraps a loader
\* that was taken, asks for a stage that does not exist, or lets tasks_left wrap.
THEOREM LoaderSafety == Spec => []LoaderSafe
<1>1. IInv => LoaderSafe
  <2> SUFFICES ASSUME IInv PROVE LoaderSafe
    OBVIOUS
  <2>1. ASSUME NEW id \in Ids, NEW j \in Jobs, job[id][j] = "preparing", NEW i \in Jobs \ {j}
        PROVE  job[id][i] \notin {"queued", "run", "start", "schedule", "preparing", "fanout"}
    <3>1. PreparerAlone(job[id], stage[id], tasksLeft[id], failed[id])
      BY DEF IInv, SchedInv, SchedOK
    <3>2. job[id][i] \in {"none", "done"}
      BY <3>1, <2>1 DEF PreparerAlone
    <3> QED
      BY <3>2
  <2> QED
    BY <2>1 DEF LoaderSafe, LoaderExclusive, IInv
<1> QED
  BY <1>1, Invariance, PTL

\* complete() is called at most once per binary, however its shards fail and whenever
\* it is evicted, and no message waits for a main thread that sleeps.
THEOREM ReportsOnce == Spec => []ReportedOnce
<1>1. IInv => ReportedOnce
  <2> SUFFICES ASSUME IInv PROVE ReportedOnce
    OBVIOUS
  <2>1. ASSUME NEW id \in Ids PROVE reports[id] <= 1
    <3>1. reports[id] \in {0, 1}
      BY DEF IInv, SchedInv, SchedOK, OneClaim
    <3> QED
      BY <3>1
  <2> QED
    BY <2>1 DEF ReportedOnce, CompletedOnce, IInv
<1> QED
  BY <1>1, Invariance, PTL

\* The failure of a shard is not masked by the cancellations it causes.
THEOREM ErrorsShown == Spec => []ErrorNotMasked
BY Invariance, PTL DEF IInv

\* The types of the registry, the schedulers and the queue.
THEOREM TypeCorrect == Spec => []TypeOK
BY Invariance, PTL DEF IInv

\* Symbols and unwind tables that are shown are never replaced while the binary is registered.
THEOREM LoadedStays == Spec => LoadedIsFinal
<1> DEFINE Stays(id) == /\ symbols[id] # "loading" => symbols'[id] = symbols[id]
                        /\ unwind[id] # "loading" => unwind'[id] = unwind[id]
<1>1. ASSUME IInv, [Next]_vars, NEW id \in Live \cap Live' PROVE Stays(id)
  <2>t. TypeOK /\ Registered /\ OneMessage /\ id \in Ids /\ loc[id] # NoLocator /\ loc'[id] # NoLocator
    BY <1>1 DEF IInv, Live
  <2>1. ASSUME NEW maps \in SUBSET Locators, Refresh(maps) PROVE Stays(id)
    <3>1. IsNew(id) \/ IsEvicted(id) \/ IsKept(id)
      BY <2>1, <2>t, RefreshFacts
    <3> QED
      BY <3>1, <2>t DEF IsNew, IsEvicted, IsKept
  <2>2. ASSUME UNCHANGED regVars PROVE Stays(id)
    BY <2>2 DEF regVars
  <2>3. ASSUME ReadEvent \/ LockQueue \/ UnlockQueue PROVE UNCHANGED regVars
    BY <2>3 DEF ReadEvent, LockQueue, UnlockQueue
  <2>4. ASSUME ApplyMessage PROVE Stays(id)
    <3>1. msgs # <<>>
      BY <2>4 DEF ApplyMessage
    <3>2. Head(msgs) \in Messages /\ Head(msgs) = msgs[1] /\ 1 \in DOMAIN msgs
      BY <3>1, <2>t, Received
    <3>3. Head(msgs).id \in Ids
      BY <3>2 DEF Messages
    <3>4. /\ symbols'[id] = symbols[id] \/ Sets(Head(msgs), id, "symbols")
          /\ unwind'[id] = unwind[id] \/ Sets(Head(msgs), id, "unwind")
      BY <2>4, <2>t, <3>3 DEF ApplyMessage, Sets, TypeOK
    <3>5. \A kind \in Kinds : Sets(Head(msgs), id, kind) => Shown(id, kind) = "loading"
      BY <3>2, <2>t DEF OneMessage
    <3>6. /\ Sets(Head(msgs), id, "symbols") => symbols[id] = "loading"
          /\ Sets(Head(msgs), id, "unwind") => unwind[id] = "loading"
      BY <3>5 DEF Kinds, Shown
    <3> QED
      BY <3>4, <3>6
  <2>5. ASSUME NEW i \in Ids, NEW j \in Jobs, JobStep(i, j) \/ StartJob(i, j) PROVE UNCHANGED regVars
    BY <1>1, <2>5, JobFrame
  <2>6. ASSUME NEW i \in Ids, NEW res \in {"ok", "error"}, LoadUnwind(i, res) PROVE UNCHANGED regVars
    BY <2>6 DEF LoadUnwind
  <2>7. ASSUME UNCHANGED vars PROVE UNCHANGED regVars
    BY <2>7 DEF vars
  <2> QED
    BY <1>1, <2>1, <2>2, <2>3, <2>4, <2>5, <2>6, <2>7, Steps
<1>2. IInv /\ [Next]_vars => [\A id \in Live \cap Live' : Stays(id)]_vars
  BY <1>1
<1> QED
  BY <1>2, Invariance, PTL DEF Spec, LoadedIsFinal

\* An evicted binary begins no further stage.
THEOREM EvictionStops == Spec => EvictedStops
<1> DEFINE Stops(id, j) == id <= count /\ id \notin Live /\ job'[id][j] = "preparing"
                           => job[id][j] = "preparing"
<1>1. ASSUME IInv, [Next]_vars, NEW o \in Ids, NEW k \in Jobs PROVE Stops(o, k)
  <2> SUFFICES ASSUME o <= count, loc[o] = NoLocator, job'[o][k] = "preparing", job[o][k] # "preparing"
               PROVE  FALSE
    BY DEF Live
  <2>t. TypeOK /\ Registered
    BY <1>1 DEF IInv
  <2>c. cancel[o]
    BY <2>t DEF Registered
  <2>n. job[o] \in [Jobs -> Places] /\ job \in [Ids -> [Jobs -> Places]]
    BY <2>t, Typed DEF TypeOK
  <2>1. ASSUME NEW maps \in SUBSET Locators, Refresh(maps) PROVE FALSE
    <3>1. IsNew(o) \/ IsEvicted(o) \/ IsKept(o)
      BY <2>1, <2>t, RefreshFacts
    <3>2. job'[o][k] = job[o][k] \/ job'[o][k] = "queued"
      BY <3>1, <2>n, JobStages DEF IsNew, IsEvicted, IsKept
    <3> QED
      BY <3>2
  <2>2. ASSUME UNCHANGED job PROVE FALSE
    BY <2>2
  <2>3. ASSUME ReadEvent \/ LockQueue \/ UnlockQueue \/ ApplyMessage PROVE UNCHANGED job
    BY <2>3 DEF ReadEvent, LockQueue, UnlockQueue, ApplyMessage
  <2>5. ASSUME NEW id \in Ids, NEW j \in Jobs, JobStep(id, j) \/ StartJob(id, j) PROVE FALSE
    <3>g. \A p, q : Goto(id, j, p, q) /\ q # "preparing" => FALSE
      <4> SUFFICES ASSUME NEW p, NEW q, Goto(id, j, p, q), q # "preparing" PROVE FALSE
        OBVIOUS
      <4>1. /\ job'[id][j] = q
            /\ \A i \in Jobs \ {j} : job'[id][i] = job[id][i]
            /\ \A i \in Ids \ {id} : job'[i] = job[i]
        BY <2>n DEF Goto
      <4> QED
        BY <4>1
    <3>1. ASSUME StartJob(id, j) PROVE FALSE
      BY <3>1, <3>g DEF StartJob
    <3>2. ASSUME j = ElfJob, NEW res, OpenElf(id, res) PROVE FALSE
      <4>1. (IF res = "ok" THEN "start" ELSE "done") # "preparing"
        OBVIOUS
      <4> QED
        BY <4>1, <3>2, <3>g DEF OpenElf
    <3>3. ASSUME j = ElfJob, NEW ok \in BOOLEAN, StartLoader(id, ok) PROVE FALSE
      <4>1. (IF ok THEN "schedule" ELSE "fail_error") # "preparing"
        OBVIOUS
      <4> QED
        BY <4>1, <3>3, <3>g DEF StartLoader
    <3>4. ASSUME NEW res, RunShard(id, j, res) PROVE FALSE
      <4>1. (IF res = "ok" THEN "schedule" ELSE FailAt(res)) # "preparing"
        BY DEF FailAt
      <4> QED
        BY <4>1, <3>4, <3>g DEF RunShard
    <3>5. ASSUME Schedule(id, j) PROVE FALSE
      <4>1. PICK q : Goto(id, j, "schedule", q) /\ (q = "preparing" => ~cancel[id])
        BY <3>5, <2>t, ScheduleFacts
      <4>2. CASE id = o
        BY <4>1, <4>2, <2>c, <3>g
      <4>3. CASE id # o
        BY <4>1, <4>3, <2>t, Moved
      <4> QED
        BY <4>2, <4>3
    <3>6. ASSUME Prepared(id, j) PROVE FALSE
      <4>1. (IF stage[id] = LastStage THEN "report_ok"
             ELSE IF cancel[id] THEN "cancelling" ELSE "fanout") # "preparing"
        OBVIOUS
      <4> QED
        BY <4>1, <3>6, <3>g DEF Prepared
    <3>7. ASSUME NEW i \in Shards, Fanout(id, j, i) PROVE FALSE
      <4> DEFINE s == <<stage[id], i>>
      <4>1. /\ s \in ShardJobs
            /\ job' = [job EXCEPT ![id][s] = "queued", ![id][j] = IF i = NumShards THEN "done" ELSE @]
        BY <3>7 DEF Fanout
      <4>2. s \in Jobs
        BY <4>1, JobStages
      <4> HIDE DEF s
      <4>3. job'[o][k] = job[o][k] \/ job'[o][k] \in {"queued", "done"}
        BY <4>1, <4>2, <2>n
      <4> QED
        BY <4>3
    <3>8. ASSUME NEW res, Fail(id, j, res) \/ StopOthers(id, j, res) \/ Complete(id, j, res) PROVE FALSE
      <4>1. (IF failed[id] THEN "done" ELSE StopAt(res)) # "preparing" /\ ReportAt(res) # "preparing"
        BY DEF StopAt, ReportAt
      <4> QED
        BY <4>1, <3>8, <3>g DEF Fail, StopOthers, Complete
    <3>9. ASSUME Cancelling(id, j) PROVE FALSE
      <4>1. (IF failed[id] THEN "done" ELSE "report_cancelled") # "preparing"
        OBVIOUS
      <4> QED
        BY <4>1, <3>9, <3>g DEF Cancelling
    <3> QED
      BY <2>5, <3>1, <3>2, <3>3, <3>4, <3>5, <3>6, <3>7, <3>8, <3>9 DEF JobStep
  <2>6. ASSUME NEW i \in Ids, NEW res \in {"ok", "error"}, LoadUnwind(i, res) PROVE UNCHANGED job
    BY <2>6 DEF LoadUnwind
  <2>7. ASSUME UNCHANGED vars PROVE UNCHANGED job
    BY <2>7 DEF vars
  <2> QED
    BY <1>1, <2>1, <2>2, <2>3, <2>5, <2>6, <2>7, Steps
<1>2. IInv /\ [Next]_vars =>
        [\A id \in Ids, j \in Jobs :
            /\ id <= count /\ id \notin Live
            /\ job'[id][j] = "preparing"
            => job[id][j] = "preparing"]_vars
  BY <1>1
<1> QED
  BY <1>2, Invariance, PTL DEF Spec, EvictedStops
=============================================================================
