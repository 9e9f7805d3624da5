------------------------ MODULE Breakpoints_proofs -------------------------
(***************************************************************************)
(* Breakpoints keep the code of the debuggee and its debug registers in    *)
(* order, for any number of threads, addresses, registers and breakpoints. *)
(***************************************************************************)
EXTENDS Breakpoints, FiniteSetTheorems, TLAPS

(***************************************************************************)
(* The inductive invariant.  A trap removes the location it happens at if  *)
(* nothing refers to it: RefsOn says that an enabled breakpoint refers to  *)
(* its own.  resume() drops the breakpoints of a step only when it finds   *)
(* the target stepping: StepTarget says that it misses none.               *)
(***************************************************************************)

\* An enabled breakpoint is among the references of its location.
RefsOn == \A i \in on \cap CodeBps : Where[i] \in locs /\ i \in refs[Where[i]]

\* There is a step exactly when the target state says so.
StepTarget == target = "Stepping" <=> step # NoStep

\* What is enabled has a location, and what has a slot is in the registers, unless
\* handle_breakpoints() is on its way.
Placed ==
    ~stopping => /\ \A i \in on \cap CodeBps : Where[i] \in act \cup hard
                 /\ \A s \in Slots : slots[s].what # Nothing => slots[s].pushed

IInv ==
    /\ TypeOK /\ CodeIntact /\ SlotsOwned /\ SlotsArmed
    /\ StepBreakpointsOwned /\ Placed /\ StepTarget /\ RefsOn

(***************************************************************************)
(* Slots that belong to one address or data breakpoint.                    *)
(***************************************************************************)

\* Exactly one of the slots sl is for x.
OneSlot(sl, x) == \E s \in Slots : \A u \in Slots : sl[u].what = x <=> u = s

\* The number of slots that SlotsOwned counts is one when there is exactly one
\* slot: hardware_breakpoints is a finite array.
LEMMA OneSlotCardinality ==
    ASSUME NEW sl, NEW x
    PROVE  Cardinality({s \in Slots : sl[s].what = x}) = 1 <=> OneSlot(sl, x)
<1> DEFINE S == {s \in Slots : sl[s].what = x}
<1>1. IsFiniteSet(Slots)
  BY FS_Interval, BpsAssumption DEF Slots
<1>2. IsFiniteSet(S)
  <2>1. S \in SUBSET Slots
    OBVIOUS
  <2> QED BY <1>1, <2>1, FS_Subset
<1>3. Cardinality(S) = 1 <=> \E y : S = {y}
  <2> HIDE DEF S
  <2> QED BY <1>2, FS_Singleton
<1>4. (\E y : S = {y}) <=> OneSlot(sl, x)
  <2>1. ASSUME NEW y, S = {y} PROVE OneSlot(sl, x)
    <3>1. y \in Slots
      BY <2>1
    <3>2. \A u \in Slots : sl[u].what = x <=> u = y
      BY <2>1
    <3> QED BY <3>1, <3>2 DEF OneSlot
  <2>2. ASSUME OneSlot(sl, x) PROVE \E y : S = {y}
    <3>1. PICK s \in Slots : \A u \in Slots : sl[u].what = x <=> u = s
      BY <2>2 DEF OneSlot
    <3>2. S = {s}
      BY <3>1
    <3> QED BY <3>2
  <2> QED BY <2>1, <2>2
<1> QED BY <1>3, <1>4

\* SlotsOwned without counting.
Owned(sl, A, D) ==
    /\ \A x \in A \cup D : OneSlot(sl, x)
    /\ \A s \in Slots : sl[s].what \in A \cup D \cup {Nothing}

LEMMA OwnedIsSlotsOwned == SlotsOwned <=> Owned(slots, act \cap hard, on \cap DataBps)
  BY OneSlotCardinality DEF SlotsOwned, Owned

LEMMA OwnedIsSlotsOwnedNext ==
    SlotsOwned' <=> Owned(slots', act' \cap hard', on' \cap DataBps)
<1>1. \A x : Cardinality({s \in Slots : slots'[s].what = x}) = 1 <=> OneSlot(slots', x)
  BY OneSlotCardinality
<1> QED BY <1>1 DEF SlotsOwned, Owned

\* Two elements of a finite set of integers have different ranks: no two
\* locations that need a debug register are given the same one.
LEMMA RankInjective ==
    ASSUME NEW S, S \subseteq Int, IsFiniteSet(S), NEW x \in S, NEW y \in S, Rank(S, x) = Rank(S, y)
    PROVE  x = y
<1> DEFINE Below(z) == {w \in S : w < z}
<1>1. ASSUME NEW v \in S, NEW w \in S, v < w PROVE Cardinality(Below(v)) < Cardinality(Below(w))
  <2>1. Below(v) \in SUBSET S /\ Below(w) \in SUBSET S
    OBVIOUS
  <2>2. IsFiniteSet(Below(v)) /\ IsFiniteSet(Below(w))
    BY <2>1, FS_Subset
  <2>3. Below(v) \cup {v} \in SUBSET Below(w)
    <3>1. v \in Below(w)
      BY <1>1
    <3>2. \A z \in Below(v) : z \in Below(w)
      <4> TAKE z \in Below(v)
      <4>1. z \in Int /\ v \in Int /\ w \in Int /\ z < v
        OBVIOUS
      <4>2. z < w
        BY <4>1, <1>1
      <4> QED BY <4>2
    <3> QED BY <3>1, <3>2
  <2>4. v \notin Below(v)
    OBVIOUS
  <2> HIDE DEF Below
  <2>5. Cardinality(Below(v) \cup {v}) = Cardinality(Below(v)) + 1
    BY <2>2, <2>4, FS_AddElement
  <2>6. Cardinality(Below(v) \cup {v}) <= Cardinality(Below(w))
    BY <2>2, <2>3, FS_Subset
  <2>7. Cardinality(Below(v)) \in Nat /\ Cardinality(Below(w)) \in Nat
    BY <2>2, FS_CardinalityType
  <2> QED BY <2>5, <2>6, <2>7
<1>2. \A z \in S : Cardinality(Below(z)) \in Nat
  <2> TAKE z \in S
  <2>1. Below(z) \in SUBSET S
    OBVIOUS
  <2>2. IsFiniteSet(Below(z))
    BY <2>1, FS_Subset
  <2> HIDE DEF Below
  <2> QED BY <2>2, FS_CardinalityType
<1>3. Cardinality(Below(x)) = Cardinality(Below(y))
  BY DEF Rank
<1> HIDE DEF Below
<1>4. ~(x < y) /\ ~(y < x)
  BY <1>1, <1>2, <1>3
<1> QED BY <1>4

\* Addresses, data breakpoints and Nothing are different things.
LEMMA Different ==
    /\ Addrs \cap DataBps = {} /\ Nothing \notin Addrs /\ Nothing \notin DataBps
    /\ CodeBps \cap (Addrs \cup DataBps \cup {Nothing}) = {} /\ NoTid \notin Tids
    /\ CodeBps \cap StepRefs = {}
<1>1. Addrs \subseteq Int
  BY BpsAssumption DEF Addrs
<1>2. (CodeBps \cup DataBps \cup {Nothing}) \cap Addrs = {}
  BY <1>1, BpsAssumption
<1> QED BY <1>2, BpsAssumption, TidsAssumption DEF StepRefs

\* What is pushed to a thread fits its debug registers.
LEMMA WantedType ==
    ASSUME TypeOK, NEW t \in Tids
    PROVE  Wanted(slots, t) \in [Slots -> Addrs \cup DataBps \cup {Nothing}]
  BY DEF TypeOK, Wanted

(***************************************************************************)
(* Initial states, and the steps of the threads.                           *)
(***************************************************************************)

\* A process without breakpoints is in order.
LEMMA InitIInv == Init => IInv
<1> SUFFICES ASSUME Init PROVE IInv
  OBVIOUS
<1>1. TypeOK
  <2>1. NoStep \in Steps \cup {NoStep}
    OBVIOUS
  <2>2. [s \in Slots |-> NoSlot] \in [Slots -> [what : Addrs \cup DataBps \cup {Nothing},
                                                tid : Tids \cup {NoTid}, pushed : BOOLEAN]]
    BY DEF NoSlot
  <2> QED BY <2>1, <2>2 DEF Init, TypeOK
<1>2. \A s \in Slots : slots[s].what = Nothing
  BY DEF Init, NoSlot
<1>3. SlotsOwned
  BY <1>2, OwnedIsSlotsOwned DEF Owned, Init
<1>4. SlotsArmed
  BY <1>2 DEF SlotsArmed
<1>5. Placed
  BY <1>2 DEF Placed, Init
<1>6. CodeIntact /\ StepBreakpointsOwned /\ StepTarget /\ RefsOn
  BY DEF Init, CodeIntact, StepBreakpointsOwned, StepTarget, RefsOn
<1> QED BY <1>1, <1>3, <1>4, <1>5, <1>6 DEF IInv

\* What the table of breakpoints says stays true while nobody writes to it.
LEMMA TableUnchanged ==
    ASSUME IInv, UNCHANGED <<table, control>>, TypeOK', SlotsArmed'
    PROVE  IInv'
<1>1. UNCHANGED <<on, locs, refs, hard, act, int3, slots, target, stopping, step>>
  BY DEF table, control
<1>2. SlotsOwned'
  BY <1>1, OwnedIsSlotsOwned, OwnedIsSlotsOwnedNext DEF IInv
<1>3. CodeIntact' /\ StepBreakpointsOwned' /\ StepTarget' /\ RefsOn'
  BY <1>1 DEF IInv, CodeIntact, StepBreakpointsOwned, StepTarget, RefsOn
<1>4. Placed'
  BY <1>1 DEF IInv, Placed
<1> QED BY <1>2, <1>3, <1>4 DEF IInv

\* Debug registers stay in step with the slots while neither changes and no
\* thread leaves its initial stop.
LEMMA ArmedUnchanged ==
    ASSUME SlotsArmed, UNCHANGED <<slots, dr>>, fresh \subseteq fresh',
           \A t \in Tids : run'[t] # "none" => run[t] # "none" \/ t \in fresh'
    PROVE  SlotsArmed'
  BY DEF SlotsArmed, Wanted

\* Threads that execute instructions, take their traps and create threads.
LEMMA KernelIInv ==
    ASSUME IInv, NEW t \in Tids, Kernel(t)
    PROVE  IInv'
<1> USE DEF IInv
<1>1. CASE HitHardware(t)
  <2>1. UNCHANGED <<table, control>>
    BY <1>1 DEF HitHardware
  <2>2. TypeOK'
    BY <1>1 DEF HitHardware, TypeOK, table, control
  <2>3. SlotsArmed'
    BY <1>1, ArmedUnchanged DEF HitHardware, table
  <2> QED BY <2>1, <2>2, <2>3, TableUnchanged
<1>2. CASE HitSoftware(t)
  <2>1. UNCHANGED <<table, control>>
    BY <1>2 DEF HitSoftware
  <2>2. TypeOK'
    BY <1>2 DEF HitSoftware, TypeOK, table, control
  <2>3. SlotsArmed'
    BY <1>2, ArmedUnchanged DEF HitSoftware, table
  <2> QED BY <2>1, <2>2, <2>3, TableUnchanged
<1>3. CASE Deliver(t)
  <2>1. UNCHANGED <<table, control>>
    BY <1>3 DEF Deliver
  <2>2. TypeOK'
    BY <1>3 DEF Deliver, TypeOK, table, control, cpu
  <2>3. SlotsArmed'
    <3>1. \A u \in Tids : run'[u] # "none" => run[u] # "none" \/ u \in fresh'
      BY <1>3 DEF Deliver, TypeOK
    <3> QED BY <1>3, <3>1, ArmedUnchanged DEF Deliver, table
  <2> QED BY <2>1, <2>2, <2>3, TableUnchanged
<1>4. CASE StopTrap(t)
  <2>1. UNCHANGED <<table, control>>
    BY <1>4 DEF StopTrap
  <2>2. TypeOK'
    BY <1>4 DEF StopTrap, TypeOK, table, control, cpu
  <2>3. SlotsArmed'
    <3>1. \A u \in Tids : run'[u] # "none" => run[u] # "none" \/ u \in fresh'
      BY <1>4 DEF StopTrap, TypeOK
    <3> QED BY <1>4, <3>1, ArmedUnchanged DEF StopTrap, table
  <2> QED BY <2>1, <2>2, <2>3, TableUnchanged
<1>5. ASSUME NEW to \in Addrs \cup {Elsewhere}, NEW touched \in SUBSET Slots, Execute(t, to, touched)
      PROVE  IInv'
  <2>1. UNCHANGED <<table, control>>
    BY <1>5 DEF Execute
  <2>2. TypeOK'
    BY <1>5 DEF Execute, TypeOK, table, control
  <2>3. SlotsArmed'
    BY <1>5, ArmedUnchanged DEF Execute, table
  <2> QED BY <2>1, <2>2, <2>3, TableUnchanged
<1>6. ASSUME NEW u \in Tids, Clone(t, u) PROVE IInv'
  <2>1. UNCHANGED <<table, control>>
    BY <1>6 DEF Clone
  <2>2. TypeOK'
    BY <1>6 DEF Clone, TypeOK, table, control, cpu
  <2>3. SlotsArmed'
    <3>1. \A v \in Tids : run'[v] # "none" => run[v] # "none" \/ v \in fresh'
      BY <1>6 DEF Clone, TypeOK
    <3> QED BY <1>6, <3>1, ArmedUnchanged DEF Clone, table
  <2> QED BY <2>1, <2>2, <2>3, TableUnchanged
<1> QED BY <1>1, <1>2, <1>3, <1>4, <1>5, <1>6 DEF Kernel

\* A stop is reaped: a new thread is given its debug registers.
LEMMA HandleStopIInv ==
    ASSUME IInv, NEW t \in Tids, HandleStop(t)
    PROVE  IInv'
<1> USE DEF IInv
<1>1. UNCHANGED <<table, control>>
  BY DEF HandleStop
<1>2. run' \in [Tids -> {"none", "run", "stop", "trap", "held"}] /\ single' \in [Tids -> BOOLEAN]
  <2>1. run \in [Tids -> {"none", "run", "stop", "trap", "held"}] /\ single \in [Tids -> BOOLEAN]
    BY DEF TypeOK
  <2>2. CASE WantsRun(t)
    <3>1. /\ run' = [u \in Tids |-> IF u \in {t} THEN "run" ELSE run[u]]
          /\ single' = [u \in Tids |->
                           single[u] \/ (u \in {t} /\ step'.tid = u /\ step'.kind = "instr")]
      BY <2>2 DEF HandleStop, ResumeThreads
    <3>2. run' \in [Tids -> {"none", "run", "stop", "trap", "held"}]
      BY <2>1, <3>1
    <3>3. single' \in [Tids -> BOOLEAN]
      BY <2>1, <3>1
    <3> QED BY <3>2, <3>3
  <2>3. CASE ~WantsRun(t)
    <3>1. run' = [run EXCEPT ![t] = "held"] /\ single' = single
      BY <2>3 DEF HandleStop
    <3> QED BY <2>1, <3>1
  <2> QED BY <2>2, <2>3
<1>3. \A u \in Tids : run'[u] # "none" => run[u] # "none"
  BY DEF HandleStop, ResumeThreads, TypeOK
<1>4. TypeOK'
  <2>1. dr' \in [Tids -> [Slots -> Addrs \cup DataBps \cup {Nothing}]]
    BY WantedType DEF HandleStop, TypeOK
  <2> QED BY <1>2, <2>1 DEF HandleStop, TypeOK, table, control, cpu
<1>5. SlotsArmed'
  <2>1. slots' = slots /\ fresh' = fresh \ {t}
    BY DEF HandleStop, table
  <2>2. \A u \in Tids : u \notin fresh' => u \notin fresh \/ u = t
    BY <2>1
  <2>3. \A u \in Tids : dr'[u] = IF u = t /\ t \in fresh THEN Wanted(slots, u) ELSE dr[u]
    BY DEF HandleStop, TypeOK
  <2>4. SUFFICES ASSUME NEW s \in Slots, NEW u \in Tids, slots[s].what # Nothing, slots[s].pushed,
                        run'[u] # "none", u \notin fresh'
                 PROVE  dr'[u][s] = Wanted(slots, u)[s]
    BY <2>1 DEF SlotsArmed, Wanted
  <2>5. CASE u = t /\ t \in fresh
    BY <2>3, <2>5
  <2>6. CASE ~(u = t /\ t \in fresh)
    <3>1. u \notin fresh
      BY <2>4, <2>2, <2>6
    <3>2. dr'[u] = dr[u]
      BY <2>3, <2>6
    <3> QED BY <1>3, <2>4, <3>1, <3>2 DEF SlotsArmed
  <2> QED BY <2>5, <2>6
<1> QED BY <1>1, <1>4, <1>5, TableUnchanged

(***************************************************************************)
(* The user.                                                               *)
(***************************************************************************)

\* The owners of the slots stay the same if neither slots nor owners change.
LEMMA OwnedUnchanged ==
    ASSUME SlotsOwned, UNCHANGED <<slots, act, hard>>, on' \cap DataBps = on \cap DataBps
    PROVE  SlotsOwned'
  BY OwnedIsSlotsOwned, OwnedIsSlotsOwnedNext

\* Whoever is interrupted or resumed is a thread.
LEMMA InterruptType ==
    ASSUME TypeOK, NEW T \in SUBSET Tids
    PROVE  Interrupt(T) \in SUBSET Tids
  BY DEF TypeOK, Interrupt

LEMMA ResumeType ==
    ASSUME TypeOK, NEW T \in SUBSET Tids, ResumeThreads(T)
    PROVE  /\ run' \in [Tids -> {"none", "run", "stop", "trap", "held"}]
           /\ single' \in [Tids -> BOOLEAN]
           /\ \A t \in Tids : run'[t] # "none" => run[t] # "none" \/ t \in T
  BY DEF TypeOK, ResumeThreads

LEMMA ArrangeType ==
    ASSUME TypeOK, Arrange
    PROVE  stopping' = TRUE /\ intr' \in SUBSET Tids
<1>1. RunningThreads \in SUBSET Tids
  BY DEF RunningThreads
<1>2. Interrupt(RunningThreads) \in SUBSET Tids
  BY <1>1, InterruptType
<1>3. intr \in SUBSET Tids
  BY DEF TypeOK
<1> QED BY <1>2, <1>3 DEF Arrange

\* A breakpoint is set: handle_breakpoints() is on its way.
LEMMA EnableCodeIInv ==
    ASSUME IInv, NEW i \in CodeBps, EnableCode(i)
    PROVE  IInv'
<1> USE DEF IInv
<1>1. /\ on' = on \cup {i} /\ locs' = locs \cup {Where[i]}
      /\ refs' = [refs EXCEPT ![Where[i]] = @ \cup {i}]
      /\ UNCHANGED <<hard, act, int3, slots, target, step, run, fresh, cpu, dr, dr6, single, ignore>>
  BY DEF EnableCode
<1>2. stopping' = TRUE /\ intr' \in SUBSET Tids
  BY ArrangeType DEF EnableCode
<1>3. Where[i] \in Addrs
  BY BpsAssumption DEF Addrs
<1>4. \A a \in Addrs : refs'[a] = IF a = Where[i] THEN refs[a] \cup {i} ELSE refs[a]
  BY <1>1 DEF TypeOK
<1>5. refs' \in [Addrs -> SUBSET (CodeBps \cup StepRefs)]
  BY <1>1, <1>3 DEF TypeOK
<1>6. TypeOK'
  BY <1>1, <1>2, <1>3, <1>5 DEF TypeOK, cpu
<1>7. CodeIntact' /\ StepTarget'
  BY <1>1 DEF CodeIntact, StepTarget
<1>8. SlotsOwned'
  BY <1>1, Different, OwnedUnchanged
<1>9. SlotsArmed'
  BY <1>1, ArmedUnchanged
<1>10. StepBreakpointsOwned'
  BY <1>1, <1>4, Different DEF StepBreakpointsOwned
<1>11. Placed'
  BY <1>2 DEF Placed
<1>12. RefsOn'
  <2> SUFFICES ASSUME NEW j \in on' \cap CodeBps PROVE Where[j] \in locs' /\ j \in refs'[Where[j]]
    BY DEF RefsOn
  <2>1. Where[j] \in Addrs
    BY BpsAssumption DEF Addrs
  <2>2. j = i \/ j \in on
    BY <1>1
  <2>3. CASE j = i
    BY <1>1, <1>4, <2>1, <2>3
  <2>4. CASE j \in on
    <3>1. Where[j] \in locs /\ j \in refs[Where[j]]
      BY <2>4 DEF RefsOn
    <3> QED BY <1>1, <1>4, <2>1, <3>1
  <2> QED BY <2>2, <2>3, <2>4
<1> QED BY <1>6, <1>7, <1>8, <1>9, <1>10, <1>11, <1>12

\* A data breakpoint takes a slot that was nobody's.
LEMMA EnableDataIInv ==
    ASSUME IInv, NEW i \in DataBps, EnableData(i)
    PROVE  IInv'
<1> USE DEF IInv
<1>1. /\ i \notin on /\ on' = on \cup {i}
      /\ UNCHANGED <<locs, refs, hard, act, int3, target, step, run, fresh, cpu, dr, dr6, single, ignore>>
  BY DEF EnableData
<1>2. stopping' = TRUE /\ intr' \in SUBSET Tids
  BY ArrangeType DEF EnableData
<1>3. PICK s0 \in Slots : slots[s0].what = Nothing /\ slots' = [slots EXCEPT ![s0] = DataSlot(i)]
  BY DEF EnableData
<1>4. \A s \in Slots : slots'[s] = IF s = s0 THEN DataSlot(i) ELSE slots[s]
  BY <1>3 DEF TypeOK
<1>5. DataSlot(i).what = i /\ DataSlot(i).pushed = FALSE
  BY DEF DataSlot
<1>6. TypeOK'
  <2>1. DataSlot(i) \in [what : Addrs \cup DataBps \cup {Nothing}, tid : Tids \cup {NoTid}, pushed : BOOLEAN]
    BY DEF DataSlot
  <2>2. slots' \in [Slots -> [what : Addrs \cup DataBps \cup {Nothing},
                              tid : Tids \cup {NoTid}, pushed : BOOLEAN]]
    BY <1>3, <2>1 DEF TypeOK
  <2> QED BY <1>1, <1>2, <2>2 DEF TypeOK, cpu
<1>7. CodeIntact' /\ StepTarget' /\ StepBreakpointsOwned'
  BY <1>1 DEF CodeIntact, StepTarget, StepBreakpointsOwned
<1>8. SlotsOwned'
  <2> DEFINE A == act \cap hard
             D == on \cap DataBps
  <2>1. Owned(slots, A, D)
    BY OwnedIsSlotsOwned
  <2>2. act' \cap hard' = A /\ on' \cap DataBps = D \cup {i}
    BY <1>1
  <2>3. A \subseteq Addrs
    BY DEF TypeOK
  <2>4. i \notin A \cup D \cup {Nothing} /\ Nothing \notin A \cup D
    BY <1>1, <2>3, Different
  <2> HIDE DEF A, D
  <2>5. \A s \in Slots : slots'[s].what = IF s = s0 THEN i ELSE slots[s].what
    BY <1>4, <1>5
  <2>6. \A s \in Slots : slots[s].what # i
    BY <2>1, <2>4 DEF Owned
  <2>7. OneSlot(slots', i)
    BY <2>5, <2>6 DEF OneSlot
  <2>8. ASSUME NEW x \in A \cup D PROVE OneSlot(slots', x)
    <3>1. PICK s \in Slots : \A u \in Slots : slots[u].what = x <=> u = s
      BY <2>1 DEF Owned, OneSlot
    <3>2. x # i /\ x # Nothing
      BY <2>4
    <3>3. \A u \in Slots : slots'[u].what = x <=> u = s
      BY <1>3, <2>5, <3>1, <3>2
    <3> QED BY <3>3 DEF OneSlot
  <2>9. Owned(slots', A, D \cup {i})
    BY <2>1, <2>5, <2>7, <2>8 DEF Owned
  <2> QED BY <2>2, <2>9, OwnedIsSlotsOwnedNext
<1>9. SlotsArmed'
  <2> SUFFICES ASSUME NEW s \in Slots, NEW t \in Tids, slots'[s].what # Nothing, slots'[s].pushed,
                      run'[t] # "none", t \notin fresh'
               PROVE  dr'[t][s] = Wanted(slots', t)[s]
    BY DEF SlotsArmed, Wanted
  <2>1. s # s0
    BY <1>4, <1>5
  <2>2. slots'[s] = slots[s]
    BY <1>4, <2>1
  <2>3. dr[t][s] = Wanted(slots, t)[s]
    BY <1>1, <2>2 DEF SlotsArmed
  <2> QED BY <1>1, <2>2, <2>3 DEF Wanted
<1>10. Placed'
  BY <1>2 DEF Placed
<1>11. RefsOn'
  BY <1>1, BpsAssumption DEF RefsOn
<1> QED BY <1>6, <1>7, <1>8, <1>9, <1>10, <1>11

\* A breakpoint is removed: its slot goes with it, its location stays.
LEMMA DisableIInv ==
    ASSUME IInv, NEW i \in CodeBps \cup DataBps, Disable(i)
    PROVE  IInv'
<1> USE DEF IInv
<1>1. /\ i \in on /\ on' = on \ {i}
      /\ refs' = [a \in Addrs |-> refs[a] \ {i}]
      /\ slots' = [s \in Slots |-> IF slots[s].what = i THEN NoSlot ELSE slots[s]]
      /\ UNCHANGED <<locs, hard, act, int3, target, stopping, step, run, fresh, intr, cpu, dr, dr6, single, ignore>>
  BY DEF Disable, control
<1>2. \A s \in Slots : slots'[s] = IF slots[s].what = i THEN NoSlot ELSE slots[s]
  BY <1>1
<1>3. NoSlot.what = Nothing
  BY DEF NoSlot
<1>4. TypeOK'
  <2>1. NoSlot \in [what : Addrs \cup DataBps \cup {Nothing}, tid : Tids \cup {NoTid}, pushed : BOOLEAN]
    BY DEF NoSlot
  <2>2. slots' \in [Slots -> [what : Addrs \cup DataBps \cup {Nothing},
                              tid : Tids \cup {NoTid}, pushed : BOOLEAN]]
    BY <1>1, <2>1 DEF TypeOK
  <2>3. refs' \in [Addrs -> SUBSET (CodeBps \cup StepRefs)]
    BY <1>1 DEF TypeOK
  <2> QED BY <1>1, <2>2, <2>3 DEF TypeOK, cpu
<1>5. CodeIntact' /\ StepTarget' /\ StepBreakpointsOwned'
  BY <1>1 DEF CodeIntact, StepTarget, StepBreakpointsOwned
<1>6. SlotsOwned'
  <2> DEFINE A == act \cap hard
             D == on \cap DataBps
  <2>1. Owned(slots, A, D)
    BY OwnedIsSlotsOwned
  <2>2. act' \cap hard' = A /\ on' \cap DataBps = D \ {i}
    BY <1>1
  <2>3. A \subseteq Addrs
    BY DEF TypeOK
  <2>4. i \notin A \cup {Nothing} /\ Nothing \notin A \cup D
    BY <1>1, <2>3, Different
  <2> HIDE DEF A, D
  <2>5. ASSUME NEW x \in A \cup (D \ {i}) PROVE OneSlot(slots', x)
    <3>1. PICK s \in Slots : \A u \in Slots : slots[u].what = x <=> u = s
      BY <2>1 DEF Owned, OneSlot
    <3>2. x # i /\ x # Nothing
      BY <2>4
    <3>3. \A u \in Slots : slots'[u].what = x <=> u = s
      BY <1>2, <1>3, <3>1, <3>2
    <3> QED BY <3>3 DEF OneSlot
  <2>6. \A s \in Slots : slots'[s].what \in A \cup (D \ {i}) \cup {Nothing}
    BY <1>2, <1>3, <2>1 DEF Owned
  <2>7. Owned(slots', A, D \ {i})
    BY <2>5, <2>6 DEF Owned
  <2> QED BY <2>2, <2>7, OwnedIsSlotsOwnedNext
<1>7. SlotsArmed'
  <2> SUFFICES ASSUME NEW s \in Slots, NEW t \in Tids, slots'[s].what # Nothing, slots'[s].pushed,
                      run'[t] # "none", t \notin fresh'
               PROVE  dr'[t][s] = Wanted(slots', t)[s]
    BY DEF SlotsArmed, Wanted
  <2>1. slots'[s] = slots[s]
    BY <1>2, <1>3
  <2>2. dr[t][s] = Wanted(slots, t)[s]
    BY <1>1, <2>1 DEF SlotsArmed
  <2> QED BY <1>1, <2>1, <2>2 DEF Wanted
<1>8. Placed'
  BY <1>1, <1>2, <1>3 DEF Placed
<1>9. RefsOn'
  <2> SUFFICES ASSUME NEW j \in on' \cap CodeBps PROVE Where[j] \in locs' /\ j \in refs'[Where[j]]
    BY DEF RefsOn
  <2>1. Where[j] \in Addrs
    BY BpsAssumption DEF Addrs
  <2>2. Where[j] \in locs /\ j \in refs[Where[j]] /\ j # i
    BY <1>1 DEF RefsOn
  <2> QED BY <1>1, <2>1, <2>2
<1> QED BY <1>4, <1>5, <1>6, <1>7, <1>8, <1>9

\* Commands that only begin or end a step, resume or interrupt.
LEMMA CommandIInv ==
    ASSUME IInv, TypeOK', StepTarget', StepBreakpointsOwned',
           UNCHANGED <<on, hard, act, int3, slots, dr, fresh>>,
           stopping' = stopping \/ stopping' = TRUE,
           locs \subseteq locs',
           \A a \in Addrs : refs[a] \cap CodeBps \subseteq refs'[a],
           \A t \in Tids : run'[t] # "none" => run[t] # "none"
    PROVE  IInv'
<1> USE DEF IInv
<1>1. CodeIntact'
  BY DEF CodeIntact
<1>2. SlotsOwned'
  BY OwnedUnchanged
<1>3. SlotsArmed'
  BY ArmedUnchanged
<1>4. Placed'
  BY DEF Placed
<1>5. RefsOn'
  <2> SUFFICES ASSUME NEW j \in on' \cap CodeBps PROVE Where[j] \in locs' /\ j \in refs'[Where[j]]
    BY DEF RefsOn
  <2>1. Where[j] \in Addrs
    BY BpsAssumption DEF Addrs
  <2>2. Where[j] \in locs /\ j \in refs[Where[j]]
    BY DEF RefsOn
  <2> QED BY <2>1, <2>2
<1> QED BY <1>1, <1>2, <1>3, <1>4, <1>5

\* cancel_stepping() drops all references of a step and nothing else.
LEMMA RefsWithoutStepFacts ==
    ASSUME TypeOK
    PROVE  /\ RefsWithoutStep \in [Addrs -> SUBSET (CodeBps \cup StepRefs)]
           /\ \A a \in Addrs : /\ RefsWithoutStep[a] \cap StepRefs = {}
                               /\ refs[a] \cap CodeBps \subseteq RefsWithoutStep[a]
  BY Different DEF TypeOK, RefsWithoutStep

LEMMA ResumeIInv ==
    ASSUME IInv, Resume
    PROVE  IInv'
<1> USE DEF IInv
<1>1. /\ target \in {"Suspended", "Stepping"} /\ target' = "Running" /\ step' = NoStep
      /\ refs' = IF target = "Stepping" THEN RefsWithoutStep ELSE refs
      /\ UNCHANGED <<stopping, on, locs, hard, act, int3, slots, fresh, intr, cpu, dr, dr6, ignore>>
  BY DEF Resume
<1> DEFINE T == {t \in Tids : run[t] = "held" /\ WantsRun(t)'}
<1>2. ResumeThreads(T)
  BY DEF Resume
<1>3. T \in SUBSET Tids /\ \A t \in T : run[t] = "held"
  OBVIOUS
<1> HIDE DEF T
<1>4. /\ run' \in [Tids -> {"none", "run", "stop", "trap", "held"}]
      /\ single' \in [Tids -> BOOLEAN]
      /\ \A t \in Tids : run'[t] # "none" => run[t] # "none"
  BY <1>2, <1>3, ResumeType
<1>5. refs' \in [Addrs -> SUBSET (CodeBps \cup StepRefs)]
  BY <1>1, RefsWithoutStepFacts DEF TypeOK
<1>6. TypeOK'
  BY <1>1, <1>4, <1>5 DEF TypeOK, cpu
<1>7. StepTarget'
  BY <1>1 DEF StepTarget
<1>8. StepBreakpointsOwned'
  BY <1>1, RefsWithoutStepFacts DEF StepBreakpointsOwned, StepTarget
<1>9. \A a \in Addrs : refs[a] \cap CodeBps \subseteq refs'[a]
  BY <1>1, RefsWithoutStepFacts
<1> QED BY <1>1, <1>4, <1>6, <1>7, <1>8, <1>9, CommandIInv

LEMMA SuspendIInv ==
    ASSUME IInv, Suspend
    PROVE  IInv'
<1> USE DEF IInv
<1>1. /\ target' = "Suspended" /\ step' = NoStep /\ refs' = RefsWithoutStep
      /\ UNCHANGED <<on, locs, hard, act, int3, slots, stopping, run, fresh, cpu, dr, dr6, single, ignore>>
  BY DEF Suspend
<1>2. intr' \in SUBSET Tids
  <2>1. RunningThreads \in SUBSET Tids
    BY DEF RunningThreads
  <2> QED BY <2>1, InterruptType DEF Suspend
<1>3. TypeOK'
  BY <1>1, <1>2, RefsWithoutStepFacts DEF TypeOK, cpu
<1>4. StepTarget' /\ StepBreakpointsOwned'
  BY <1>1, RefsWithoutStepFacts DEF StepTarget, StepBreakpointsOwned
<1>5. \A a \in Addrs : refs[a] \cap CodeBps \subseteq refs'[a]
  BY <1>1, RefsWithoutStepFacts
<1> QED BY <1>1, <1>3, <1>4, <1>5, CommandIInv

\* A step of a thread is a step.
LEMMA StepIsNotNone ==
    ASSUME NEW t \in Tids, NEW kind, NEW keep
    PROVE  [tid |-> t, kind |-> kind, keep |-> keep] # NoStep
<1>1. [tid |-> t, kind |-> kind, keep |-> keep].tid # NoStep.tid
  BY Different DEF NoStep
<1> QED BY <1>1

LEMMA StepIInv ==
    ASSUME IInv, NEW t \in Tids, NEW kind \in StepKinds, NEW keep \in BOOLEAN,
           NEW A \in SUBSET Addrs, NEW r \in StepRefs, Step(t, kind, keep, A, r)
    PROVE  IInv'
<1> USE DEF IInv
<1>1. /\ target' = "Stepping" /\ step' = [tid |-> t, kind |-> kind, keep |-> keep]
      /\ locs' = locs \cup A
      /\ refs' = [a \in Addrs |-> IF a \in A THEN refs[a] \cup {r} ELSE refs[a]]
      /\ UNCHANGED <<on, hard, act, int3, slots, fresh, cpu, dr, dr6, ignore>>
  BY DEF Step
<1>2. /\ run' \in [Tids -> {"none", "run", "stop", "trap", "held"}]
      /\ single' \in [Tids -> BOOLEAN]
      /\ \A u \in Tids : run'[u] # "none" => run[u] # "none"
      /\ stopping' \in BOOLEAN /\ (stopping' = stopping \/ stopping' = TRUE)
      /\ intr' \in SUBSET Tids
  <2> DEFINE Moves == A # {} \/ (~past[t] /\ pos[t] \in locs \ hard)
  <2>1. CASE Moves
    <3>1. Arrange /\ run' = run
      BY <2>1 DEF Step
    <3>2. single' = [single EXCEPT ![t] = @ \/ (r = "call" /\ ~past[t] /\ pos[t] \in A)]
      BY <2>1 DEF Step
    <3>3. single' \in [Tids -> BOOLEAN]
      BY <3>2 DEF TypeOK
    <3> QED BY <3>1, <3>3, ArrangeType DEF TypeOK
  <2>2. CASE ~Moves
    <3> DEFINE T == {u \in Tids : run[u] = "held" /\ WantsRun(u)'}
    <3>1. UNCHANGED <<stopping, intr>> /\ ResumeThreads(T)
      BY <2>2 DEF Step
    <3>2. T \in SUBSET Tids /\ \A u \in T : run[u] = "held"
      OBVIOUS
    <3> HIDE DEF T
    <3>3. /\ run' \in [Tids -> {"none", "run", "stop", "trap", "held"}]
          /\ single' \in [Tids -> BOOLEAN]
          /\ \A u \in Tids : run'[u] # "none" => run[u] # "none"
      BY <3>1, <3>2, ResumeType
    <3> QED BY <3>1, <3>3 DEF TypeOK
  <2> QED BY <2>1, <2>2
<1>3. TypeOK'
  <2>1. refs' \in [Addrs -> SUBSET (CodeBps \cup StepRefs)]
    BY <1>1 DEF TypeOK
  <2>2. step' \in Steps
    BY <1>1 DEF Steps
  <2> QED BY <1>1, <1>2, <2>1, <2>2 DEF TypeOK, cpu
<1>4. step' # NoStep
  BY <1>1, StepIsNotNone
<1>5. StepTarget' /\ StepBreakpointsOwned'
  BY <1>1, <1>4 DEF StepTarget, StepBreakpointsOwned
<1>6. \A a \in Addrs : refs[a] \cap CodeBps \subseteq refs'[a]
  BY <1>1
<1> QED BY <1>1, <1>2, <1>3, <1>5, <1>6, CommandIInv

LEMMA StepToCursorIInv ==
    ASSUME IInv, NEW t \in Tids, NEW a \in Addrs, StepToCursor(t, a)
    PROVE  IInv'
<1> USE DEF IInv
<1>1. /\ "cursor" \in StepKinds
      /\ target' = "Stepping" /\ step' = [tid |-> t, kind |-> "cursor", keep |-> FALSE]
      /\ locs' = locs \cup {a}
      /\ refs' = [RefsWithoutStep EXCEPT ![a] = @ \cup {"stop"}]
      /\ UNCHANGED <<on, hard, act, int3, slots, run, fresh, cpu, dr, dr6, single, ignore>>
  BY DEF StepToCursor
<1>2. stopping' = TRUE /\ intr' \in SUBSET Tids
  BY ArrangeType DEF StepToCursor
<1>3. TypeOK'
  <2>1. refs' \in [Addrs -> SUBSET (CodeBps \cup StepRefs)]
    BY <1>1, RefsWithoutStepFacts DEF StepRefs
  <2>2. step' \in Steps
    BY <1>1 DEF Steps
  <2> QED BY <1>1, <1>2, <2>1, <2>2 DEF TypeOK, cpu
<1>4. step' # NoStep
  BY <1>1, StepIsNotNone
<1>5. StepTarget' /\ StepBreakpointsOwned'
  BY <1>1, <1>4 DEF StepTarget, StepBreakpointsOwned
<1>6. \A b \in Addrs : refs[b] \cap CodeBps \subseteq refs'[b]
  BY <1>1, RefsWithoutStepFacts
<1> QED BY <1>1, <1>2, <1>3, <1>5, <1>6, CommandIInv

(***************************************************************************)
(* SIGTRAP.                                                                *)
(***************************************************************************)

\* What deactivate_breakpoint_location() leaves of the slots.
LEMMA SlotsWithoutOwned ==
    ASSUME IInv, NEW L \in SUBSET Addrs
    PROVE  /\ Owned(SlotsWithout(L), (act \cap hard) \ L, on \cap DataBps)
           /\ \A s \in Slots : SlotsWithout(L)[s].what # Nothing => SlotsWithout(L)[s] = slots[s]
           /\ SlotsWithout(L) \in [Slots -> [what : Addrs \cup DataBps \cup {Nothing},
                                             tid : Tids \cup {NoTid}, pushed : BOOLEAN]]
<1> USE DEF IInv
<1> DEFINE A == act \cap hard
           D == on \cap DataBps
           W == SlotsWithout(L)
<1>1. Owned(slots, A, D)
  BY OwnedIsSlotsOwned
<1>2. \A s \in Slots : W[s] = IF slots[s].what \in L \cap A THEN NoSlot ELSE slots[s]
  BY DEF SlotsWithout
<1>3. W \in [Slots -> [what : Addrs \cup DataBps \cup {Nothing},
                       tid : Tids \cup {NoTid}, pushed : BOOLEAN]]
  <2>1. NoSlot \in [what : Addrs \cup DataBps \cup {Nothing}, tid : Tids \cup {NoTid}, pushed : BOOLEAN]
    BY DEF NoSlot
  <2> QED BY <2>1 DEF SlotsWithout, TypeOK
<1>4. NoSlot.what = Nothing
  BY DEF NoSlot
<1>5. A \subseteq Addrs
  BY DEF TypeOK
<1>6. Nothing \notin A \cup D /\ L \cap D = {}
  BY <1>5, Different
<1> HIDE DEF A, D, W
<1>7. ASSUME NEW x \in (A \ L) \cup D PROVE OneSlot(W, x)
  <2>1. PICK s \in Slots : \A u \in Slots : slots[u].what = x <=> u = s
    BY <1>1 DEF Owned, OneSlot
  <2>2. x \notin L /\ x # Nothing
    BY <1>6
  <2>3. \A u \in Slots : W[u].what = x <=> u = s
    BY <1>2, <1>4, <2>1, <2>2
  <2> QED BY <2>3 DEF OneSlot
<1>8. \A s \in Slots : W[s].what \in (A \ L) \cup D \cup {Nothing}
  BY <1>1, <1>2, <1>4 DEF Owned
<1>9. \A s \in Slots : W[s].what # Nothing => W[s] = slots[s]
  BY <1>2, <1>4
<1>10. Owned(W, A \ L, D)
  BY <1>7, <1>8 DEF Owned
<1> QED BY <1>3, <1>9, <1>10 DEF A, D, W

\* A step that is none stays none.
LEMMA NoStepKept == [NoStep EXCEPT !.keep = FALSE] = NoStep
<1> DEFINE R == [tid : {NoTid}, kind : {"none"}, keep : {FALSE}]
<1>1. NoStep \in R
  BY DEF NoStep
<1>2. [NoStep EXCEPT !.keep = FALSE] \in R
  BY <1>1
<1>3. \A x, y \in R : x.tid = y.tid /\ x.kind = y.kind /\ x.keep = y.keep
  OBVIOUS
<1>4. ASSUME NEW x \in R, NEW y \in R, x.tid = y.tid, x.kind = y.kind, x.keep = y.keep PROVE x = y
  BY <1>4
<1> QED BY <1>1, <1>2, <1>3, <1>4

\* A trap is handled: a location that nothing refers to is cleared, a step ends
\* with its breakpoints or goes on with more of them.
LEMMA HandleTrapIInv ==
    ASSUME IInv, NEW t \in Tids, HandleTrap(t)
    PROVE  IInv'
<1> USE DEF IInv
<1>1. PICK truth \in BOOLEAN, done \in BOOLEAN, e \in Extensions(t) :
          HandleTrapAs(t, truth, done, e.at, e.type, e.calls)
  BY DEF HandleTrap
<1>2. e.at \in SUBSET Addrs /\ e.type \in StepRefs /\ e.calls \in BOOLEAN
  <2>1. CASE e = [at |-> {}, type |-> "stop", calls |-> FALSE]
    BY <2>1 DEF StepRefs
  <2>2. CASE e \in [at : SUBSET Addrs, type : StepRefs, calls : BOOLEAN]
    BY <2>2
  <2> QED BY <2>1, <2>2 DEF Extensions
<1> DEFINE grow == e.at
           r == e.type
           calls == e.calls
           isHw == dr6[t] # {}
           isSw == SoftwareTrap(t)
           at == IF past[t] /\ ~isSw THEN Elsewhere ELSE pos[t]
           spurious == isHw /\ ignore[t] = at /\ at # Elsewhere
           stepped == single[t] /\ sig[t] \in {"step", "int3"} /\ ~spurious
           here == IF at \in locs THEN refs[at] ELSE {}
           lapsed == {at} \cap {a \in locs : refs[a] = {}}
           mine == step # NoStep /\ step.tid = t
           ids == (IF spurious THEN {} ELSE here \cap CodeBps)
                     \cup ({slots[s].what : s \in dr6[t]} \cap DataBps)
           reasons == {i \in ids : /\ step = NoStep /\ target # "Suspended"
                                   /\ i \in Conditional => truth}
           ends == /\ reasons = {} /\ mine
                   /\ \/ step.kind = "cursor" /\ here \cap StepRefs # {}
                      \/ step.kind = "instr" /\ stepped
                      \/ step.kind = "range" /\ done
           hit == reasons # {} \/ ends
           stop == stopping \/ at \in locs \ hard \/ grow # {}
           keep == step.keep /\ ~calls
           freed == {u \in Tids : calls /\ ~stop /\ step.keep /\ run[u] = "held"}
<1>3. /\ run[t] = "trap"
      /\ grow # {} \/ calls => mine /\ step.kind = "range" /\ ~hit
      /\ sig' = [sig EXCEPT ![t] = "none"]
      /\ past' = [past EXCEPT ![t] = @ /\ ~isSw]
      /\ dr' = IF isHw THEN [dr EXCEPT ![t] = Wanted(slots, t)] ELSE dr
      /\ dr6' = [dr6 EXCEPT ![t] = {}]
      /\ ignore' = [ignore EXCEPT ![t] = Elsewhere]
      /\ act' = act \ lapsed /\ int3' = BytesWithout(lapsed) /\ slots' = SlotsWithout(lapsed)
      /\ locs' = locs \cup grow
      /\ refs' = IF hit /\ step # NoStep THEN RefsWithoutStep
                 ELSE [a \in Addrs |-> IF a \in grow THEN refs[a] \cup {r} ELSE refs[a]]
      /\ step' = (IF hit THEN NoStep ELSE [step EXCEPT !.keep = keep])
      /\ target' = IF hit THEN "Suspended" ELSE target
      /\ stopping' = stop
      /\ intr' = IF hit \/ (stop /\ (target = "Running" \/ (step # NoStep /\ ~(keep /\ mine))))
                 THEN Interrupt(RunningThreads \ {t}) ELSE intr
      /\ run' = [u \in Tids |-> IF u = t THEN IF hit \/ stop THEN "held" ELSE "run"
                                ELSE IF u \in freed THEN "run" ELSE run[u]]
      /\ single' = [single EXCEPT ![t] = \/ mine /\ "call" \in here
                                         \/ r = "call" /\ at \in grow
                                         \/ ~hit /\ ~stop /\ mine /\ step.kind = "instr"]
      /\ UNCHANGED <<on, hard, fresh, pos, rf>>
  BY <1>1 DEF HandleTrapAs
<1>4. lapsed \in SUBSET locs /\ \A a \in lapsed : refs[a] = {}
  OBVIOUS
<1>5. \A u \in freed : run[u] = "held"
  OBVIOUS
<1>6. keep \in BOOLEAN /\ (step = NoStep => keep = FALSE)
  BY DEF TypeOK, Steps, NoStep
<1>7. stop \in BOOLEAN /\ (stopping => stop)
  BY DEF TypeOK
<1>8. mine => step # NoStep
  OBVIOUS
<1> HIDE DEF grow, r, calls, isHw, isSw, at, lapsed, mine, hit, stop, keep, freed, here
<1>9. grow \in SUBSET Addrs /\ r \in StepRefs
  BY <1>2 DEF grow, r
<1>10. /\ slots' \in [Slots -> [what : Addrs \cup DataBps \cup {Nothing},
                                tid : Tids \cup {NoTid}, pushed : BOOLEAN]]
       /\ Owned(slots', (act \cap hard) \ lapsed, on \cap DataBps)
       /\ \A s \in Slots : slots'[s].what # Nothing => slots'[s] = slots[s]
  <2>1. lapsed \in SUBSET Addrs
    BY <1>4 DEF TypeOK
  <2> QED BY <1>3, <2>1, SlotsWithoutOwned
<1>11. int3' = int3 \ ((lapsed \cap act) \ hard)
  BY <1>3 DEF BytesWithout
<1>12. refs' \in [Addrs -> SUBSET (CodeBps \cup StepRefs)]
  BY <1>3, <1>9, RefsWithoutStepFacts DEF TypeOK
<1>13. \A a \in Addrs : refs[a] \cap CodeBps \subseteq refs'[a]
  BY <1>3, RefsWithoutStepFacts
<1>14. step' \in Steps \cup {NoStep} /\ (step' = NoStep <=> hit \/ step = NoStep)
  <2>1. CASE hit
    BY <1>3, <2>1
  <2>2. CASE ~hit /\ step = NoStep
    <3>1. step' = [NoStep EXCEPT !.keep = FALSE]
      BY <1>3, <1>6, <2>2
    <3>2. [NoStep EXCEPT !.keep = FALSE] = NoStep
      BY NoStepKept
    <3> QED BY <2>2, <3>1, <3>2
  <2>3. CASE ~hit /\ step # NoStep
    <3>1. step \in Steps
      BY <2>3 DEF TypeOK
    <3>2. step' = [step EXCEPT !.keep = keep]
      BY <1>3, <2>3
    <3>3. step' \in Steps
      BY <1>6, <3>1, <3>2 DEF Steps
    <3>4. step'.tid \in Tids
      BY <3>3 DEF Steps
    <3>5. step' # NoStep
      BY <3>4, Different DEF NoStep
    <3> QED BY <2>3, <3>3, <3>5
  <2> QED BY <2>1, <2>2, <2>3
<1>15. \A u \in Tids : run'[u] # "none" => run[u] # "none"
  BY <1>3, <1>5 DEF TypeOK
<1>16. TypeOK'
  <2>1. locs' \in SUBSET Addrs /\ hard' \in SUBSET locs' /\ act' \in SUBSET locs' /\ int3' \in SUBSET Addrs
    BY <1>3, <1>9, <1>11 DEF TypeOK
  <2>2. run' \in [Tids -> {"none", "run", "stop", "trap", "held"}]
    BY <1>3 DEF TypeOK
  <2>3. dr' \in [Tids -> [Slots -> Addrs \cup DataBps \cup {Nothing}]]
    BY <1>3, WantedType DEF TypeOK
  <2>4. intr' \in SUBSET Tids
    <3>1. RunningThreads \ {t} \in SUBSET Tids
      BY DEF RunningThreads
    <3>2. Interrupt(RunningThreads \ {t}) \in SUBSET Tids
      BY <3>1, InterruptType
    <3> QED BY <1>3, <3>2 DEF TypeOK
  <2>5. past' \in [Tids -> BOOLEAN]
    BY <1>3 DEF TypeOK
  <2>6. single' \in [Tids -> BOOLEAN]
    BY <1>3 DEF TypeOK
  <2>7. sig' \in [Tids -> {"none", "int3", "hw", "step"}] /\ dr6' \in [Tids -> SUBSET Slots]
    BY <1>3 DEF TypeOK
  <2>8. ignore' \in [Tids -> Addrs \cup {Elsewhere}]
    BY <1>3 DEF TypeOK
  <2>9. target' \in {"Suspended", "Running", "Stepping"} /\ stopping' \in BOOLEAN
    BY <1>3, <1>7 DEF TypeOK
  <2>10. on' \in SUBSET (CodeBps \cup DataBps) /\ fresh' \in SUBSET Tids
         /\ pos' \in [Tids -> Addrs \cup {Elsewhere}] /\ rf' \in [Tids -> BOOLEAN]
    BY <1>3 DEF TypeOK
  <2> QED BY <1>10, <1>12, <1>14, <2>1, <2>2, <2>3, <2>4, <2>5, <2>6, <2>7, <2>8, <2>9, <2>10 DEF TypeOK
<1>17. CodeIntact'
  BY <1>3, <1>11 DEF CodeIntact
<1>18. SlotsOwned'
  <2>1. act' \cap hard' = (act \cap hard) \ lapsed /\ on' = on
    BY <1>3
  <2> QED BY <1>10, <2>1, OwnedIsSlotsOwnedNext
<1>19. SlotsArmed'
  <2> SUFFICES ASSUME NEW s \in Slots, NEW u \in Tids, slots'[s].what # Nothing, slots'[s].pushed,
                      run'[u] # "none", u \notin fresh'
               PROVE  dr'[u][s] = Wanted(slots', u)[s]
    BY DEF SlotsArmed, Wanted
  <2>1. slots'[s] = slots[s]
    BY <1>10
  <2>2. dr[u][s] = Wanted(slots, u)[s]
    BY <1>3, <1>15, <2>1 DEF SlotsArmed
  <2>3. dr'[u] = dr[u] \/ dr'[u] = Wanted(slots, u)
    BY <1>3 DEF TypeOK
  <2>4. dr'[u][s] = Wanted(slots, u)[s]
    BY <2>2, <2>3
  <2> QED BY <2>1, <2>4 DEF Wanted
<1>20. StepTarget'
  BY <1>3, <1>14 DEF StepTarget
<1>21. StepBreakpointsOwned'
  <2>1. CASE hit /\ step # NoStep
    BY <1>3, <2>1, RefsWithoutStepFacts DEF StepBreakpointsOwned
  <2>2. CASE step = NoStep
    <3>1. grow = {}
      BY <1>3, <1>8, <2>2
    <3>2. \A a \in Addrs : refs'[a] = refs[a]
      BY <1>3, <2>2, <3>1
    <3> QED BY <2>2, <3>2 DEF StepBreakpointsOwned
  <2>3. CASE ~hit /\ step # NoStep
    BY <1>14, <2>3 DEF StepBreakpointsOwned
  <2> QED BY <2>1, <2>2, <2>3
<1>22. RefsOn'
  <2> SUFFICES ASSUME NEW j \in on' \cap CodeBps PROVE Where[j] \in locs' /\ j \in refs'[Where[j]]
    BY DEF RefsOn
  <2>1. Where[j] \in Addrs
    BY BpsAssumption DEF Addrs
  <2>2. Where[j] \in locs /\ j \in refs[Where[j]]
    BY <1>3 DEF RefsOn
  <2> QED BY <1>3, <1>13, <2>1, <2>2
<1>23. Placed'
  <2> SUFFICES ASSUME ~stopping'
               PROVE  /\ \A i \in on' \cap CodeBps : Where[i] \in act' \cup hard'
                      /\ \A s \in Slots : slots'[s].what # Nothing => slots'[s].pushed
    BY DEF Placed
  <2>1. ~stopping
    BY <1>3, <1>7
  <2>2. ASSUME NEW i \in on' \cap CodeBps PROVE Where[i] \in act' \cup hard'
    <3>1. Where[i] \in act \cup hard /\ i \in refs[Where[i]]
      BY <1>3, <2>1 DEF Placed, RefsOn
    <3>2. Where[i] \notin lapsed
      BY <1>4, <3>1
    <3> QED BY <1>3, <3>1, <3>2
  <2>3. \A s \in Slots : slots'[s].what # Nothing => slots'[s].pushed
    BY <1>10, <2>1 DEF Placed
  <2> QED BY <2>2, <2>3
<1> QED BY <1>16, <1>17, <1>18, <1>19, <1>20, <1>21, <1>22, <1>23

(***************************************************************************)
(* handle_breakpoints().                                                   *)
(***************************************************************************)

\* Locations that need a debug register are given free slots, at most one slot
\* each and at most one location to a slot: first come, first served.
LEMMA Served ==
    ASSUME NEW need \in SUBSET Addrs, NEW free \in SUBSET Slots,
           NEW a \in need, NEW b \in need, NEW s \in free, NEW u \in free,
           Rank(need, a) = Rank(free, s), Rank(need, b) = Rank(free, u)
    PROVE  a = b <=> s = u
<1>1. Addrs \subseteq Int /\ Slots \subseteq Int
  BY BpsAssumption DEF Addrs, Slots
<1>2. IsFiniteSet(Addrs) /\ IsFiniteSet(Slots)
  BY FS_Interval, BpsAssumption DEF Addrs, Slots
<1>3. IsFiniteSet(need) /\ IsFiniteSet(free)
  BY <1>2, FS_Subset
<1>4. need \subseteq Int /\ free \subseteq Int
  BY <1>1
<1>5. ASSUME a = b PROVE s = u
  <2>1. Rank(free, s) = Rank(free, u)
    BY <1>5
  <2> QED BY <1>3, <1>4, <2>1, RankInjective
<1>6. ASSUME s = u PROVE a = b
  <2>1. Rank(need, a) = Rank(need, b)
    BY <1>6
  <2> QED BY <1>3, <1>4, <2>1, RankInjective
<1> QED BY <1>5, <1>6

\* All threads are held: locations become hardware or software ones, what is free
\* of the debug registers is handed out and pushed to all threads.
LEMMA HandleBreakpointsIInv ==
    ASSUME IInv, HandleBreakpoints
    PROVE  IInv'
<1> USE DEF IInv
<1> DEFINE empty == {a \in locs : refs[a] = {}}
           left == locs \ empty
           stand == {pos[t] : t \in {u \in Tids : run[u] = "held" /\ ~past[u]}}
           soften == (left \cap hard) \ stand
           harden == (left \cap stand) \ hard
           hard1 == ((left \cap hard) \ soften) \cup harden
           act1 == (act \cap left) \ (soften \cup harden)
           slots1 == SlotsWithout(empty \cup soften \cup harden)
           need == hard1 \ act1
           free == {s \in Slots : slots1[s].what = Nothing}
           served(s) == {a \in need : s \in free /\ Rank(need, a) = Rank(free, s)}
           slots2 == [s \in Slots |->
                        IF served(s) = {} THEN slots1[s]
                        ELSE LET a == CHOOSE x \in served(s) : TRUE
                             IN  [what |-> a, pushed |-> FALSE,
                                  tid |-> IF refs[a] \cap CodeBps = {} THEN step.tid ELSE NoTid]]
           push == \E s \in Slots : slots2[s].what # Nothing /\ ~slots2[s].pushed
           Given == UNION {served(s) : s \in Slots}
           T == {t \in Tids : run[t] = "held" /\ WantsRun(t)'}
           SlotType == [what : Addrs \cup DataBps \cup {Nothing}, tid : Tids \cup {NoTid}, pushed : BOOLEAN]
           A == act \cap hard
           L == empty \cup soften \cup harden
           D == on \cap DataBps
<1>1. /\ AllHeld
      /\ locs' = left /\ hard' = hard1
      /\ act' = act1 \cup (left \ hard1) \cup Given
      /\ int3' = BytesWithout(empty \cup harden) \cup (left \ hard1)
      /\ slots' = [s \in Slots |-> IF push THEN [slots2[s] EXCEPT !.pushed = TRUE] ELSE slots2[s]]
      /\ dr' = [t \in Tids |-> IF push /\ run[t] = "held" THEN Wanted(slots2, t) ELSE dr[t]]
      /\ ignore' = [t \in Tids |-> IF run[t] = "held" /\ ~past[t] /\ pos[t] \in harden
                                   THEN pos[t] ELSE ignore[t]]
      /\ stopping' = FALSE
      /\ UNCHANGED <<on, refs, target, step>>
      /\ ResumeThreads(T)
      /\ UNCHANGED <<fresh, intr, cpu, dr6>>
  BY DEF HandleBreakpoints
<1>2. locs \subseteq Addrs /\ act \subseteq locs /\ hard \subseteq locs
  BY DEF TypeOK
<1>3. hard1 \subseteq left /\ act1 \subseteq left /\ left \subseteq locs /\ L \subseteq Addrs
  BY <1>2
<1>4. act1 \cap hard1 = A \ L
  BY <1>2
<1>5. int3' = left \ hard1
  <2>1. int3' = (int3 \ (((empty \cup harden) \cap act) \ hard)) \cup (left \ hard1)
    BY <1>1 DEF BytesWithout
  <2>2. int3 = act \ hard
    BY DEF CodeIntact
  <2> QED BY <1>2, <2>1, <2>2
<1>6. act1 \ hard1 \subseteq left \ hard1
  BY <1>3
<1>7. \A a \in left : refs[a] # {}
  OBVIOUS
<1>8. \A a \in locs : refs[a] # {} => a \in left
  OBVIOUS
<1>9. T \in SUBSET Tids /\ \A t \in T : run[t] = "held"
  OBVIOUS
<1> HIDE DEF empty, left, stand, soften, harden, hard1, act1, T
<1>10. /\ slots1 \in [Slots -> SlotType]
       /\ Owned(slots1, A \ L, D)
       /\ \A s \in Slots : slots1[s].what # Nothing => slots1[s] = slots[s]
  BY <1>3, SlotsWithoutOwned
<1> HIDE DEF slots1
<1>11. need \in SUBSET Addrs /\ free \in SUBSET Slots
  BY <1>2, <1>3
<1>12. \A s \in Slots : served(s) # {} => s \in free
  OBVIOUS
<1>13. \A s \in free, u \in free : \A a \in served(s), b \in served(u) : a = b <=> s = u
  BY <1>11, Served
<1>14. \A s \in Slots : served(s) \subseteq need
  OBVIOUS
<1>15. \A s \in free : slots1[s].what = Nothing
  OBVIOUS
<1>16. need \cap act1 = {} /\ need \subseteq hard1
  OBVIOUS
<1> HIDE DEF need, free, served
<1>17. ASSUME NEW s \in Slots
       PROVE  \/ served(s) = {} /\ slots2[s] = slots1[s]
              \/ /\ s \in free /\ slots2[s].what \in served(s) /\ slots2[s].pushed = FALSE
                 /\ slots2[s] \in SlotType
  <2>1. CASE served(s) = {}
    BY <2>1
  <2>2. CASE served(s) # {}
    <3> DEFINE a == CHOOSE x \in served(s) : TRUE
    <3>1. a \in served(s)
      BY <2>2
    <3>2. slots2[s] = [what |-> a, pushed |-> FALSE,
                       tid |-> IF refs[a] \cap CodeBps = {} THEN step.tid ELSE NoTid]
      BY <2>2
    <3> HIDE DEF a
    <3>3. step.tid \in Tids \cup {NoTid}
      BY DEF TypeOK, Steps, NoStep
    <3>4. a \in Addrs
      BY <1>11, <1>14, <3>1
    <3>5. slots2[s] \in SlotType
      <4> DEFINE id == IF refs[a] \cap CodeBps = {} THEN step.tid ELSE NoTid
      <4>1. id \in Tids \cup {NoTid}
        BY <3>3
      <4>2. slots2[s] = [what |-> a, pushed |-> FALSE, tid |-> id]
        BY <3>2
      <4> HIDE DEF id, slots2
      <4>3. [what |-> a, pushed |-> FALSE, tid |-> id] \in SlotType
        BY <3>4, <4>1
      <4> QED BY <4>2, <4>3
    <3>6. slots2[s].what = a /\ slots2[s].pushed = FALSE
      BY <3>2
    <3> QED BY <1>12, <2>2, <3>1, <3>5, <3>6
  <2> QED BY <2>1, <2>2
<1>18. slots2 \in [Slots -> SlotType]
  <2>1. \A s \in Slots : slots2[s] \in SlotType
    BY <1>10, <1>17
  <2>2. slots2 = [s \in Slots |-> slots2[s]]
    OBVIOUS
  <2> QED BY <2>1, <2>2
<1> HIDE DEF slots2
<1>19. \A s \in Slots : /\ slots'[s].what = slots2[s].what /\ slots'[s].tid = slots2[s].tid
                        /\ slots'[s].pushed = (push \/ slots2[s].pushed)
  <2> TAKE s \in Slots
  <2>1. slots2[s] \in SlotType
    BY <1>18
  <2>2. slots'[s] = IF push THEN [slots2[s] EXCEPT !.pushed = TRUE] ELSE slots2[s]
    BY <1>1
  <2> QED BY <2>1, <2>2
<1>20. ~push => \A s \in Slots : slots2[s].what # Nothing => slots2[s].pushed
  OBVIOUS
<1>21. slots' \in [Slots -> SlotType]
  BY <1>1, <1>18
<1> HIDE DEF push
<1>22. Given \subseteq hard1 /\ Given \subseteq Addrs
  BY <1>11, <1>14, <1>16
<1>23. act' \cap hard' = (A \ L) \cup Given
  BY <1>1, <1>4, <1>22
<1>24. act' \ hard' = left \ hard1 /\ act' \subseteq left
  BY <1>1, <1>3, <1>6, <1>22
<1>25. Given \cap (A \ L) = {}
  BY <1>4, <1>11, <1>14, <1>16
<1>26. \A a \in Given : \E s \in Slots : a \in served(s)
  OBVIOUS
<1>27. \A s \in Slots : served(s) \subseteq Given
  OBVIOUS
<1> HIDE DEF Given
<1>28. SlotsOwned'
  <2>1. A \ L \subseteq Addrs
    BY <1>2
  <2>2. Nothing \notin (A \ L) \cup D \cup Given /\ Given \cap D = {}
    BY <1>22, <2>1, Different
  <2> DEFINE K == A \ L
  <2>3. Given \cap (K \cup D) = {}
    BY <1>25, <2>2
  <2> HIDE DEF K, D
  <2>4. ASSUME NEW x \in Given PROVE OneSlot(slots', x)
    <3>1. PICK s \in Slots : x \in served(s)
      BY <1>26
    <3>2. s \in free
      BY <1>12, <3>1
    <3>3. slots2[s].what = x
      <4>1. slots2[s].what \in served(s)
        BY <1>17, <3>1
      <4> QED BY <1>13, <3>1, <3>2, <4>1
    <3>4. ASSUME NEW u \in Slots, slots2[u].what = x PROVE u = s
      <4>1. CASE served(u) = {} /\ slots2[u] = slots1[u]
        <5>1. x \in K \cup D \cup {Nothing}
          BY <1>10, <3>4, <4>1 DEF Owned, K
        <5> QED BY <2>2, <2>3, <5>1
      <4>2. CASE u \in free /\ slots2[u].what \in served(u)
        BY <1>13, <3>1, <3>2, <3>4, <4>2
      <4> QED BY <1>17, <4>1, <4>2
    <3> QED BY <1>19, <3>3, <3>4 DEF OneSlot
  <2>5. ASSUME NEW x \in K \cup D PROVE OneSlot(slots', x)
    <3>1. PICK s \in Slots : \A u \in Slots : slots1[u].what = x <=> u = s
      BY <1>10 DEF Owned, OneSlot, K
    <3>2. x # Nothing /\ x \notin Given
      BY <2>2, <2>3 DEF K
    <3>3. \A u \in Slots : slots2[u].what = x <=> slots1[u].what = x
      <4> TAKE u \in Slots
      <4>1. CASE slots2[u] = slots1[u]
        BY <4>1
      <4>2. CASE u \in free /\ slots2[u].what \in served(u)
        BY <1>15, <1>27, <3>2, <4>2
      <4> QED BY <1>17, <4>1, <4>2
    <3> QED BY <1>19, <3>1, <3>3 DEF OneSlot
  <2>6. \A s \in Slots : slots'[s].what \in K \cup Given \cup D \cup {Nothing}
    <3> TAKE s \in Slots
    <3>1. slots2[s].what \in K \cup Given \cup D \cup {Nothing}
      <4>1. CASE slots2[s] = slots1[s]
        BY <1>10, <4>1 DEF Owned, K
      <4>2. CASE slots2[s].what \in served(s)
        BY <1>27, <4>2
      <4> QED BY <1>17, <4>1, <4>2
    <3> QED BY <1>19, <3>1
  <2>7. Owned(slots', K \cup Given, D)
    BY <2>4, <2>5, <2>6 DEF Owned
  <2>8. on' \cap DataBps = D
    BY <1>1 DEF D
  <2> QED BY <1>23, <2>7, <2>8, OwnedIsSlotsOwnedNext DEF K
<1>29. /\ run' \in [Tids -> {"none", "run", "stop", "trap", "held"}]
       /\ single' \in [Tids -> BOOLEAN]
       /\ \A t \in Tids : run'[t] # "none" => run[t] # "none"
  BY <1>1, <1>9, ResumeType
<1>30. \A t \in Tids : run[t] # "none" => run[t] = "held"
  <2>1. \A t \in Tids : run[t] \notin {"run", "stop", "trap"}
    BY <1>1 DEF AllHeld, RunningThreads
  <2> QED BY <2>1 DEF TypeOK
<1>31. SlotsArmed'
  <2> SUFFICES ASSUME NEW s \in Slots, NEW t \in Tids, slots'[s].what # Nothing, slots'[s].pushed,
                      run'[t] # "none", t \notin fresh'
               PROVE  dr'[t][s] = Wanted(slots', t)[s]
    BY DEF SlotsArmed, Wanted
  <2>1. run[t] = "held" /\ t \notin fresh
    BY <1>1, <1>29, <1>30
  <2>2. Wanted(slots', t)[s] = Wanted(slots2, t)[s]
    BY <1>19 DEF Wanted
  <2>3. CASE push
    BY <1>1, <2>1, <2>2, <2>3
  <2>4. CASE ~push
    <3>1. slots2[s].what # Nothing /\ slots2[s].pushed
      BY <1>19, <2>4
    <3>2. slots2[s] = slots1[s]
      BY <1>17, <3>1
    <3>3. slots1[s] = slots[s]
      BY <1>10, <3>1, <3>2
    <3>4. dr[t][s] = Wanted(slots, t)[s]
      BY <1>29, <2>1, <3>1, <3>2, <3>3 DEF SlotsArmed
    <3>5. Wanted(slots2, t)[s] = Wanted(slots, t)[s]
      BY <3>2, <3>3 DEF Wanted
    <3>6. dr'[t] = dr[t]
      BY <1>1, <2>4
    <3> QED BY <2>2, <3>4, <3>5, <3>6
  <2> QED BY <2>3, <2>4
<1>32. Placed'
  <2>1. ASSUME NEW i \in on' \cap CodeBps PROVE Where[i] \in act' \cup hard'
    <3>1. Where[i] \in locs /\ i \in refs[Where[i]]
      BY <1>1 DEF RefsOn
    <3>2. Where[i] \in left
      BY <1>8, <3>1
    <3> QED BY <1>1, <3>2
  <2>2. \A s \in Slots : slots'[s].what # Nothing => slots'[s].pushed
    BY <1>19, <1>20
  <2> QED BY <2>1, <2>2 DEF Placed
<1>33. RefsOn'
  BY <1>1, <1>8 DEF RefsOn
<1>34. CodeIntact'
  BY <1>5, <1>24 DEF CodeIntact
<1>35. StepTarget' /\ StepBreakpointsOwned'
  BY <1>1 DEF StepTarget, StepBreakpointsOwned
<1>36. TypeOK'
  <2>1. dr' \in [Tids -> [Slots -> Addrs \cup DataBps \cup {Nothing}]]
    <3>1. \A t \in Tids : Wanted(slots2, t) \in [Slots -> Addrs \cup DataBps \cup {Nothing}]
      BY <1>18 DEF Wanted
    <3> QED BY <1>1, <3>1 DEF TypeOK
  <2>2. ignore' \in [Tids -> Addrs \cup {Elsewhere}]
    BY <1>1 DEF TypeOK
  <2>3. locs' \in SUBSET Addrs /\ hard' \in SUBSET locs' /\ act' \in SUBSET locs' /\ int3' \in SUBSET Addrs
    BY <1>1, <1>2, <1>3, <1>5, <1>24
  <2>4. stopping' \in BOOLEAN
    BY <1>1
  <2>5. /\ on' \in SUBSET (CodeBps \cup DataBps)
        /\ refs' \in [Addrs -> SUBSET (CodeBps \cup StepRefs)]
        /\ target' \in {"Suspended", "Running", "Stepping"}
        /\ step' \in Steps \cup {NoStep}
        /\ fresh' \in SUBSET Tids /\ intr' \in SUBSET Tids
    BY <1>1 DEF TypeOK
  <2>6. /\ pos' \in [Tids -> Addrs \cup {Elsewhere}]
        /\ past' \in [Tids -> BOOLEAN]
        /\ sig' \in [Tids -> {"none", "int3", "hw", "step"}]
        /\ rf' \in [Tids -> BOOLEAN]
        /\ dr6' \in [Tids -> SUBSET Slots]
    BY <1>1 DEF TypeOK, cpu
  <2> QED BY <1>21, <1>29, <2>1, <2>2, <2>3, <2>4, <2>5, <2>6 DEF TypeOK
<1> QED BY <1>28, <1>31, <1>32, <1>33, <1>34, <1>35, <1>36

(***************************************************************************)
(* The theorems.                                                           *)
(***************************************************************************)

\* Every step of the threads, of the debugger and of the user keeps the inductive
\* invariant.
LEMMA NextIInv ==
    ASSUME IInv, [Next]_vars
    PROVE  IInv'
<1>1. ASSUME NEW t \in Tids, Kernel(t) \/ HandleStop(t) \/ HandleTrap(t) PROVE IInv'
  BY <1>1, KernelIInv, HandleStopIInv, HandleTrapIInv
<1>2. CASE HandleBreakpoints
  BY <1>2, HandleBreakpointsIInv
<1>3. CASE User
  <2>1. ASSUME NEW i \in CodeBps, EnableCode(i) PROVE IInv'
    BY <2>1, EnableCodeIInv
  <2>2. ASSUME NEW i \in DataBps, EnableData(i) PROVE IInv'
    BY <2>2, EnableDataIInv
  <2>3. ASSUME NEW i \in CodeBps \cup DataBps, Disable(i) PROVE IInv'
    BY <2>3, DisableIInv
  <2>4. ASSUME NEW t \in Tids, NEW kind \in StepKinds, NEW keep \in BOOLEAN, NEW A \in SUBSET Addrs,
               NEW r \in StepRefs, Step(t, kind, keep, A, r)
        PROVE  IInv'
    BY <2>4, StepIInv
  <2>5. ASSUME NEW t \in Tids, NEW a \in Addrs, StepToCursor(t, a) PROVE IInv'
    BY <2>5, StepToCursorIInv
  <2> QED BY <1>3, <2>1, <2>2, <2>3, <2>4, <2>5, ResumeIInv, SuspendIInv DEF User
<1>4. CASE UNCHANGED vars
  <2>1. UNCHANGED <<table, control, run, fresh, intr, cpu, dr, dr6, single, ignore>>
    BY <1>4 DEF vars
  <2>2. TypeOK'
    BY <2>1 DEF IInv, TypeOK, table, control, cpu
  <2>3. SlotsArmed'
    BY <2>1, ArmedUnchanged DEF IInv, table
  <2> QED BY <2>1, <2>2, <2>3, TableUnchanged
<1> QED BY <1>1, <1>2, <1>3, <1>4 DEF Next

LEMMA InvariantHolds == Spec => []IInv
<1>1. Init => IInv
  BY InitIInv
<1>2. IInv /\ [Next]_vars => IInv'
  BY NextIInv
<1> QED BY <1>1, <1>2, PTL DEF Spec

(***************************************************************************)
(* A data breakpoint has its register in all threads.                      *)
(***************************************************************************)
DataForAll == \A s \in Slots : slots[s].what \in DataBps => slots[s].tid = NoTid

LEMMA HandleBreakpointsData ==
    ASSUME IInv, DataForAll, HandleBreakpoints
    PROVE  DataForAll'
<1> DEFINE empty == {a \in locs : refs[a] = {}}
           left == locs \ empty
           stand == {pos[t] : t \in {u \in Tids : run[u] = "held" /\ ~past[u]}}
           soften == (left \cap hard) \ stand
           harden == (left \cap stand) \ hard
           hard1 == ((left \cap hard) \ soften) \cup harden
           act1 == (act \cap left) \ (soften \cup harden)
           slots1 == SlotsWithout(empty \cup soften \cup harden)
           need == hard1 \ act1
           free == {s \in Slots : slots1[s].what = Nothing}
           served(s) == {a \in need : s \in free /\ Rank(need, a) = Rank(free, s)}
           slots2 == [s \in Slots |->
                        IF served(s) = {} THEN slots1[s]
                        ELSE LET a == CHOOSE x \in served(s) : TRUE
                             IN  [what |-> a, pushed |-> FALSE,
                                  tid |-> IF refs[a] \cap CodeBps = {} THEN step.tid ELSE NoTid]]
           push == \E s \in Slots : slots2[s].what # Nothing /\ ~slots2[s].pushed
           Typed(x) == x \in [what : Addrs \cup DataBps \cup {Nothing}, tid : Tids \cup {NoTid}, pushed : BOOLEAN]
<1>1. slots' = [s \in Slots |-> IF push THEN [slots2[s] EXCEPT !.pushed = TRUE] ELSE slots2[s]]
  BY DEF HandleBreakpoints
<1>2. need \subseteq Addrs /\ Addrs \cap DataBps = {} /\ Nothing \notin DataBps
  <2>1. locs \subseteq Addrs
    BY DEF IInv, TypeOK
  <2>2. need \subseteq locs
    OBVIOUS
  <2>3. Addrs \subseteq Int
    BY BpsAssumption DEF Addrs
  <2>4. Addrs \cap DataBps = {} /\ Nothing \notin DataBps
    BY <2>3, BpsAssumption
  <2> HIDE DEF need
  <2> QED BY <2>1, <2>2, <2>4
<1>3. \A s \in Slots : Typed(slots[s])
  BY DEF IInv, TypeOK
<1>4. \A s \in Slots : slots1[s] = NoSlot \/ slots1[s] = slots[s]
  BY DEF SlotsWithout
<1> HIDE DEF slots1, need, free
<1>5. ASSUME NEW s \in Slots, served(s) # {} PROVE slots2[s].what \in Addrs
  <2>1. (CHOOSE x \in served(s) : TRUE) \in served(s)
    BY <1>5
  <2>2. slots2[s].what = CHOOSE x \in served(s) : TRUE
    BY <1>5
  <2> QED BY <1>2, <2>1, <2>2
<1>6. ASSUME NEW s \in Slots, served(s) = {} PROVE slots2[s] = slots1[s]
  BY <1>6
<1>7. ASSUME NEW s \in Slots
      PROVE  slots'[s].what = slots2[s].what /\ slots'[s].tid = slots2[s].tid
  <2>1. CASE served(s) = {}
    <3>1. slots2[s] = NoSlot \/ slots2[s] = slots[s]
      BY <1>4, <1>6, <2>1
    <3>2. slots2[s] \in [what : {slots2[s].what}, tid : {slots2[s].tid}, pushed : BOOLEAN]
      <4>1. ASSUME NEW x, x = NoSlot \/ Typed(x)
            PROVE  x \in [what : {x.what}, tid : {x.tid}, pushed : BOOLEAN]
        <5>1. CASE x = NoSlot
          BY <5>1 DEF NoSlot
        <5>2. CASE Typed(x)
          BY <5>2
        <5> QED BY <4>1, <5>1, <5>2
      <4>2. slots2[s] = NoSlot \/ Typed(slots2[s])
        BY <1>3, <3>1
      <4> HIDE DEF slots2, Typed
      <4> QED BY <4>1, <4>2
    <3> HIDE DEF slots2
    <3> QED BY <1>1, <3>2
  <2>2. CASE served(s) # {}
    <3>1. slots2[s] \in [what : {slots2[s].what}, tid : {slots2[s].tid}, pushed : BOOLEAN]
      BY <2>2
    <3> HIDE DEF slots2
    <3> QED BY <1>1, <3>1
  <2> QED BY <2>1, <2>2
<1>8. ASSUME NEW s \in Slots, slots'[s].what \in DataBps PROVE slots'[s].tid = NoTid
  <2>1. slots2[s].what \in DataBps
    BY <1>7, <1>8
  <2>2. served(s) = {}
    BY <1>2, <1>5, <2>1
  <2>3. slots2[s] = slots[s]
    BY <1>2, <1>4, <1>6, <2>1, <2>2 DEF NoSlot
  <2> QED BY <1>7, <2>1, <2>3 DEF DataForAll
<1> QED BY <1>8 DEF DataForAll

LEMMA DataSlotsForAll == Spec => []DataForAll
<1>1. Init => DataForAll
  BY BpsAssumption DEF Init, NoSlot, DataForAll
<1>2. ASSUME IInv, DataForAll, [Next]_vars PROVE DataForAll'
  <2> USE <1>2
  <2>1. \A A : DataForAll => \A s \in Slots :
            SlotsWithout(A)[s].what \in DataBps => SlotsWithout(A)[s].tid = NoTid
    BY BpsAssumption DEF SlotsWithout, NoSlot, DataForAll
  <2>2. CASE UNCHANGED slots
    BY <2>2 DEF DataForAll
  <2>3. ASSUME NEW t \in Tids, Kernel(t) \/ HandleStop(t) PROVE UNCHANGED slots
    BY <2>3 DEF Kernel, HitHardware, HitSoftware, Deliver, StopTrap, Execute, Clone, HandleStop, table
  <2>4. ASSUME NEW t \in Tids, HandleTrap(t) PROVE DataForAll'
    <3>1. PICK truth \in BOOLEAN, done \in BOOLEAN, e \in Extensions(t) :
              HandleTrapAs(t, truth, done, e.at, e.type, e.calls)
      BY <2>4 DEF HandleTrap
    <3> DEFINE at == IF past[t] /\ ~SoftwareTrap(t) THEN Elsewhere ELSE pos[t]
               L == {at} \cap {a \in locs : refs[a] = {}}
    <3>2. slots' = SlotsWithout(L)
      BY <3>1 DEF HandleTrapAs
    <3> HIDE DEF L
    <3> QED BY <2>1, <3>2 DEF DataForAll
  <2>5. ASSUME NEW i \in DataBps, EnableData(i) PROVE DataForAll'
    <3>1. PICK s \in Slots : slots' = [slots EXCEPT ![s] = DataSlot(i)]
      BY <2>5 DEF EnableData
    <3>2. slots \in [Slots -> [what : Addrs \cup DataBps \cup {Nothing}, tid : Tids \cup {NoTid}, pushed : BOOLEAN]]
      BY DEF IInv, TypeOK
    <3> QED BY <3>1, <3>2 DEF DataForAll, DataSlot
  <2>6. ASSUME NEW i, Disable(i) PROVE DataForAll'
    <3>1. slots' = [s \in Slots |-> IF slots[s].what = i THEN NoSlot ELSE slots[s]]
      BY <2>6 DEF Disable
    <3> QED BY <3>1, BpsAssumption DEF DataForAll, NoSlot
  <2>7. ASSUME User PROVE UNCHANGED slots \/ DataForAll'
    BY <2>5, <2>6, <2>7 DEF User, EnableCode, Resume, Suspend, Step, StepToCursor
  <2> QED BY <2>2, <2>3, <2>4, <2>7, HandleBreakpointsData DEF Next, vars, table
<1> QED BY <1>1, <1>2, InvariantHolds, PTL DEF Spec

\* Whatever threads hit, execute and clone while breakpoints come and go and steps
\* begin, grow and end: memory holds int3 exactly at the active software locations,
\* every active hardware location and enabled data breakpoint has exactly one
\* debug register, what was pushed is armed in every thread, and no breakpoint
\* outlives its step.
THEOREM BreakpointsCorrect == Spec => []BreakpointsSound
<1>1. IInv => BreakpointsSound
  BY DEF IInv, BreakpointsSound, BreakpointsOwned
<1> QED BY <1>1, InvariantHolds, PTL

\* Unless all threads are on their way to a stop, every thread stops at every enabled
\* breakpoint, by int3 or by its debug registers, but for one that found no register
\* and one that joined a location whose register a step had set up for another thread.
THEOREM EnabledIsHandled == Spec => []EnabledGetsHandled
<1>1. ASSUME IInv, DataForAll, ~stopping, NEW t \in Tids, run[t] # "none", t \notin fresh
      PROVE  /\ \A i \in on \cap CodeBps :
                   \/ Where[i] \in int3 \/ \E s \in Slots : dr[t][s] = Where[i]
                   \/ Where[i] \in hard \ act
                   \/ HeldByStep(Where[i], t)
             /\ \A i \in on \cap DataBps : \E s \in Slots : dr[t][s] = i
  <2>1. Owned(slots, act \cap hard, on \cap DataBps)
    BY <1>1, OwnedIsSlotsOwned DEF IInv
  <2>2. ASSUME NEW x \in (act \cap hard) \cup (on \cap DataBps)
        PROVE  \E s \in Slots : slots[s].what = x
    BY <2>1 DEF Owned, OneSlot
  <2>3. ASSUME NEW s \in Slots, slots[s].what # Nothing
        PROVE  dr[t][s] = IF slots[s].tid \in {NoTid, t} THEN slots[s].what ELSE Nothing
    <3>1. slots[s].pushed
      BY <1>1, <2>3 DEF IInv, Placed
    <3>2. dr[t][s] = Wanted(slots, t)[s]
      BY <1>1, <2>3, <3>1 DEF IInv, SlotsArmed
    <3> QED BY <3>2 DEF Wanted
  <2>4. ASSUME NEW i \in on \cap CodeBps
        PROVE  \/ Where[i] \in int3 \/ \E s \in Slots : dr[t][s] = Where[i]
               \/ Where[i] \in hard \ act
               \/ HeldByStep(Where[i], t)
    <3>1. Where[i] \in act \cup hard
      BY <1>1 DEF IInv, Placed
    <3>2. Where[i] # Nothing
      BY BpsAssumption
    <3>3. CASE Where[i] \notin act \cap hard
      BY <1>1, <3>1, <3>3 DEF IInv, CodeIntact
    <3>4. CASE Where[i] \in act \cap hard
      <4>1. PICK s \in Slots : slots[s].what = Where[i]
        BY <2>2, <3>4
      <4>2. dr[t][s] = IF slots[s].tid \in {NoTid, t} THEN Where[i] ELSE Nothing
        BY <2>3, <3>2, <4>1
      <4>3. CASE slots[s].tid \in {NoTid, t}
        BY <4>2, <4>3
      <4>4. CASE slots[s].tid \notin {NoTid, t}
        BY <4>1, <4>4 DEF HeldByStep
      <4> QED BY <4>3, <4>4
    <3> QED BY <3>3, <3>4
  <2>5. ASSUME NEW i \in on \cap DataBps PROVE \E s \in Slots : dr[t][s] = i
    <3>1. PICK s \in Slots : slots[s].what = i
      BY <2>2
    <3>2. i # Nothing
      BY BpsAssumption
    <3>3. slots[s].tid = NoTid
      BY <1>1, <3>1 DEF DataForAll
    <3> QED BY <2>3, <3>1, <3>2, <3>3
  <2> QED BY <2>4, <2>5
<1>2. IInv /\ DataForAll => EnabledGetsHandled
  BY <1>1 DEF EnabledGetsHandled
<1> QED BY <1>2, InvariantHolds, DataSlotsForAll, PTL

(***************************************************************************)
(* No instruction is entered in the middle, if all steps are steps over    *)
(* lines: what was single-stepped is never an int3.  (Run to cursor and    *)
(* steps by one instruction can do it, see BpQueuedTrap.cfg.)              *)
(***************************************************************************)

\* A SIGTRAP is taken for what it is, and a thread that is to be single-stepped
\* over a call does not execute the int3 there: its location is a hardware one,
\* or the thread waits for handle_breakpoints() to make it one.
TrapsUnderstood ==
    \A t \in Tids :
        /\ past[t] <=> sig[t] = "int3"
        /\ dr6[t] # {} => sig[t] \in {"hw", "step"}
        /\ sig[t] = "int3" => ~single[t]
        /\ run[t] = "none" => ~single[t]
        /\ single[t] /\ sig[t] = "none" => pos[t] \notin int3 \/ (stopping /\ run[t] = "held")

LEMMA KernelTraps ==
    ASSUME IInv, TrapsUnderstood, NEW t \in Tids, Kernel(t)
    PROVE  TrapsUnderstood'
<1> USE DEF IInv, TypeOK, TrapsUnderstood, table, control, cpu
<1>1. CASE HitHardware(t)
  BY <1>1 DEF HitHardware
<1>2. CASE HitSoftware(t)
  BY <1>2 DEF HitSoftware
<1>3. CASE Deliver(t)
  BY <1>3 DEF Deliver
<1>4. CASE StopTrap(t)
  BY <1>4 DEF StopTrap
<1>5. ASSUME NEW to \in Addrs \cup {Elsewhere}, NEW touched \in SUBSET Slots, Execute(t, to, touched)
      PROVE  TrapsUnderstood'
  BY <1>5 DEF Execute
<1>6. ASSUME NEW u \in Tids, Clone(t, u) PROVE TrapsUnderstood'
  BY <1>6 DEF Clone
<1> QED BY <1>1, <1>2, <1>3, <1>4, <1>5, <1>6 DEF Kernel

\* resume_thread() single-steps nobody but in a step by one instruction.
LEMMA ResumeSingle ==
    ASSUME StepKinds \subseteq {"range"}, TypeOK, TypeOK', NEW T \in SUBSET Tids, ResumeThreads(T)
    PROVE  /\ \A t \in Tids : single'[t] = single[t]
           /\ \A t \in Tids : run'[t] = IF t \in T THEN "run" ELSE run[t]
<1>1. step'.kind # "instr"
  BY DEF TypeOK, Steps, NoStep
<1> QED BY <1>1 DEF ResumeThreads, TypeOK

\* Commands that only resume threads, and only when nobody is to be stopped.
LEMMA CommandTraps ==
    ASSUME StepKinds \subseteq {"range"}, IInv, IInv', TrapsUnderstood,
           UNCHANGED <<past, sig, dr6, pos>>, int3' \subseteq int3, stopping => stopping',
           \A t \in Tids : single'[t] = single[t],
           \A t \in Tids : run'[t] = "none" => run[t] = "none",
           \A t \in Tids : stopping /\ run[t] = "held" => run'[t] = "held"
    PROVE  TrapsUnderstood'
<1> SUFFICES ASSUME NEW t \in Tids
             PROVE  /\ past'[t] <=> sig'[t] = "int3"
                    /\ dr6'[t] # {} => sig'[t] \in {"hw", "step"}
                    /\ sig'[t] = "int3" => ~single'[t]
                    /\ run'[t] = "none" => ~single'[t]
                    /\ single'[t] /\ sig'[t] = "none" =>
                          pos'[t] \notin int3' \/ (stopping' /\ run'[t] = "held")
  BY DEF TrapsUnderstood
<1>1. single'[t] = single[t]
  OBVIOUS
<1>2. past'[t] <=> sig'[t] = "int3"
  BY DEF TrapsUnderstood
<1>3. dr6'[t] # {} => sig'[t] \in {"hw", "step"}
  BY DEF TrapsUnderstood
<1>4. sig'[t] = "int3" => ~single'[t]
  BY <1>1 DEF TrapsUnderstood
<1>5. run'[t] = "none" => ~single'[t]
  <2>1. run'[t] = "none" => run[t] = "none"
    OBVIOUS
  <2> QED BY <1>1, <2>1 DEF TrapsUnderstood
<1>6. ASSUME single'[t], sig'[t] = "none"
      PROVE  pos'[t] \notin int3' \/ (stopping' /\ run'[t] = "held")
  <2>1. pos[t] \notin int3 \/ (stopping /\ run[t] = "held")
    BY <1>1, <1>6 DEF TrapsUnderstood
  <2>2. stopping /\ run[t] = "held" => stopping' /\ run'[t] = "held"
    OBVIOUS
  <2> QED BY <2>1, <2>2
<1> QED BY <1>2, <1>3, <1>4, <1>5, <1>6

LEMMA HandleStopTraps ==
    ASSUME StepKinds \subseteq {"range"}, IInv, IInv', TrapsUnderstood, NEW t \in Tids, HandleStop(t)
    PROVE  TrapsUnderstood'
<1>1. run[t] = "stop" /\ UNCHANGED <<past, sig, dr6, pos, int3, stopping>>
  BY DEF HandleStop, table, control, cpu
<1>2. \A u \in Tids : single'[u] = single[u] /\ (IF u = t THEN run'[u] # "none" ELSE run'[u] = run[u])
  <2>1. CASE WantsRun(t)
    BY <2>1, ResumeSingle DEF HandleStop, IInv
  <2>2. CASE ~WantsRun(t)
    BY <2>2 DEF HandleStop, IInv, TypeOK
  <2> QED BY <2>1, <2>2
<1>3. \A u \in Tids : run'[u] = "none" => run[u] = "none"
  BY <1>2
<1>4. \A u \in Tids : stopping /\ run[u] = "held" => run'[u] = "held"
  BY <1>1, <1>2
<1> QED BY <1>1, <1>2, <1>3, <1>4, CommandTraps

LEMMA UserTraps ==
    ASSUME StepKinds \subseteq {"range"}, IInv, IInv', TrapsUnderstood, User
    PROVE  TrapsUnderstood'
<1>1. ASSUME NEW i \in CodeBps, EnableCode(i) PROVE TrapsUnderstood'
  BY <1>1, CommandTraps DEF EnableCode, Arrange, cpu
<1>2. ASSUME NEW i \in DataBps, EnableData(i) PROVE TrapsUnderstood'
  BY <1>2, CommandTraps DEF EnableData, Arrange, cpu
<1>3. ASSUME NEW i \in CodeBps \cup DataBps, Disable(i) PROVE TrapsUnderstood'
  BY <1>3, CommandTraps DEF Disable, cpu, control
<1>4. CASE Resume
  <2> DEFINE T == {t \in Tids : run[t] = "held" /\ WantsRun(t)'}
  <2>1. ResumeThreads(T) /\ UNCHANGED <<past, sig, dr6, pos, int3, stopping>>
    BY <1>4 DEF Resume, cpu
  <2>2. \A t \in T : run[t] = "held" /\ ~stopping'
    BY DEF WantsRun
  <2>3. T \in SUBSET Tids
    OBVIOUS
  <2> HIDE DEF T
  <2> QED BY <2>1, <2>2, <2>3, ResumeSingle, CommandTraps DEF IInv
<1>5. CASE Suspend
  BY <1>5, CommandTraps DEF Suspend, cpu
<1>6. ASSUME NEW t \in Tids, NEW kind \in StepKinds, NEW keep \in BOOLEAN, NEW A \in SUBSET Addrs,
             NEW r \in StepRefs, Step(t, kind, keep, A, r)
      PROVE  TrapsUnderstood'
  <2>1. run[t] = "held" /\ UNCHANGED <<past, sig, dr6, pos, int3>>
    BY <1>6 DEF Step, cpu
  <2> DEFINE Moves == A # {} \/ (~past[t] /\ pos[t] \in locs \ hard)
  <2>2. CASE Moves
    <3>1. stopping' = TRUE /\ run' = run
      BY <1>6, <2>2 DEF Step, Arrange
    <3>2. single' = [single EXCEPT ![t] = @ \/ (r = "call" /\ ~past[t] /\ pos[t] \in A)]
      BY <1>6, <2>2 DEF Step
    <3>3. single \in [Tids -> BOOLEAN]
      BY DEF IInv, TypeOK
    <3>4. \A u \in Tids : u # t => single'[u] = single[u]
      BY <3>2, <3>3
    <3>5. single'[t] => single[t] \/ ~past[t]
      BY <3>2, <3>3
    <3> QED BY <2>1, <3>1, <3>4, <3>5 DEF TrapsUnderstood
  <2>3. CASE ~Moves
    <3> DEFINE T == {u \in Tids : run[u] = "held" /\ WantsRun(u)'}
    <3>1. ResumeThreads(T) /\ UNCHANGED stopping
      BY <1>6, <2>3 DEF Step
    <3>2. \A u \in T : run[u] = "held" /\ ~stopping'
      BY DEF WantsRun
    <3>3. T \in SUBSET Tids
      OBVIOUS
    <3> HIDE DEF T
    <3> QED BY <2>1, <3>1, <3>2, <3>3, ResumeSingle, CommandTraps DEF IInv
  <2> QED BY <2>2, <2>3
<1>7. ASSUME NEW t \in Tids, NEW a \in Addrs, StepToCursor(t, a) PROVE TrapsUnderstood'
  BY <1>7 DEF StepToCursor
<1> QED BY <1>1, <1>2, <1>3, <1>4, <1>5, <1>6, <1>7 DEF User

\* A thread that stands on an int3 is to wait for handle_breakpoints().
LEMMA HandleTrapTraps ==
    ASSUME StepKinds \subseteq {"range"}, IInv, IInv', TrapsUnderstood, NEW t \in Tids, HandleTrap(t)
    PROVE  TrapsUnderstood'
<1>1. PICK truth \in BOOLEAN, done \in BOOLEAN, e \in Extensions(t) :
          HandleTrapAs(t, truth, done, e.at, e.type, e.calls)
  BY DEF HandleTrap
<1>2. TypeOK /\ TypeOK' /\ int3 = act \ hard
  BY DEF IInv, CodeIntact
<1>3. past[t] => SoftwareTrap(t)
  BY <1>2 DEF TrapsUnderstood, SoftwareTrap, TypeOK
<1> DEFINE isSw == SoftwareTrap(t)
           at == IF past[t] /\ ~isSw THEN Elsewhere ELSE pos[t]
           lapsed == {at} \cap {a \in locs : refs[a] = {}}
           here == IF at \in locs THEN refs[at] ELSE {}
           stop == stopping \/ at \in locs \ hard \/ e.at # {}
<1>4. at = pos[t]
  BY <1>3
<1>5. /\ run[t] = "trap"
      /\ sig' = [sig EXCEPT ![t] = "none"]
      /\ past' = [past EXCEPT ![t] = @ /\ ~isSw]
      /\ dr6' = [dr6 EXCEPT ![t] = {}]
      /\ int3' = BytesWithout(lapsed)
      /\ stopping' = stop
      /\ UNCHANGED pos
  BY <1>1 DEF HandleTrapAs
<1>6. stop => run'[t] = "held"
  BY <1>1 DEF HandleTrapAs
<1>7. \A u \in Tids \ {t} : /\ run'[u] = "none" => run[u] = "none"
                            /\ stop => run'[u] = run[u]
  BY <1>1 DEF HandleTrapAs
<1>8. \A u \in Tids \ {t} : single'[u] = single[u]
  <2>1. PICK v : single' = [single EXCEPT ![t] = v]
    BY <1>1 DEF HandleTrapAs
  <2>2. single \in [Tids -> BOOLEAN]
    BY <1>2 DEF TypeOK
  <2> QED BY <2>1, <2>2
<1>9. single'[t] => "call" \in here \/ at \in e.at
  <2>1. step # NoStep => step.kind # "instr"
    BY <1>2 DEF TypeOK, Steps
  <2>2. t \in DOMAIN single
    BY <1>2 DEF TypeOK
  <2> QED BY <1>1, <2>1, <2>2 DEF HandleTrapAs
<1> HIDE DEF isSw, at, here, stop, lapsed
<1>10. int3' \subseteq int3
  BY <1>5 DEF BytesWithout
<1>11. ASSUME NEW u \in Tids
       PROVE  /\ past'[u] <=> sig'[u] = "int3"
              /\ dr6'[u] # {} => sig'[u] \in {"hw", "step"}
              /\ sig'[u] = "int3" => ~single'[u]
              /\ run'[u] = "none" => ~single'[u]
              /\ single'[u] /\ sig'[u] = "none" =>
                    pos'[u] \notin int3' \/ (stopping' /\ run'[u] = "held")
  <2>1. CASE u # t
    <3>1. sig'[u] = sig[u] /\ past'[u] = past[u] /\ dr6'[u] = dr6[u] /\ pos'[u] = pos[u]
      BY <1>2, <1>5, <2>1 DEF TypeOK
    <3>2. single'[u] = single[u] /\ (run'[u] = "none" => run[u] = "none") /\ (stop => run'[u] = run[u])
      BY <1>7, <1>8, <2>1
    <3>3. stopping => stop
      BY DEF stop
    <3> QED BY <1>5, <1>10, <3>1, <3>2, <3>3 DEF TrapsUnderstood
  <2>2. CASE u = t
    <3>1. sig'[t] = "none" /\ dr6'[t] = {} /\ pos'[t] = pos[t]
      BY <1>2, <1>5 DEF TypeOK
    <3>2. ~past'[t]
      <4>1. past'[t] = (past[t] /\ ~isSw)
        BY <1>2, <1>5 DEF TypeOK
      <4> QED BY <1>3, <4>1 DEF isSw
    <3>3. run'[t] # "none"
      BY <1>1 DEF HandleTrapAs
    <3>4. single'[t] => at \in hard \/ stop
      BY <1>9 DEF here, stop
    <3>5. at \in hard => pos'[t] \notin int3'
      BY <1>2, <1>4, <1>10, <3>1
    <3> QED BY <1>5, <1>6, <2>2, <3>1, <3>2, <3>3, <3>4, <3>5
  <2> QED BY <2>1, <2>2
<1> QED BY <1>11 DEF TrapsUnderstood

\* handle_breakpoints() makes a hardware location of what a thread stands on.
LEMMA HandleBreakpointsTraps ==
    ASSUME StepKinds \subseteq {"range"}, IInv, IInv', TrapsUnderstood, HandleBreakpoints
    PROVE  TrapsUnderstood'
<1> DEFINE empty == {a \in locs : refs[a] = {}}
           left == locs \ empty
           stand == {pos[t] : t \in {u \in Tids : run[u] = "held" /\ ~past[u]}}
           soften == (left \cap hard) \ stand
           harden == (left \cap stand) \ hard
           hard1 == ((left \cap hard) \ soften) \cup harden
           T == {t \in Tids : run[t] = "held" /\ WantsRun(t)'}
<1>1. /\ AllHeld /\ int3' = BytesWithout(empty \cup harden) \cup (left \ hard1)
      /\ UNCHANGED <<past, sig, pos, dr6>> /\ ResumeThreads(T)
  BY DEF HandleBreakpoints, cpu
<1>2. (left \ hard1) \cap stand = {}
  OBVIOUS
<1>3. BytesWithout(empty \cup harden) \cap stand = {}
  <2>1. BytesWithout(empty \cup harden) = (act \ hard) \ (((empty \cup harden) \cap act) \ hard)
    BY DEF BytesWithout, IInv, CodeIntact
  <2>2. act \subseteq locs
    BY DEF IInv, TypeOK
  <2> QED BY <2>1, <2>2
<1>4. int3' \cap stand = {}
  BY <1>1, <1>2, <1>3
<1>5. \A t \in Tids : run[t] = "held" /\ ~past[t] => pos[t] \in stand
  OBVIOUS
<1>6. T \in SUBSET Tids /\ \A t \in T : run[t] = "held"
  OBVIOUS
<1> HIDE DEF stand, T
<1>7. \A t \in Tids : single'[t] = single[t] /\ (run'[t] = "none" <=> run[t] = "none")
  BY <1>1, <1>6, ResumeSingle DEF IInv
<1>8. \A t \in Tids : run[t] # "none" => run[t] = "held"
  <2>1. \A t \in Tids : run[t] \notin {"run", "stop", "trap"}
    BY <1>1 DEF AllHeld, RunningThreads
  <2> QED BY <2>1 DEF IInv, TypeOK
<1>9. ASSUME NEW t \in Tids, single'[t], sig'[t] = "none" PROVE pos'[t] \notin int3'
  <2>1. single[t] /\ sig[t] = "none"
    BY <1>1, <1>7, <1>9
  <2>2. run[t] = "held" /\ ~past[t]
    BY <1>8, <2>1 DEF TrapsUnderstood
  <2> QED BY <1>1, <1>4, <1>5, <2>2
<1> QED BY <1>1, <1>7, <1>9 DEF TrapsUnderstood

\* With steps over lines only, no thread goes on in the middle of an instruction
\* whose first byte was an int3, and none skips it: the SIGTRAP that moves RIP back
\* is taken for one of int3, also when it was queued while the thread was stopped
\* for another reason and the breakpoint is gone by then.
THEOREM LineStepsBreakNoThread ==
    ASSUME StepKinds \subseteq {"range"}
    PROVE  Spec => []NoBrokenThread
<1>1. Init => TrapsUnderstood
  BY DEF Init, TrapsUnderstood
<1>2. IInv /\ IInv' /\ TrapsUnderstood /\ [Next]_vars => TrapsUnderstood'
  <2> SUFFICES ASSUME IInv, IInv', TrapsUnderstood, [Next]_vars PROVE TrapsUnderstood'
    OBVIOUS
  <2>1. ASSUME NEW t \in Tids, Kernel(t) \/ HandleStop(t) \/ HandleTrap(t) PROVE TrapsUnderstood'
    BY <2>1, KernelTraps, HandleStopTraps, HandleTrapTraps
  <2>2. CASE UNCHANGED vars
    BY <2>2 DEF vars, TrapsUnderstood, cpu, table, control
  <2> QED BY <2>1, <2>2, HandleBreakpointsTraps, UserTraps DEF Next
<1>3. TrapsUnderstood => NoBrokenThread
  BY DEF TrapsUnderstood, NoBrokenThread
<1> QED BY <1>1, <1>2, <1>3, InvariantHolds, PTL DEF Spec
=============================================================================
