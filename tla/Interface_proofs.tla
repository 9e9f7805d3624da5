-------------------------- MODULE Interface_proofs --------------------------
(***************************************************************************)
(* Three components of MCInterface.                                        *)
(*                                                                         *)
(* PoolSound holds in every reachable state of Pool, for any set of values *)
(* and any number of calls.  IdsExact alone is not inductive: that a new   *)
(* id does not revive an old one rests on sequence numbers only growing    *)
(* (SeqnosGrow), that an entry whose slot moved on is gone, and that every *)
(* value in a slot was added and not yet removed (SlotsAreAdded).          *)
(*                                                                         *)
(* SessionsSound for any number of processes, directories and versions:    *)
(* no two processes write the same directory (Locked), what is renamed to  *)
(* "state" is complete (Complete), and a process that has no event to read *)
(* has read the last contents of the configuration (Followed).             *)
(*                                                                         *)
(* FocusRight for any number of threads: the selection goes by stop counts *)
(* noted earlier, so the invariant says that no noted count is ahead of    *)
(* its thread (CountsNoted), that by these counts exactly those threads    *)
(* are new that stopped since the last frame (AlarmsUnseen), and that what *)
(* the stack window remembers is where the user was (FramesWanted).        *)
(***************************************************************************)
EXTENDS Pool, Sessions, Focus, TLAPS, FiniteSetTheorems, SequenceTheorems

\* Sequence numbers in use are below the next one, and an entry never
\* outruns its slot.
SeqnosGrow ==
    /\ \A s \in DOMAIN slots : slots[s].seqno < nextSeqno
    /\ \A e \in added : e.slot \in DOMAIN slots /\ e.seqno <= slots[e.slot].seqno

\* An entry is in its slot until it is gone.
EntriesInSlots ==
    \A e \in added :
        IF slots[e.slot].seqno = e.seqno
        THEN slots[e.slot].val = IF e \in gone THEN NoValue ELSE e.val
        ELSE e \in gone

\* What a slot holds was added and is not gone.
SlotsAreAdded ==
    \A s \in DOMAIN slots : slots[s].val # NoValue =>
        [slot |-> s, seqno |-> slots[s].seqno, val |-> slots[s].val] \in added

ClearingInRange == clearing \in 0 .. Len(slots)

\* The vacant stack, without set comprehension.
VacantInj == \A i, j \in DOMAIN vacant : vacant[i] = vacant[j] => i = j
VacantEmpty ==
    \A i \in DOMAIN vacant :
        vacant[i] \in DOMAIN slots /\ slots[vacant[i]].val = NoValue
EmptyVacant ==
    \A s \in DOMAIN slots :
        slots[s].val = NoValue => \E i \in DOMAIN vacant : vacant[i] = s

PoolInv ==
    /\ TypeOK
    /\ SeqnosGrow
    /\ EntriesInSlots
    /\ SlotsAreAdded
    /\ ClearingInRange
    /\ VacantInj
    /\ VacantEmpty
    /\ EmptyVacant

-----------------------------------------------------------------------------

\* The initial, empty pool satisfies the invariant.
LEMMA PoolInvInit == Init => PoolInv
  BY PoolAssumption
  DEF Init, PoolInv, TypeOK, SeqnosGrow, EntriesInSlots, SlotsAreAdded,
      ClearingInRange, VacantInj, VacantEmpty, EmptyVacant, Entries

\* Emptying an occupied slot keeps the free list exact.
LEMMA VacateFreeList ==
  ASSUME NEW s \in DOMAIN slots, PoolInv, slots[s].val # NoValue, Vacate(s)
  PROVE  VacantInj' /\ VacantEmpty' /\ EmptyVacant'
  <1>1. /\ slots \in Seq(SlotRecords)
        /\ vacant \in Seq(Nat)
        /\ VacantInj /\ VacantEmpty /\ EmptyVacant
    BY DEF PoolInv, TypeOK
  <1>2. /\ slots' = [slots EXCEPT ![s].val = NoValue]
        /\ vacant' = Append(vacant, s)
    BY DEF Vacate
  <1>3. DOMAIN slots' = DOMAIN slots
    BY <1>1, <1>2
  <1>4. \A t \in DOMAIN slots : slots'[t].val = IF t = s THEN NoValue ELSE slots[t].val
    BY <1>1, <1>2
  <1>5. /\ DOMAIN vacant = 1 .. Len(vacant) /\ Len(vacant) \in Nat
        /\ DOMAIN vacant' = 1 .. Len(vacant) + 1
        /\ \A i \in DOMAIN vacant : vacant'[i] = vacant[i]
        /\ vacant'[Len(vacant) + 1] = s
    BY <1>1, <1>2
  <1>6. \A i \in DOMAIN vacant : vacant[i] # s
    BY <1>1 DEF VacantEmpty
  <1>7. VacantInj'
    BY <1>1, <1>5, <1>6 DEF VacantInj
  <1>8. VacantEmpty'
    <2> SUFFICES ASSUME NEW i \in DOMAIN vacant'
                 PROVE  vacant'[i] \in DOMAIN slots /\ slots'[vacant'[i]].val = NoValue
      BY <1>3 DEF VacantEmpty
    <2>1. CASE i = Len(vacant) + 1
      BY <2>1, <1>4, <1>5
    <2>2. CASE i \in DOMAIN vacant
      <3>1. vacant[i] \in DOMAIN slots /\ slots[vacant[i]].val = NoValue
        BY <2>2, <1>1 DEF VacantEmpty
      <3> QED BY <3>1, <2>2, <1>4, <1>5
    <2> QED BY <2>1, <2>2, <1>5
  <1>9. EmptyVacant'
    <2> SUFFICES ASSUME NEW t \in DOMAIN slots', slots'[t].val = NoValue
                 PROVE  \E i \in DOMAIN vacant' : vacant'[i] = t
      BY DEF EmptyVacant
    <2>1. CASE t = s
      BY <2>1, <1>5
    <2>2. CASE t # s
      <3>1. PICK i \in DOMAIN vacant : vacant[i] = t
        BY <2>2, <1>1, <1>3, <1>4 DEF EmptyVacant
      <3> QED BY <3>1, <1>5
    <2> QED BY <2>1, <2>2
  <1> QED BY <1>7, <1>8, <1>9

\* Emptying a slot by the entry that fills it keeps the other parts, once
\* that entry is recorded as gone.
LEMMA VacateEntries ==
  ASSUME NEW s \in DOMAIN slots, PoolInv, slots[s].val # NoValue, Vacate(s),
         added' = added, nextSeqno' = nextSeqno,
         gone \subseteq gone', gone' \subseteq added,
         [slot |-> s, seqno |-> slots[s].seqno, val |-> slots[s].val] \in gone',
         \A e \in gone' \ gone : e.slot = s
  PROVE  SeqnosGrow' /\ EntriesInSlots' /\ SlotsAreAdded'
  <1>1. /\ slots \in Seq(SlotRecords)
        /\ added \in SUBSET Entries
        /\ SeqnosGrow /\ EntriesInSlots /\ SlotsAreAdded
    BY DEF PoolInv, TypeOK
  <1>2. slots' = [slots EXCEPT ![s].val = NoValue]
    BY DEF Vacate
  <1>3. DOMAIN slots' = DOMAIN slots
    BY <1>1, <1>2
  <1>4. \A t \in DOMAIN slots :
          /\ slots'[t].val = IF t = s THEN NoValue ELSE slots[t].val
          /\ slots'[t].seqno = slots[t].seqno
    BY <1>1, <1>2
  <1>5. SeqnosGrow'
    BY <1>1, <1>3, <1>4 DEF SeqnosGrow
  <1>6. SlotsAreAdded'
    BY <1>1, <1>3, <1>4 DEF SlotsAreAdded
  <1>7. EntriesInSlots'
    <2> SUFFICES ASSUME NEW e \in added
                 PROVE  IF slots'[e.slot].seqno = e.seqno
                        THEN slots'[e.slot].val = IF e \in gone' THEN NoValue ELSE e.val
                        ELSE e \in gone'
      BY DEF EntriesInSlots
    <2>1. /\ e.slot \in DOMAIN slots
          /\ IF slots[e.slot].seqno = e.seqno
             THEN slots[e.slot].val = IF e \in gone THEN NoValue ELSE e.val
             ELSE e \in gone
      BY <1>1 DEF SeqnosGrow, EntriesInSlots
    <2>2. CASE e.slot # s
      BY <2>1, <2>2, <1>4
    <2>3. CASE e.slot = s /\ e.seqno # slots[s].seqno
      BY <2>1, <2>3, <1>4
    <2>4. CASE e.slot = s /\ e.seqno = slots[s].seqno
      <3>1. e.val = slots[s].val
        BY <2>1, <2>4
      <3>2. e = [slot |-> s, seqno |-> slots[s].seqno, val |-> slots[s].val]
        BY <3>1, <2>4, <1>1 DEF Entries
      <3> QED BY <3>2, <2>1, <2>4, <1>4
    <2> QED BY <2>2, <2>3, <2>4
  <1> QED BY <1>5, <1>6, <1>7

\* Emptying a slot keeps the types.
LEMMA VacateTypes ==
  ASSUME NEW s \in DOMAIN slots, PoolInv, Vacate(s)
  PROVE  /\ slots' \in Seq(SlotRecords)
         /\ vacant' \in Seq(Nat)
         /\ Len(slots') = Len(slots)
  <1>1. /\ slots \in Seq(SlotRecords)
        /\ vacant \in Seq(Nat)
    BY DEF PoolInv, TypeOK
  <1>2. /\ slots' = [slots EXCEPT ![s].val = NoValue]
        /\ vacant' = Append(vacant, s)
    BY DEF Vacate
  <1>3. s \in Nat /\ s \in 1 .. Len(slots) /\ Len(slots) \in Nat
    BY <1>1
  <1>4. slots[s] \in SlotRecords
    BY <1>1, <1>3
  <1>5. /\ slots' = [slots EXCEPT ![s] = [slots[s] EXCEPT !.val = NoValue]]
        /\ [slots[s] EXCEPT !.val = NoValue] \in SlotRecords
    BY <1>2, <1>4 DEF SlotRecords
  <1>6. slots' \in Seq(SlotRecords) /\ Len(slots') = Len(slots)
    BY <1>1, <1>3, <1>5
  <1>7. vacant' \in Seq(Nat)
    BY <1>1, <1>2, <1>3
  <1> QED BY <1>6, <1>7

\* A call of add() keeps the invariant, whether it reuses a slot or grows.
LEMMA AddKeeps ==
  ASSUME NEW v \in Values, PoolInv, Add(v)
  PROVE  PoolInv'
  <1>1. /\ slots \in Seq(SlotRecords) /\ vacant \in Seq(Nat) /\ nextSeqno \in Nat
        /\ added \in SUBSET Entries /\ gone \in SUBSET added
        /\ SeqnosGrow /\ EntriesInSlots /\ SlotsAreAdded /\ ClearingInRange
        /\ VacantInj /\ VacantEmpty /\ EmptyVacant
    BY DEF PoolInv, TypeOK
  <1>2. /\ clearing = 0 /\ clearing' = 0 /\ gone' = gone /\ nextSeqno' = nextSeqno + 1
        /\ AddReuses(v) \/ AddGrows(v)
    BY DEF Add
  <1> DEFINE new == [seqno |-> nextSeqno, val |-> v]
             at == IF vacant # <<>> THEN vacant[Len(vacant)] ELSE Len(slots) + 1
             entry == [slot |-> at, seqno |-> nextSeqno, val |-> v]
  <1>3. new \in SlotRecords /\ v # NoValue
    BY <1>1, PoolAssumption DEF SlotRecords
  <1>4. /\ slots' \in Seq(SlotRecords)
        /\ at \in Nat /\ at \in DOMAIN slots' /\ slots'[at] = new
        /\ \A t \in DOMAIN slots : t \in DOMAIN slots' /\ (t # at => slots'[t] = slots[t])
        /\ \A t \in DOMAIN slots' : t = at \/ t \in DOMAIN slots
        /\ at \in DOMAIN slots => slots[at].val = NoValue
        /\ added' = added \union {entry}
        /\ Len(slots') \in Nat
    <2>1. CASE AddReuses(v)
      <3>1. /\ vacant # <<>> /\ slots' = [slots EXCEPT ![at] = new]
            /\ added' = added \union {entry}
        BY <2>1 DEF AddReuses, Refill
      <3>2. Len(vacant) \in DOMAIN vacant
        BY <3>1, <1>1
      <3>3. at \in DOMAIN slots /\ slots[at].val = NoValue
        BY <3>1, <3>2, <1>1 DEF VacantEmpty
      <3>4. DOMAIN slots = 1 .. Len(slots) /\ Len(slots) \in Nat
        BY <1>1
      <3>5. slots' \in Seq(SlotRecords) /\ DOMAIN slots' = DOMAIN slots /\ Len(slots') = Len(slots)
        BY <3>1, <3>3, <3>4, <1>1, <1>3
      <3> QED BY <3>1, <3>3, <3>4, <3>5, <1>1
    <2>2. CASE AddGrows(v)
      <3>1. /\ vacant = <<>> /\ slots' = Append(slots, new)
            /\ added' = added \union {entry} /\ at = Len(slots) + 1
        BY <2>2 DEF AddGrows
      <3> HIDE DEF new
      <3>2. /\ slots' \in Seq(SlotRecords) /\ Len(slots') = Len(slots) + 1
            /\ DOMAIN slots' = 1 .. Len(slots) + 1 /\ DOMAIN slots = 1 .. Len(slots)
            /\ Len(slots) \in Nat
            /\ slots'[Len(slots) + 1] = new
            /\ \A t \in 1 .. Len(slots) : slots'[t] = slots[t]
        BY <3>1, <1>1, <1>3
      <3> QED BY <3>1, <3>2
    <2> QED BY <1>2, <2>1, <2>2
  <1>5. entry \in Entries
    BY <1>1, <1>4 DEF Entries
  <1>6. \A e \in added : e.seqno < nextSeqno /\ e.seqno \in Nat /\ e.slot \in DOMAIN slots
    <2> SUFFICES ASSUME NEW e \in added
                 PROVE  e.seqno < nextSeqno /\ e.seqno \in Nat /\ e.slot \in DOMAIN slots
      OBVIOUS
    <2>1. e.slot \in DOMAIN slots /\ e.seqno <= slots[e.slot].seqno /\ slots[e.slot].seqno < nextSeqno
      BY <1>1 DEF SeqnosGrow
    <2>2. e.seqno \in Nat
      BY <1>1 DEF Entries
    <2>3. slots[e.slot] \in SlotRecords
      BY <1>1, <2>1
    <2>4. slots[e.slot].seqno \in Nat
      BY <2>3 DEF SlotRecords
    <2> QED BY <2>1, <2>2, <2>4, <1>1
  <1>7. entry \notin added /\ entry \notin gone
    BY <1>1, <1>6
  <1> HIDE DEF entry
  <1>e. entry.slot = at /\ entry.seqno = nextSeqno /\ entry.val = v
    BY DEF entry
  <1>n. new.seqno = nextSeqno /\ new.val = v
    OBVIOUS
  <1> HIDE DEF at, new
  <1>8. TypeOK'
    <2>1. vacant' \in Seq(Nat)
      <3>1. CASE AddReuses(v)
        <4>1. vacant # <<>> /\ vacant' = SubSeq(vacant, 1, Len(vacant) - 1)
          BY <3>1 DEF AddReuses
        <4>2. Len(vacant) \in Nat \ {0} /\ \A i \in 1 .. Len(vacant) : vacant[i] \in Nat
          BY <4>1, <1>1
        <4> QED BY <4>1, <4>2, <1>1
      <3>2. CASE AddGrows(v)
        BY <3>2, <1>1 DEF AddGrows
      <3> QED BY <3>1, <3>2, <1>2
    <2>2. added' \in SUBSET Entries /\ gone' \in SUBSET added'
      BY <1>1, <1>2, <1>4, <1>5
    <2>3. nextSeqno' \in Nat /\ clearing' \in Nat
      BY <1>1, <1>2
    <2> QED BY <1>4, <2>1, <2>2, <2>3 DEF TypeOK
  <1>9. SeqnosGrow'
    <2>1. \A t \in DOMAIN slots : slots[t].seqno \in Nat
      <3> SUFFICES ASSUME NEW t \in DOMAIN slots PROVE slots[t].seqno \in Nat
        OBVIOUS
      <3>1. slots[t] \in SlotRecords
        BY <1>1
      <3> QED BY <3>1 DEF SlotRecords
    <2>2. ASSUME NEW t \in DOMAIN slots' PROVE slots'[t].seqno < nextSeqno'
      <3>1. CASE t = at
        BY <3>1, <1>1, <1>2, <1>4, <1>n
      <3>2. CASE t # at
        BY <3>2, <2>1, <1>1, <1>2, <1>4 DEF SeqnosGrow
      <3> QED BY <3>1, <3>2
    <2>3. ASSUME NEW e \in added'
          PROVE  e.slot \in DOMAIN slots' /\ e.seqno <= slots'[e.slot].seqno
      <3>1. CASE e = entry
        BY <3>1, <1>1, <1>4, <1>e, <1>n
      <3>2. CASE e \in added /\ e.slot = at
        BY <3>2, <1>1, <1>4, <1>6, <1>n
      <3>3. CASE e \in added /\ e.slot # at
        BY <3>3, <1>1, <1>4, <1>6 DEF SeqnosGrow
      <3> QED BY <3>1, <3>2, <3>3, <1>4
    <2> QED BY <2>2, <2>3 DEF SeqnosGrow
  <1>10. EntriesInSlots'
    <2> SUFFICES ASSUME NEW e \in added'
                 PROVE  IF slots'[e.slot].seqno = e.seqno
                        THEN slots'[e.slot].val = IF e \in gone THEN NoValue ELSE e.val
                        ELSE e \in gone
      BY <1>2 DEF EntriesInSlots
    <2>1. CASE e = entry
      BY <2>1, <1>4, <1>7, <1>e, <1>n
    <2>2. CASE e \in added /\ e.slot # at
      BY <2>2, <1>1, <1>4, <1>6 DEF EntriesInSlots
    <2>3. CASE e \in added /\ e.slot = at
      <3>1. slots'[e.slot].seqno # e.seqno
        BY <2>3, <1>1, <1>4, <1>6, <1>n
      <3>2. e.val # NoValue
        BY <2>3, <1>1, PoolAssumption DEF Entries
      <3>3. e \in gone
        BY <2>3, <3>2, <1>1, <1>4, <1>6 DEF EntriesInSlots
      <3> QED BY <3>1, <3>3
    <2> QED BY <2>1, <2>2, <2>3, <1>4
  <1>11. SlotsAreAdded'
    <2> SUFFICES ASSUME NEW t \in DOMAIN slots', slots'[t].val # NoValue
                 PROVE  [slot |-> t, seqno |-> slots'[t].seqno, val |-> slots'[t].val] \in added'
      BY DEF SlotsAreAdded
    <2>1. CASE t = at
      BY <2>1, <1>4, <1>n DEF entry
    <2>2. CASE t # at
      BY <2>2, <1>1, <1>4 DEF SlotsAreAdded
    <2> QED BY <2>1, <2>2
  <1>12. ClearingInRange'
    BY <1>2, <1>4 DEF ClearingInRange
  <1>13. VacantInj' /\ VacantEmpty' /\ EmptyVacant'
    <2>1. CASE AddGrows(v)
      <3>1. vacant = <<>> /\ vacant' = <<>>
        BY <2>1 DEF AddGrows
      <3>2. \A t \in DOMAIN slots : slots[t].val # NoValue
        BY <3>1, <1>1 DEF EmptyVacant
      <3>3. EmptyVacant'
        BY <3>2, <1>3, <1>4, <1>n DEF EmptyVacant
      <3> QED BY <3>1, <3>3 DEF VacantInj, VacantEmpty
    <2>2. CASE AddReuses(v)
      <3>1. vacant # <<>> /\ vacant' = SubSeq(vacant, 1, Len(vacant) - 1) /\ at = vacant[Len(vacant)]
        BY <2>2 DEF AddReuses, at
      <3>2. /\ Len(vacant) \in Nat \ {0} /\ DOMAIN vacant = 1 .. Len(vacant)
            /\ DOMAIN vacant' = 1 .. Len(vacant) - 1
            /\ \A i \in DOMAIN vacant' : vacant'[i] = vacant[i]
        BY <3>1, <1>1
      <3>3. \A i \in DOMAIN vacant' : i \in DOMAIN vacant /\ vacant[i] # at
        BY <3>1, <3>2, <1>1 DEF VacantInj
      <3>4. VacantInj'
        BY <3>2, <3>3, <1>1 DEF VacantInj
      <3>5. VacantEmpty'
        BY <3>2, <3>3, <1>1, <1>4 DEF VacantEmpty
      <3>6. EmptyVacant'
        <4> SUFFICES ASSUME NEW t \in DOMAIN slots', slots'[t].val = NoValue
                     PROVE  \E i \in DOMAIN vacant' : vacant'[i] = t
          BY DEF EmptyVacant
        <4>1. t # at /\ t \in DOMAIN slots /\ slots[t].val = NoValue
          BY <1>3, <1>4, <1>n
        <4>2. PICK i \in DOMAIN vacant : vacant[i] = t
          BY <4>1, <1>1 DEF EmptyVacant
        <4>3. i # Len(vacant)
          BY <4>1, <4>2, <3>1
        <4> QED BY <4>2, <4>3, <3>2
      <3> QED BY <3>4, <3>5, <3>6
    <2> QED BY <1>2, <2>1, <2>2
  <1> QED BY <1>8, <1>9, <1>10, <1>11, <1>12, <1>13 DEF PoolInv

\* A call of remove(), with a live or a stale id, keeps the invariant.
LEMMA RemoveKeeps ==
  ASSUME NEW e \in added, PoolInv, Remove(e)
  PROVE  PoolInv'
  <1>1. /\ slots \in Seq(SlotRecords) /\ vacant \in Seq(Nat) /\ nextSeqno \in Nat
        /\ added \in SUBSET Entries /\ gone \in SUBSET added /\ clearing \in Nat
        /\ SeqnosGrow /\ EntriesInSlots /\ SlotsAreAdded /\ ClearingInRange
        /\ VacantInj /\ VacantEmpty /\ EmptyVacant
    BY DEF PoolInv, TypeOK
  <1>2. /\ gone' = gone \union {e} /\ added' = added
        /\ nextSeqno' = nextSeqno /\ clearing' = clearing
        /\ RemoveFrom(e.slot, e.seqno)
    BY DEF Remove
  <1>3. CASE TryGet(e.slot, e.seqno) # NoValue
    <2>1. /\ e.slot \in DOMAIN slots /\ slots[e.slot].seqno = e.seqno
          /\ slots[e.slot].val # NoValue /\ Vacate(e.slot)
      BY <1>2, <1>3 DEF TryGet, Occupied, RemoveFrom
    <2>2. e.val = slots[e.slot].val
      BY <2>1, <1>1 DEF EntriesInSlots
    <2>3. e = [slot |-> e.slot, seqno |-> slots[e.slot].seqno, val |-> slots[e.slot].val]
      BY <2>1, <2>2, <1>1 DEF Entries
    <2>4. SeqnosGrow' /\ EntriesInSlots' /\ SlotsAreAdded'
      BY <2>1, <2>3, <1>1, <1>2, VacateEntries
    <2>5. VacantInj' /\ VacantEmpty' /\ EmptyVacant'
      BY <2>1, VacateFreeList
    <2>6. /\ slots' \in Seq(SlotRecords) /\ vacant' \in Seq(Nat)
          /\ Len(slots') = Len(slots)
      BY <2>1, VacateTypes
    <2>7. TypeOK' /\ ClearingInRange'
      BY <2>6, <1>1, <1>2 DEF TypeOK, ClearingInRange
    <2> QED BY <2>4, <2>5, <2>7 DEF PoolInv
  <1>4. CASE TryGet(e.slot, e.seqno) = NoValue
    <2>1. slots' = slots /\ vacant' = vacant
      BY <1>2, <1>4 DEF RemoveFrom
    <2>2. e \in gone
      <3>1. e.slot \in DOMAIN slots /\ e.val # NoValue
        BY <1>1, PoolAssumption DEF SeqnosGrow, Entries
      <3> QED BY <3>1, <1>1, <1>4 DEF TryGet, Occupied, EntriesInSlots
    <2>3. gone' = gone
      BY <2>2, <1>2
    <2> QED BY <2>1, <2>3, <1>1, <1>2
        DEF PoolInv, TypeOK, SeqnosGrow, EntriesInSlots, SlotsAreAdded,
            ClearingInRange, VacantInj, VacantEmpty, EmptyVacant
  <1> QED BY <1>3, <1>4

\* One iteration of the loop of clear() keeps the invariant.
LEMMA ClearSlotKeeps ==
  ASSUME PoolInv, ClearSlot
  PROVE  PoolInv'
  <1>1. /\ slots \in Seq(SlotRecords) /\ vacant \in Seq(Nat) /\ nextSeqno \in Nat
        /\ added \in SUBSET Entries /\ gone \in SUBSET added /\ clearing \in Nat
        /\ SeqnosGrow /\ EntriesInSlots /\ SlotsAreAdded /\ ClearingInRange
        /\ VacantInj /\ VacantEmpty /\ EmptyVacant
    BY DEF PoolInv, TypeOK
  <1>2. /\ gone' = gone \union {e \in added : e.slot = clearing}
        /\ added' = added /\ nextSeqno' = nextSeqno /\ clearing # 0
        /\ clearing' = IF clearing = Len(slots) THEN 0 ELSE clearing + 1
    BY DEF ClearSlot
  <1>3. /\ clearing \in DOMAIN slots /\ Len(slots) \in Nat
        /\ clearing' \in Nat /\ clearing' \in 0 .. Len(slots)
    BY <1>1, <1>2 DEF ClearingInRange
  <1>4. CASE slots[clearing].val # NoValue
    <2>1. Vacate(clearing)
      BY <1>4 DEF ClearSlot
    <2>2. [slot |-> clearing, seqno |-> slots[clearing].seqno, val |-> slots[clearing].val]
            \in gone'
      BY <1>1, <1>2, <1>3, <1>4 DEF SlotsAreAdded
    <2>3. gone \subseteq gone' /\ gone' \subseteq added /\ \A e \in gone' \ gone : e.slot = clearing
      BY <1>1, <1>2
    <2>4. SeqnosGrow' /\ EntriesInSlots' /\ SlotsAreAdded'
      BY <2>1, <2>2, <2>3, <1>2, <1>3, <1>4, VacateEntries
    <2>5. VacantInj' /\ VacantEmpty' /\ EmptyVacant'
      BY <2>1, <1>3, <1>4, VacateFreeList
    <2>6. /\ slots' \in Seq(SlotRecords) /\ vacant' \in Seq(Nat)
          /\ Len(slots') = Len(slots)
      BY <2>1, <1>3, VacateTypes
    <2>7. TypeOK' /\ ClearingInRange'
      BY <2>3, <2>6, <1>1, <1>2, <1>3 DEF TypeOK, ClearingInRange
    <2> QED BY <2>4, <2>5, <2>7 DEF PoolInv
  <1>5. CASE slots[clearing].val = NoValue
    <2>1. slots' = slots /\ vacant' = vacant
      BY <1>5 DEF ClearSlot
    <2>2. \A e \in added : e.slot = clearing => e \in gone
      <3> SUFFICES ASSUME NEW e \in added, e.slot = clearing PROVE e \in gone
        OBVIOUS
      <3>1. e.val # NoValue
        BY <1>1, PoolAssumption DEF Entries
      <3> QED BY <3>1, <1>1, <1>5 DEF EntriesInSlots
    <2>3. gone' = gone
      BY <2>2, <1>2
    <2> QED BY <2>1, <2>3, <1>1, <1>2, <1>3
        DEF PoolInv, TypeOK, SeqnosGrow, EntriesInSlots, SlotsAreAdded,
            ClearingInRange, VacantInj, VacantEmpty, EmptyVacant
  <1> QED BY <1>4, <1>5

\* The invariant says that ids, iteration and the free list are exact.
LEMMA PoolInvImplies == PoolInv => PoolExact
  <1> SUFFICES ASSUME PoolInv PROVE PoolExact
    OBVIOUS
  <1>1. /\ added \in SUBSET Entries /\ gone \in SUBSET added
        /\ SeqnosGrow /\ EntriesInSlots /\ SlotsAreAdded
        /\ VacantInj /\ VacantEmpty /\ EmptyVacant
    BY DEF PoolInv, TypeOK
  <1>2. IdsExact
    BY <1>1 DEF IdsExact, TryGet, Occupied, SeqnosGrow, EntriesInSlots
  <1>3. IterExact
    <2>1. ASSUME NEW x \in Iter PROVE x \in added \ gone
      <3>1. PICK s \in DOMAIN slots :
              /\ slots[s].val # NoValue
              /\ x = [slot |-> s, seqno |-> slots[s].seqno, val |-> slots[s].val]
        BY <2>1 DEF Iter
      <3>2. x \in added
        BY <3>1, <1>1 DEF SlotsAreAdded
      <3>3. x.slot = s /\ x.seqno = slots[s].seqno
        BY <3>1
      <3>4. x \notin gone
        BY <3>1, <3>2, <3>3, <1>1 DEF EntriesInSlots
      <3> QED BY <3>2, <3>4
    <2>2. ASSUME NEW e \in added \ gone PROVE e \in Iter
      <3>1. /\ e.slot \in DOMAIN slots /\ slots[e.slot].seqno = e.seqno
            /\ slots[e.slot].val = e.val
        BY <1>1 DEF SeqnosGrow, EntriesInSlots
      <3>2. e.val # NoValue
        BY <1>1, PoolAssumption DEF Entries
      <3>3. e = [slot |-> e.slot, seqno |-> slots[e.slot].seqno, val |-> slots[e.slot].val]
        BY <3>1, <1>1 DEF Entries
      <3> QED BY <3>1, <3>2, <3>3 DEF Iter
    <2> QED BY <2>1, <2>2 DEF IterExact
  <1>4. VacantExact
    BY <1>1 DEF VacantExact, VacantInj, VacantEmpty, EmptyVacant
  <1> QED BY <1>2, <1>3, <1>4 DEF PoolExact

\* Stale ids stay dead, live ids find their value, iteration is complete and
\* the free list is exact, after any sequence of calls of add(), remove() and
\* clear() on a pool of any size.
THEOREM PoolIsExact == Spec => []PoolSound
  <1>1. Init => PoolInv
    BY PoolInvInit
  <1>2. PoolInv /\ [Next]_poolVars => PoolInv'
    <2> SUFFICES ASSUME PoolInv, [Next]_poolVars PROVE PoolInv'
      OBVIOUS
    <2>1. ASSUME NEW v \in Values, Add(v) PROVE PoolInv'
      BY <2>1, AddKeeps
    <2>2. ASSUME NEW e \in added, Remove(e) PROVE PoolInv'
      BY <2>2, RemoveKeeps
    <2>3. CASE ClearBegins
      BY <2>3
      DEF ClearBegins, PoolInv, TypeOK, SeqnosGrow, EntriesInSlots, SlotsAreAdded,
          ClearingInRange, VacantInj, VacantEmpty, EmptyVacant
    <2>4. CASE ClearSlot
      BY <2>4, ClearSlotKeeps
    <2>5. CASE UNCHANGED poolVars
      BY <2>5
      DEF poolVars, PoolInv, TypeOK, SeqnosGrow, EntriesInSlots, SlotsAreAdded,
          ClearingInRange, VacantInj, VacantEmpty, EmptyVacant
    <2> QED BY <2>1, <2>2, <2>3, <2>4, <2>5 DEF Next
  <1>3. PoolInv => PoolSound
    BY PoolInvImplies DEF PoolInv, PoolSound
  <1> QED BY <1>1, <1>2, <1>3, PTL DEF Spec

-----------------------------------------------------------------------------
(* Saved state of several debugger processes.                               *)

Owning == {"load", "keys", "restore", "idle", "write", "rename", "reread"}
Restored == {"idle", "write", "rename", "reread"}
Configured == {"restore", "idle", "write", "rename"}

\* A process past try_init() holds the lock of its directory.
Locked == \A p \in Procs : pc[p] \in Owning => owner[dir[p]] = p

\* Nothing counts as saved before the state was restored.
NothingYet == \A p \in Procs : hash[p] # 0 => pc[p] \in Restored

\* state.tmp is complete when it is renamed.
Complete ==
    \A p \in Procs : /\ pc[p] \in {"write", "rename"} => buf[p] \in Versions
                     /\ pc[p] = "rename" => tmp[dir[p]] = buf[p]

\* Who has read the configuration watches it, and uses it unless an event waits.
Followed ==
    \A p \in Procs : /\ pc[p] \in Owning \ {"load"} => watch[p] = TRUE
                     /\ pc[p] \in Configured /\ events[p] = FALSE /\ file # Bad => binds[p] = file

SessionsInv ==
    SessionsTypeOK /\ Locked /\ NothingYet /\ Complete /\ Followed /\ SavedIsOnDisk

-----------------------------------------------------------------------------
\* The lock keeps directories apart.
LEMMA OwnDirs ==
    ASSUME SessionsInv, NEW p \in Procs, NEW q \in Procs, p # q,
           pc[p] \in Owning, pc[q] \in Owning
    PROVE  dir[p] # dir[q]
BY DEF SessionsInv, Locked

LEMMA SessionsInvInit == SessionsInit => SessionsInv
<1> SUFFICES ASSUME SessionsInit PROVE SessionsInv
  OBVIOUS
<1>1. 0 \in Dirs
  BY SessionsAssumption DEF Dirs
<1>2. SessionsTypeOK
  BY <1>1 DEF SessionsInit, SessionsTypeOK
<1>3. Locked /\ NothingYet /\ Complete /\ Followed
  BY DEF SessionsInit, Locked, NothingYet, Complete, Followed, Owning, Restored, Configured
<1>4. SavedIsOnDisk
  BY DEF SessionsInit, SavedIsOnDisk, Torn
<1> QED
  BY <1>2, <1>3, <1>4 DEF SessionsInv

\* try_init() takes a directory nobody else writes.
LEMMA TakeDirKeeps ==
    ASSUME SessionsInv, NEW p \in Procs, TakeDir(p) \/ TryNextDir(p)
    PROVE  SessionsInv'
<1>t. SessionsTypeOK /\ Locked /\ NothingYet /\ Complete /\ Followed /\ SavedIsOnDisk
  BY DEF SessionsInv
<1>n. p # None /\ \A q \in Procs : q # None
  BY SessionsAssumption
<1>1. CASE TakeDir(p)
  <2>1. /\ pc[p] = "new" /\ pc' = [pc EXCEPT ![p] = "load"]
        /\ owner[dir[p]] = None /\ owner' = [owner EXCEPT ![dir[p]] = p]
        /\ UNCHANGED <<dir, state, tmp, mem, hash, buf, confVars>>
    BY <1>1 DEF TakeDir, Go
  <2>2. SessionsTypeOK'
    BY <2>1, <1>t DEF SessionsTypeOK, confVars
  <2>3. Locked'
    BY <2>1, <1>t, <1>n DEF Locked, SessionsTypeOK, Owning
  <2>4. NothingYet' /\ Complete' /\ SavedIsOnDisk'
    BY <2>1, <1>t DEF NothingYet, Complete, SavedIsOnDisk, SessionsTypeOK, Restored
  <2>5. Followed'
    BY <2>1, <1>t DEF Followed, SessionsTypeOK, confVars, Owning, Configured
  <2> QED
    BY <2>2, <2>3, <2>4, <2>5 DEF SessionsInv
<1>2. CASE TryNextDir(p)
  <2>1. /\ pc[p] = "new"
        /\ \/ dir[p] + 1 \in Dirs /\ dir' = [dir EXCEPT ![p] = dir[p] + 1] /\ pc' = pc
           \/ pc' = [pc EXCEPT ![p] = "nodir"] /\ dir' = dir
        /\ UNCHANGED <<filesVars, mem, hash, buf, confVars>>
    BY <1>2 DEF TryNextDir
  <2>2. SessionsTypeOK'
    BY <2>1, <1>t DEF SessionsTypeOK, confVars, filesVars
  <2>3. pc'[p] \in {"new", "nodir"} /\ \A q \in Procs \ {p} : pc'[q] = pc[q] /\ dir'[q] = dir[q]
    BY <2>1, <1>t DEF SessionsTypeOK
  <2>4. hash[p] = 0
    BY <2>1, <1>t DEF NothingYet, Restored
  <2>5. Locked' /\ NothingYet' /\ Complete' /\ SavedIsOnDisk'
    BY <2>1, <2>3, <2>4, <1>t DEF Locked, NothingYet, Complete, SavedIsOnDisk, filesVars, Owning, Restored
  <2>6. Followed'
    BY <2>1, <2>3, <1>t DEF Followed, confVars, Owning, Configured
  <2> QED
    BY <2>2, <2>5, <2>6 DEF SessionsInv
<1> QED
  BY <1>1, <1>2

\* The configuration is watched before it is read, and events are drained before
\* it is read again.
LEMMA ConfigKeeps ==
    ASSUME SessionsInv, NEW p \in Procs,
           Subscribe(p) \/ ReadConfig(p) \/ DrainEvents(p) \/ RereadConfig(p)
    PROVE  SessionsInv'
<1>t. SessionsTypeOK /\ Locked /\ NothingYet /\ Complete /\ Followed /\ SavedIsOnDisk
  BY DEF SessionsInv
<1>1. PICK to \in {"keys", "restore", "reread", "idle"} :
        /\ pc' = [pc EXCEPT ![p] = to]
        /\ pc[p] = IF to = "keys" THEN "load" ELSE IF to = "restore" THEN "keys"
                   ELSE IF to = "reread" THEN "idle" ELSE "reread"
        /\ IF to = "keys" THEN watch' = [watch EXCEPT ![p] = TRUE] ELSE watch' = watch
        /\ IF to = "reread" THEN events' = [events EXCEPT ![p] = FALSE] ELSE events' = events
        /\ IF to \in {"restore", "idle"}
           THEN binds' = [binds EXCEPT ![p] = IF file = Bad THEN binds[p] ELSE file]
           ELSE binds' = binds
        /\ UNCHANGED <<dir, filesVars, mem, hash, buf, file>>
  BY DEF Subscribe, ReadConfig, DrainEvents, RereadConfig, Go, ReadKeys
<1>2. /\ pc'[p] = to /\ pc[p] \in Owning /\ to \in Owning \ {"load"}
      /\ to \in Restored <=> pc[p] \in Restored
      /\ \A q \in Procs \ {p} : /\ pc'[q] = pc[q] /\ watch'[q] = watch[q]
                               /\ events'[q] = events[q] /\ binds'[q] = binds[q]
  <2>1. pc'[p] = to /\ \A q \in Procs \ {p} : pc'[q] = pc[q]
    BY <1>1, <1>t DEF SessionsTypeOK
  <2>2. \A q \in Procs \ {p} : /\ watch'[q] = watch[q] /\ events'[q] = events[q]
                              /\ binds'[q] = binds[q]
    BY <1>1, <1>t DEF SessionsTypeOK
  <2>3. /\ pc[p] \in Owning /\ to \in Owning \ {"load"}
        /\ to \in Restored <=> pc[p] \in Restored
    BY <1>1 DEF Owning, Restored
  <2> QED
    BY <2>1, <2>2, <2>3
<1>3. SessionsTypeOK'
  <2>1. pc' \in [Procs -> {"new", "nodir", "load", "keys", "restore", "idle", "write", "rename", "reread"}]
    BY <1>1, <1>t DEF SessionsTypeOK
  <2>2. watch' \in [Procs -> BOOLEAN] /\ events' \in [Procs -> BOOLEAN]
    BY <1>1, <1>t DEF SessionsTypeOK
  <2>3. binds' \in [Procs -> Configs \cup {Default}]
    BY <1>1, <1>t DEF SessionsTypeOK
  <2> QED
    BY <1>1, <1>t, <2>1, <2>2, <2>3 DEF SessionsTypeOK, filesVars
<1>4. Locked' /\ NothingYet' /\ SavedIsOnDisk'
  BY <1>1, <1>2, <1>t DEF Locked, NothingYet, SavedIsOnDisk, filesVars
<1>5. Complete'
  BY <1>1, <1>2, <1>t DEF Complete, filesVars
<1>6. watch'[p] = TRUE
  BY <1>1, <1>2, <1>t DEF SessionsTypeOK, Followed
<1>7. pc'[p] \in Configured /\ file # Bad => binds'[p] = file
  BY <1>1, <1>2, <1>t DEF SessionsTypeOK, Configured
<1>8. Followed'
  BY <1>1, <1>2, <1>6, <1>7, <1>t DEF Followed, Configured
<1> QED
  BY <1>3, <1>4, <1>5, <1>8 DEF SessionsInv

\* The state is restored, and changes.
LEMMA StateKeeps ==
    ASSUME SessionsInv, NEW p \in Procs, LoadState(p) \/ Change(p)
    PROVE  SessionsInv'
<1>t. SessionsTypeOK /\ Locked /\ NothingYet /\ Complete /\ Followed /\ SavedIsOnDisk
  BY DEF SessionsInv
<1>1. CASE LoadState(p)
  <2>1. /\ pc[p] = "restore" /\ pc' = [pc EXCEPT ![p] = "idle"]
        /\ \/ /\ state[dir[p]] \in Versions
              /\ hash' = [hash EXCEPT ![p] = state[dir[p]]] /\ mem' = [mem EXCEPT ![p] = state[dir[p]]]
           \/ hash' = hash /\ mem' = mem
        /\ UNCHANGED <<dir, filesVars, buf, confVars>>
    BY <1>1 DEF LoadState, Go
  <2>2. SessionsTypeOK'
    BY <2>1, <1>t DEF SessionsTypeOK, confVars, filesVars
  <2>3. SavedIsOnDisk'
    BY <2>1, <1>t DEF SavedIsOnDisk, SessionsTypeOK, filesVars
  <2>4. Locked' /\ NothingYet' /\ Complete'
    BY <2>1, <1>t DEF Locked, NothingYet, Complete, SessionsTypeOK, filesVars, Owning, Restored
  <2>5. Followed'
    BY <2>1, <1>t DEF Followed, SessionsTypeOK, confVars, Owning, Configured
  <2> QED
    BY <2>2, <2>3, <2>4, <2>5 DEF SessionsInv
<1>2. CASE Change(p)
  <2>1. PICK v \in Versions : mem' = [mem EXCEPT ![p] = v]
    BY <1>2 DEF Change
  <2>2. UNCHANGED <<pc, dir, filesVars, hash, buf, confVars>>
    BY <1>2 DEF Change
  <2>3. SessionsTypeOK'
    BY <2>1, <2>2, <1>t DEF SessionsTypeOK, confVars, filesVars
  <2> QED
    BY <2>2, <2>3, <1>t DEF SessionsInv, Locked, NothingYet, Complete, Followed, SavedIsOnDisk,
       confVars, filesVars
<1> QED
  BY <1>1, <1>2

\* A save writes another file and renames it; it may fail in between.
LEMMA SaveKeeps ==
    ASSUME SessionsInv, NEW p \in Procs, Save(p) \/ SaveFails(p)
    PROVE  SessionsInv'
<1>t. SessionsTypeOK /\ Locked /\ NothingYet /\ Complete /\ Followed /\ SavedIsOnDisk
  BY DEF SessionsInv
<1>o. \A q \in Procs \ {p} : pc[p] \in Owning /\ pc[q] \in Owning => dir[q] # dir[p]
  BY OwnDirs
<1>v. \A v \in Versions : v # 0 /\ v # Torn
  BY SessionsAssumption
<1>1. CASE SaveBegins(p)
  <2>1. /\ pc[p] = "idle" /\ pc' = [pc EXCEPT ![p] = "write"] /\ mem[p] # 0
        /\ tmp' = [tmp EXCEPT ![dir[p]] = Torn] /\ buf' = [buf EXCEPT ![p] = mem[p]]
        /\ UNCHANGED <<dir, owner, state, mem, hash, confVars>>
    BY <1>1 DEF SaveBegins, Go
  <2>2. SessionsTypeOK'
    BY <2>1, <1>t DEF SessionsTypeOK, confVars
  <2>3. Complete'
    BY <2>1, <1>t, <1>o DEF Complete, SessionsTypeOK, Owning
  <2>4. Locked' /\ NothingYet' /\ SavedIsOnDisk'
    BY <2>1, <1>t DEF Locked, NothingYet, SavedIsOnDisk, SessionsTypeOK, Owning, Restored
  <2>5. Followed'
    BY <2>1, <1>t DEF Followed, SessionsTypeOK, confVars, Owning, Configured
  <2> QED
    BY <2>2, <2>3, <2>4, <2>5 DEF SessionsInv
<1>2. CASE SaveWrites(p)
  <2>1. /\ pc[p] = "write" /\ pc' = [pc EXCEPT ![p] = "rename"]
        /\ tmp' = [tmp EXCEPT ![dir[p]] = buf[p]]
        /\ UNCHANGED <<dir, owner, state, mem, hash, buf, confVars>>
    BY <1>2 DEF SaveWrites, Go
  <2>2. SessionsTypeOK'
    BY <2>1, <1>t DEF SessionsTypeOK, confVars
  <2>3. Complete'
    BY <2>1, <1>t, <1>o DEF Complete, SessionsTypeOK, Owning
  <2>4. Locked' /\ NothingYet' /\ SavedIsOnDisk'
    BY <2>1, <1>t DEF Locked, NothingYet, SavedIsOnDisk, SessionsTypeOK, Owning, Restored
  <2>5. Followed'
    BY <2>1, <1>t DEF Followed, SessionsTypeOK, confVars, Owning, Configured
  <2> QED
    BY <2>2, <2>3, <2>4, <2>5 DEF SessionsInv
<1>3. CASE SaveRenames(p)
  <2>1. /\ pc[p] = "rename" /\ pc' = [pc EXCEPT ![p] = "idle"]
        /\ state' = [state EXCEPT ![dir[p]] = tmp[dir[p]]] /\ tmp' = [tmp EXCEPT ![dir[p]] = 0]
        /\ hash' = [hash EXCEPT ![p] = buf[p]]
        /\ UNCHANGED <<dir, owner, mem, buf, confVars>>
    BY <1>3 DEF SaveRenames, Go
  <2>2. tmp[dir[p]] = buf[p] /\ buf[p] \in Versions
    BY <2>1, <1>t DEF Complete
  <2>3. SessionsTypeOK'
    BY <2>1, <2>2, <1>t DEF SessionsTypeOK, confVars
  <2>4. Complete'
    BY <2>1, <1>t, <1>o DEF Complete, SessionsTypeOK, Owning
  <2>5. SavedIsOnDisk'
    <3>1. \A q \in Procs \ {p} : hash[q] # 0 => dir[q] # dir[p]
      BY <2>1, <1>t, <1>o DEF NothingYet, Owning, Restored
    <3> QED
      BY <2>1, <2>2, <3>1, <1>t, <1>v DEF SavedIsOnDisk, SessionsTypeOK
  <2>6. Locked' /\ NothingYet'
    BY <2>1, <1>t DEF Locked, NothingYet, SessionsTypeOK, Owning, Restored
  <2>7. Followed'
    BY <2>1, <1>t DEF Followed, SessionsTypeOK, confVars, Owning, Configured
  <2> QED
    BY <2>3, <2>4, <2>5, <2>6, <2>7 DEF SessionsInv
<1>4. CASE SaveFails(p)
  <2>1. /\ pc[p] \in {"write", "rename"} /\ pc' = [pc EXCEPT ![p] = "idle"]
        /\ UNCHANGED <<dir, filesVars, mem, hash, buf, confVars>>
    BY <1>4 DEF SaveFails
  <2>2. SessionsTypeOK'
    BY <2>1, <1>t DEF SessionsTypeOK, confVars, filesVars
  <2>3. Locked' /\ NothingYet' /\ Complete' /\ SavedIsOnDisk'
    BY <2>1, <1>t DEF Locked, NothingYet, Complete, SavedIsOnDisk, SessionsTypeOK, filesVars, Owning, Restored
  <2>4. Followed'
    BY <2>1, <1>t DEF Followed, SessionsTypeOK, confVars, Owning, Configured
  <2> QED
    BY <2>2, <2>3, <2>4 DEF SessionsInv
<1> QED
  BY <1>1, <1>2, <1>3, <1>4 DEF Save

\* A process that dies gives up its lock and leaves its files.
LEMMA DieKeeps ==
    ASSUME SessionsInv, NEW p \in Procs, Die(p)
    PROVE  SessionsInv'
<1>t. SessionsTypeOK /\ Locked /\ NothingYet /\ Complete /\ Followed /\ SavedIsOnDisk
  BY DEF SessionsInv
<1>n. \A q \in Procs : q # None
  BY SessionsAssumption
<1>1. /\ pc' = [pc EXCEPT ![p] = "new"]
      /\ owner' = [d \in Dirs |-> IF owner[d] = p THEN None ELSE owner[d]]
      /\ dir' = [dir EXCEPT ![p] = 0] /\ mem' = [mem EXCEPT ![p] = 0]
      /\ hash' = [hash EXCEPT ![p] = 0] /\ buf' = [buf EXCEPT ![p] = 0]
      /\ watch' = [watch EXCEPT ![p] = FALSE]
      /\ events' = [events EXCEPT ![p] = FALSE]
      /\ binds' = [binds EXCEPT ![p] = Default]
      /\ UNCHANGED <<state, tmp, file>>
  BY DEF Die
<1>2. 0 \in Dirs
  BY SessionsAssumption DEF Dirs
<1>3. SessionsTypeOK'
  BY <1>1, <1>2, <1>t DEF SessionsTypeOK
<1>4. Locked'
  BY <1>1, <1>t, <1>n DEF Locked, SessionsTypeOK, Owning
<1>5. NothingYet' /\ Complete' /\ SavedIsOnDisk'
  BY <1>1, <1>t DEF NothingYet, Complete, SavedIsOnDisk, SessionsTypeOK, Restored
<1>6. Followed'
  BY <1>1, <1>t DEF Followed, SessionsTypeOK, Owning, Configured
<1> QED
  BY <1>3, <1>4, <1>5, <1>6 DEF SessionsInv

\* An edit is an event for everybody who has read the configuration.
LEMMA EditKeeps ==
    ASSUME SessionsInv, EditConfig
    PROVE  SessionsInv'
<1>t. SessionsTypeOK /\ Locked /\ NothingYet /\ Complete /\ Followed /\ SavedIsOnDisk
  BY DEF SessionsInv
<1>1. /\ file' \in Configs
      /\ events' = [p \in Procs |-> events[p] \/ watch[p]]
      /\ UNCHANGED <<pc, dir, filesVars, mem, hash, buf, watch, binds>>
  BY DEF EditConfig, Touch
<1>2. SessionsTypeOK'
  BY <1>1, <1>t DEF SessionsTypeOK, filesVars
<1>3. Locked' /\ NothingYet' /\ Complete' /\ SavedIsOnDisk'
  BY <1>1, <1>t DEF Locked, NothingYet, Complete, SavedIsOnDisk, filesVars
<1>4. \A p \in Procs : pc[p] \in Configured => events'[p] = TRUE
  BY <1>1, <1>t DEF Followed, Owning, Configured, SessionsTypeOK
<1>5. Followed'
  BY <1>1, <1>4, <1>t DEF Followed
<1> QED
  BY <1>2, <1>3, <1>5 DEF SessionsInv

\* What a process takes for saved is what the next one in its directory will load,
\* no state file is ever torn, and a process without unread events uses the last
\* configuration that parses, for any number of processes that die and come back
\* between any two system calls.
THEOREM SessionsCorrect == SessionsSpec => []SessionsSound
<1>1. SessionsInit => SessionsInv
  BY SessionsInvInit
<1>2. SessionsInv /\ [SessionsNext]_sessionsVars => SessionsInv'
  <2> SUFFICES ASSUME SessionsInv, [SessionsNext]_sessionsVars PROVE SessionsInv'
    OBVIOUS
  <2>1. CASE EditConfig
    BY <2>1, EditKeeps
  <2>2. ASSUME NEW p \in Procs,
               Work(p) \/ Change(p) \/ SaveFails(p) \/ DrainEvents(p) \/ RereadConfig(p) \/ Die(p)
        PROVE  SessionsInv'
    BY <2>2, TakeDirKeeps, ConfigKeeps, StateKeeps, SaveKeeps, DieKeeps DEF Work
  <2>3. CASE UNCHANGED sessionsVars
    BY <2>3 DEF sessionsVars, SessionsInv, SessionsTypeOK, Locked, NothingYet, Complete, Followed,
       SavedIsOnDisk
  <2> QED
    BY <2>1, <2>2, <2>3 DEF SessionsNext
<1>3. SessionsInv => SessionsSound
  <2> SUFFICES ASSUME SessionsInv PROVE SessionsSound
    OBVIOUS
  <2>1. ConfigFollowed
    BY DEF SessionsInv, Followed, ConfigFollowed, SessionsTypeOK, Configured
  <2> QED
    BY <2>1 DEF SessionsInv, SessionsSound
<1> QED
  BY <1>1, <1>2, <1>3, PTL DEF SessionsSpec

-----------------------------------------------------------------------------
(* The focus of the user.                                                    *)

Place == [frame : {1, 2}, sub : {0, 1}]
ThreadRecord == [stops : Nat, reason : {-1, 1, 2}, running : BOOLEAN, select : Int]

\* Tids are given out in order, and nobody knows of one that was not.
TidsKnown ==
    /\ DOMAIN thr \subseteq Tids /\ thr \in [DOMAIN thr -> ThreadRecord] /\ nextIdx \in Nat /\ selSub \in Nat
    /\ \A t \in DOMAIN thr : t < nextIdx
    /\ \A t \in DOMAIN seenStops \cup DOMAIN frames \cup DOMAIN cached \cup alarms : t \in Tids /\ t < nextIdx
    /\ want \in [Tids -> Place \cup {Fresh}]
    /\ \A t \in Tids : nextIdx <= t => want[t] = Top

\* Stop counts that were noted are not ahead of the thread's.
CountsNoted ==
    \A t \in DOMAIN thr :
        /\ t \in DOMAIN seenStops => seenStops[t] \in 0..thr[t].stops
        /\ t \in DOMAIN cached => cached[t].stops \in 0..thr[t].stops
        /\ FrameOf(t).stops \in 0..thr[t].stops

\* What stop counts call unseen is what stopped since the last frame.
AlarmsUnseen ==
    \A t \in DOMAIN thr : /\ thr[t].running => thr[t].reason = NoReason
                          /\ t \in alarms <=> t \in Unseen

\* What the stack window remembers is where the user is.
FramesWanted ==
    /\ \A t \in DOMAIN thr :
         /\ NewStop(t) => want[t] = Fresh
         /\ ~NewStop(t) => want[t] = FrameOf(t).at /\ want[t] \in Place
    /\ told.tid \in Tids /\ want[told.tid] # Fresh => want[told.tid] = told.at

FInv == TidsKnown /\ CountsNoted /\ AlarmsUnseen /\ FramesWanted /\ FilterCurrent /\ UrgentStopSelected /\ CodeFollows

-----------------------------------------------------------------------------
LEMMA FocusConstants == IsFiniteSet(Tids) /\ Tids \subseteq Nat \ {0} /\ 1 \in Tids
BY FocusAssumption

LEMMA NoDomain == DOMAIN <<>> = {}
OBVIOUS

LEMMA PlaceNotFresh == Fresh \notin Place /\ Top \in Place
BY DEF Fresh, Place, Top

LEMMA RecordFacts ==
    ASSUME TidsKnown, NEW t \in DOMAIN thr
    PROVE  /\ thr[t] \in ThreadRecord /\ thr[t].stops \in Nat /\ thr[t].reason \in {-1, 1, 2}
           /\ thr[t].running \in BOOLEAN /\ thr[t].select \in Int /\ t \in Tids /\ t \in Nat
BY FocusConstants DEF TidsKnown, ThreadRecord

\* The stacks that there are, and the subframes on them.
Stacks == {<<1>>, <<1, 1, 2>>}

LEMMA StackIs ==
    ASSUME NEW t PROVE /\ StackTrace(t) = <<>> \/ StackTrace(t) \in Stacks
                       /\ StackTrace(t) # <<>> <=> t \in DOMAIN thr /\ ~thr[t].running
BY DEF StackTrace, Stacks

LEMMA StartOne == ASSUME NEW s \in Stacks PROVE Start(s, 1) = 1
<1>1. \A i \in DOMAIN s : (s[i] = 1 /\ \A j \in 1..(i - 1) : s[j] # 1) <=> i = 1
  BY DEF Stacks
<1>2. 1 \in DOMAIN s
  BY DEF Stacks
<1> QED BY <1>1, <1>2 DEF Start
LEMMA StartTwo == Start(<<1, 1, 2>>, 2) = 3
<1> DEFINE s == <<1, 1, 2>>
<1>1. \A i \in DOMAIN s : (s[i] = 2 /\ \A j \in 1..(i - 1) : s[j] # 2) <=> i = 3
  OBVIOUS
<1>2. 3 \in DOMAIN s
  OBVIOUS
<1> QED BY <1>1, <1>2 DEF Start
LEMMA EndOne == End(<<1>>, 1) = 1 /\ End(<<1, 1, 2>>, 1) = 2
<1>1. End(<<1>>, 1) = 1
  <2> DEFINE s == <<1>>
  <2>1. \A i \in DOMAIN s : (s[i] = 1 /\ \A j \in (i + 1)..Len(s) : s[j] # 1) <=> i = 1
    OBVIOUS
  <2>2. 1 \in DOMAIN s
    OBVIOUS
  <2> QED BY <2>1, <2>2 DEF End
<1>2. End(<<1, 1, 2>>, 1) = 2
  <2> DEFINE s == <<1, 1, 2>>
  <2>1. \A i \in DOMAIN s : (s[i] = 1 /\ \A j \in (i + 1)..Len(s) : s[j] # 1) <=> i = 2
    <3>1. s[1] = 1 /\ s[2] = 1 /\ s[3] = 2 /\ Len(s) = 3 /\ DOMAIN s = {1, 2, 3}
      OBVIOUS
    <3>2. 2 \in (1 + 1)..Len(s)
      BY <3>1
    <3>3. \A j \in (2 + 1)..Len(s) : s[j] # 1
      BY <3>1
    <3> HIDE DEF s
    <3> QED BY <3>1, <3>2, <3>3
  <2>2. 2 \in DOMAIN s
    OBVIOUS
  <2> QED BY <2>1, <2>2 DEF End
<1> QED BY <1>1, <1>2
LEMMA EndTwo == End(<<1, 1, 2>>, 2) = 3
<1> DEFINE s == <<1, 1, 2>>
<1>1. s[1] = 1 /\ s[2] = 1 /\ s[3] = 2 /\ Len(s) = 3 /\ DOMAIN s = {1, 2, 3}
  OBVIOUS
<1> HIDE DEF s
<1>2. \A i \in DOMAIN s : (s[i] = 2 /\ \A j \in (i + 1)..Len(s) : s[j] # 2) <=> i = 3
  BY <1>1
<1>3. End(s, 2) = 3
  BY <1>1, <1>2 DEF End
<1> QED BY <1>3 DEF s

LEMMA StablePlace ==
    ASSUME NEW s \in Stacks, NEW idx \in 0..(Len(s) - 1) PROVE StableSubframe(s, idx) \in Place
<1>1. CASE s = <<1>>
  <2>1. Len(s) = 1 /\ idx = 0 /\ s[1] = 1 /\ s # <<>>
    BY <1>1
  <2>2. StableSubframe(s, idx) = [frame |-> 1, sub |-> 0]
    BY <2>1, StartOne DEF StableSubframe, Lesser
  <2> QED BY <2>2 DEF Place
<1>2. CASE s = <<1, 1, 2>>
  <2>1. Len(s) = 3 /\ idx \in {0, 1, 2} /\ s[1] = 1 /\ s[2] = 1 /\ s[3] = 2 /\ s # <<>>
    BY <1>2
  <2>2. Start(s, 1) = 1 /\ Start(s, 2) = 3
    BY <1>2, StartOne, StartTwo
  <2>3. PICK j : j = idx + 1 /\ j = Lesser(idx + 1, Len(s))
    BY <2>1 DEF Lesser
  <2>4. StableSubframe(s, idx) = [frame |-> s[j], sub |-> j - Start(s, s[j])]
    BY <2>1, <2>3, Zenon DEF StableSubframe
  <2>5. s[j] \in {1, 2} /\ j - Start(s, s[j]) \in {0, 1}
    BY <2>1, <2>2, <2>3
  <2> QED BY <2>4, <2>5 DEF Place
<1> QED BY <1>1, <1>2 DEF Stacks

LEMMA SubframeIdxNat ==
    ASSUME NEW s \in Stacks, NEW at \in Place PROVE SubframeIdx(at, s) \in Nat
<1>1. at.frame \in {1, 2} /\ at.sub \in {0, 1}
  BY DEF Place
<1>2. CASE s = <<1>>
  <2>1. Len(s) = 1 /\ s[1] = 1 /\ s # <<>>
    BY <1>2
  <2>2. Start(s, 1) = 1 /\ End(s, 1) = 1
    BY <1>2, StartOne, EndOne
  <2>3. Lesser(at.frame, s[Len(s)]) = 1
    BY <1>1, <2>1 DEF Lesser
  <2>4. SubframeIdx(at, s) = Lesser(Start(s, 1) + at.sub, End(s, 1)) - 1
    BY <2>1, <2>3 DEF SubframeIdx
  <2> QED BY <1>1, <2>2, <2>4 DEF Lesser
<1>3. CASE s = <<1, 1, 2>>
  <2>1. Len(s) = 3 /\ s[3] = 2 /\ s # <<>>
    BY <1>3
  <2>2. Start(s, 1) = 1 /\ End(s, 1) = 2 /\ Start(s, 2) = 3 /\ End(s, 2) = 3
    BY <1>3, StartOne, EndOne, StartTwo, EndTwo
  <2>3. Lesser(at.frame, s[Len(s)]) = at.frame
    BY <1>1, <2>1 DEF Lesser
  <2>4. SubframeIdx(at, s) = Lesser(Start(s, at.frame) + at.sub, End(s, at.frame)) - 1
    BY <2>1, <2>3 DEF SubframeIdx
  <2> QED BY <1>1, <2>2, <2>4 DEF Lesser
<1> QED BY <1>2, <1>3 DEF Stacks

LEMMA NavigateIn ==
    ASSUME NEW c \in Nat, NEW n \in Nat \ {0}, NEW k PROVE Navigate(c, n, k) \in 0..(n - 1)
BY DEF Navigate, Before, Greater, Lesser

-----------------------------------------------------------------------------
(* The debugger between two frames.                                          *)

\* A thread stops once more.
LEMMA StopsAgain ==
    ASSUME FInv, NEW t \in DOMAIN thr, NEW x \in ThreadRecord, x.stops = thr[t].stops + 1, ~x.running,
           thr' = [thr EXCEPT ![t] = x],
           alarms' = IF x.reason = NoReason THEN alarms ELSE alarms \cup {t},
           thr[t].reason = NoReason \/ x.reason # NoReason,
           want' = [want EXCEPT ![t] = Fresh], Between, UNCHANGED <<nextIdx, loaded, filterVars, windowVars>>
    PROVE  FInv'
<1>1. /\ DOMAIN thr' = DOMAIN thr /\ thr'[t] = x /\ \A u \in DOMAIN thr : u # t => thr'[u] = thr[u]
      /\ thr' \in [DOMAIN thr' -> ThreadRecord]
  BY DEF FInv, TidsKnown
<1>2. /\ nextIdx' = nextIdx /\ loaded' = loaded /\ cacheKey' = cacheKey /\ cached' = cached
      /\ seenStops' = seenStops /\ selSub' = selSub /\ selThread' = selThread /\ frames' = frames /\ told' = told
  BY DEF filterVars, windowVars
<1>3. t \in Tids /\ t < nextIdx /\ thr[t].stops \in Nat
  BY RecordFacts DEF FInv, TidsKnown
<1>4. /\ want' \in [Tids -> Place \cup {Fresh}] /\ want'[t] = Fresh
      /\ \A u \in Tids : u # t => want'[u] = want[u]
  BY <1>3 DEF FInv, TidsKnown
<1>5. TidsKnown'
  BY <1>1, <1>2, <1>3, <1>4, FocusConstants DEF FInv, TidsKnown
<1>6. \A u : FrameOf(u)' = FrameOf(u)
  BY <1>2 DEF FrameOf
<1>7. CountsNoted'
  BY <1>1, <1>2, <1>3, <1>6 DEF FInv, CountsNoted
<1>8. AlarmsUnseen'
  <2>1. \A u \in DOMAIN thr : u # t => (thr'[u].running => thr'[u].reason = NoReason) /\ (u \in alarms' <=> u \in Unseen')
    BY <1>1, <1>2 DEF FInv, AlarmsUnseen, Unseen
  <2>2. t \in DOMAIN seenStops => seenStops[t] # x.stops
    BY <1>3 DEF FInv, CountsNoted
  <2>3. t \in Unseen' <=> x.reason # NoReason
    BY <1>1, <1>2, <2>2 DEF Unseen
  <2>4. x.reason = NoReason => t \notin alarms
    BY DEF FInv, AlarmsUnseen, Unseen
  <2>5. t \in alarms' <=> x.reason # NoReason
    BY <2>4
  <2> QED BY <1>1, <2>1, <2>3, <2>5 DEF AlarmsUnseen
<1>9. FramesWanted'
  <2>1. FrameOf(t).stops # x.stops
    BY <1>3 DEF FInv, CountsNoted
  <2>2. \A u \in DOMAIN thr : u # t => (NewStop(u)' <=> NewStop(u)) /\ want'[u] = want[u]
    BY <1>1, <1>4, <1>6 DEF NewStop, FInv, TidsKnown
  <2>3. NewStop(t)'
    BY <1>1, <1>6, <2>1 DEF NewStop
  <2>4. \A u \in DOMAIN thr' : /\ NewStop(u)' => want'[u] = Fresh
                               /\ ~NewStop(u)' => want'[u] = FrameOf(u)' .at /\ want'[u] \in Place
    BY <1>1, <1>4, <1>6, <2>2, <2>3 DEF FInv, FramesWanted
  <2>5. told.tid \in Tids /\ want'[told.tid] # Fresh => want'[told.tid] = told.at
    BY <1>4 DEF FInv, FramesWanted
  <2> QED BY <1>2, <2>4, <2>5 DEF FramesWanted
<1>10. FilterCurrent'
  <2>1. t \in DOMAIN cached => cached[t].stops # x.stops
    BY <1>3 DEF FInv, CountsNoted
  <2>2. \A u \in DOMAIN thr : \A q : u # t => ThreadPasses(u, q)' = ThreadPasses(u, q)
    BY <1>1, <1>2 DEF ThreadPasses, StackTrace
  <2> QED BY <1>1, <1>2, <2>1, <2>2 DEF FInv, FilterCurrent
<1>11. UrgentStopSelected' /\ CodeFollows'
  BY DEF Between, UrgentStopSelected, CodeFollows, NoRequest
<1> QED BY <1>5, <1>7, <1>8, <1>9, <1>10, <1>11 DEF FInv

LEMMA FocusStopInv ==
    ASSUME FInv, Stop PROVE FInv'
<1>1. PICK t \in DOMAIN thr, r \in {NoReason, Breakpoint, Step} :
        \E s \in IF r = Step THEN {-1, 1} ELSE {-1} :
          /\ thr[t].running
          /\ thr' = [thr EXCEPT ![t] = [stops |-> @.stops + 1, reason |-> r, running |-> FALSE, select |-> s]]
          /\ alarms' = IF r = NoReason THEN alarms ELSE alarms \cup {t}
          /\ want' = [want EXCEPT ![t] = Fresh]
          /\ Between /\ UNCHANGED <<nextIdx, loaded, filterVars, windowVars, rerequest>>
  BY DEF Stop
<1>2. PICK s \in {-1, 1} :
          /\ thr[t].running
          /\ thr' = [thr EXCEPT ![t] = [stops |-> @.stops + 1, reason |-> r, running |-> FALSE, select |-> s]]
          /\ alarms' = IF r = NoReason THEN alarms ELSE alarms \cup {t}
          /\ want' = [want EXCEPT ![t] = Fresh]
          /\ Between /\ UNCHANGED <<nextIdx, loaded, filterVars, windowVars, rerequest>>
  BY <1>1
<1> DEFINE x == [stops |-> thr[t].stops + 1, reason |-> r, running |-> FALSE, select |-> s]
<1>3. thr[t].stops \in Nat /\ r \in {-1, 1, 2} /\ s \in Int
  BY RecordFacts DEF FInv, NoReason, Breakpoint, Step
<1>4. x \in ThreadRecord /\ x.stops = thr[t].stops + 1 /\ ~x.running /\ x.reason = r
  BY <1>3 DEF ThreadRecord
<1>5. thr' = [thr EXCEPT ![t] = x]
  BY <1>2
<1>6. thr[t].reason = NoReason
  BY <1>2 DEF FInv, AlarmsUnseen
<1> HIDE DEF x
<1> QED BY <1>2, <1>4, <1>5, <1>6, StopsAgain

LEMMA StepIntoInv ==
    ASSUME FInv, StepIntoSubframe PROVE FInv'
<1> DEFINE x == [thr[selThread] EXCEPT !.select = selSub - 1, !.stops = @ + 1]
<1>1. /\ selThread \in DOMAIN thr /\ ~thr[selThread].running
      /\ thr' = [thr EXCEPT ![selThread].select = selSub - 1, ![selThread].stops = @ + 1]
      /\ alarms' = IF thr[selThread].reason = NoReason THEN alarms ELSE alarms \cup {selThread}
      /\ want' = [want EXCEPT ![selThread] = Fresh]
      /\ Between /\ UNCHANGED <<nextIdx, loaded, filterVars, windowVars, rerequest>>
  BY DEF StepIntoSubframe
<1>2. thr[selThread] \in ThreadRecord /\ thr[selThread].stops \in Nat /\ selSub \in Nat
  BY <1>1, RecordFacts DEF FInv, TidsKnown
<1>3. x.stops = thr[selThread].stops + 1 /\ x.running = thr[selThread].running /\ x.reason = thr[selThread].reason
  BY <1>2 DEF ThreadRecord
<1>4. x \in ThreadRecord
  <2>1. selSub - 1 \in Int /\ thr[selThread].stops + 1 \in Nat
    BY <1>2
  <2> QED BY <1>2, <2>1 DEF ThreadRecord
<1>5. thr' = [thr EXCEPT ![selThread] = x]
  BY <1>1 DEF FInv, TidsKnown
<1> HIDE DEF x
<1>6. ~x.running
  BY <1>1, <1>3
<1> QED BY <1>1, <1>3, <1>4, <1>5, <1>6, StopsAgain

LEMMA ResumeThreadInv ==
    ASSUME FInv, ResumeThread PROVE FInv'
<1>1. PICK t \in DOMAIN thr :
        /\ ~thr[t].running
        /\ thr' = [thr EXCEPT ![t].running = TRUE, ![t].reason = NoReason]
        /\ alarms' = alarms \ {t}
        /\ Between /\ UNCHANGED <<nextIdx, loaded, filterVars, windowVars, rerequest, want>>
  BY DEF ResumeThread
<1> DEFINE x == [thr[t] EXCEPT !.running = TRUE, !.reason = NoReason]
<1>2. thr[t] \in ThreadRecord /\ thr[t].stops \in Nat
  BY RecordFacts DEF FInv
<1>3. x \in ThreadRecord /\ x.stops = thr[t].stops /\ x.running = TRUE /\ x.reason = NoReason
  BY <1>2 DEF ThreadRecord, NoReason
<1>4. thr' = [thr EXCEPT ![t] = x]
  BY <1>1 DEF FInv, TidsKnown
<1> HIDE DEF x
<1>5. /\ DOMAIN thr' = DOMAIN thr /\ thr'[t] = x /\ \A u \in DOMAIN thr : u # t => thr'[u] = thr[u]
      /\ thr' \in [DOMAIN thr' -> ThreadRecord]
  BY <1>3, <1>4 DEF FInv, TidsKnown
<1>6. /\ nextIdx' = nextIdx /\ loaded' = loaded /\ cacheKey' = cacheKey /\ cached' = cached /\ want' = want
      /\ seenStops' = seenStops /\ selThread' = selThread /\ frames' = frames /\ told' = told /\ selSub' = selSub
  BY <1>1 DEF filterVars, windowVars
<1>7. TidsKnown'
  BY <1>1, <1>5, <1>6 DEF FInv, TidsKnown
<1>8. \A u : FrameOf(u)' = FrameOf(u)
  BY <1>6 DEF FrameOf
<1>9. \A u \in DOMAIN thr : thr'[u].stops = thr[u].stops
  BY <1>3, <1>5
<1>10. CountsNoted'
  BY <1>5, <1>6, <1>8, <1>9 DEF FInv, CountsNoted
<1>11. AlarmsUnseen'
  BY <1>1, <1>3, <1>5, <1>6 DEF FInv, AlarmsUnseen, Unseen
<1>12. FramesWanted'
  <2>1. \A u \in DOMAIN thr : NewStop(u)' <=> NewStop(u)
    BY <1>5, <1>8, <1>9 DEF NewStop
  <2> QED BY <1>5, <1>6, <1>8, <2>1 DEF FInv, FramesWanted
<1>13. FilterCurrent'
  <2>1. \A u \in DOMAIN thr : \A q : u # t => ThreadPasses(u, q)' = ThreadPasses(u, q)
    BY <1>5, <1>6 DEF ThreadPasses, StackTrace
  <2> QED BY <1>3, <1>5, <1>6, <2>1 DEF FInv, FilterCurrent
<1>14. UrgentStopSelected' /\ CodeFollows'
  BY <1>1 DEF Between, UrgentStopSelected, CodeFollows, NoRequest
<1> QED BY <1>7, <1>10, <1>11, <1>12, <1>13, <1>14 DEF FInv

LEMMA NewThreadInv ==
    ASSUME FInv, NewThread PROVE FInv'
<1> DEFINE x == [stops |-> 0, reason |-> NoReason, running |-> TRUE, select |-> -1]
<1>1. /\ nextIdx \in Tids /\ nextIdx' = nextIdx + 1
      /\ thr' = [t \in DOMAIN thr \cup {nextIdx} |-> IF t = nextIdx THEN x ELSE thr[t]]
      /\ Between /\ UNCHANGED <<loaded, filterVars, windowVars, rerequest, historyVars>>
  BY DEF NewThread
<1>2. x \in ThreadRecord /\ x.stops = 0 /\ x.running = TRUE /\ x.reason = NoReason
  BY DEF ThreadRecord, NoReason
<1> HIDE DEF x
<1>3. nextIdx \in Nat /\ nextIdx \notin DOMAIN thr
  BY DEF FInv, TidsKnown
<1>4. /\ DOMAIN thr' = DOMAIN thr \cup {nextIdx} /\ thr'[nextIdx] = x /\ \A u \in DOMAIN thr : thr'[u] = thr[u]
  BY <1>1, <1>3
<1>5. thr' \in [DOMAIN thr' -> ThreadRecord]
  BY <1>1, <1>2, <1>4 DEF FInv, TidsKnown
<1>6. /\ loaded' = loaded /\ cacheKey' = cacheKey /\ cached' = cached /\ want' = want /\ alarms' = alarms
      /\ seenStops' = seenStops /\ selThread' = selThread /\ frames' = frames /\ told' = told /\ selSub' = selSub
  BY <1>1 DEF filterVars, windowVars, historyVars
<1>7. nextIdx \notin DOMAIN seenStops /\ nextIdx \notin DOMAIN frames /\ nextIdx \notin DOMAIN cached
      /\ nextIdx \notin alarms /\ want[nextIdx] = Top
  BY <1>1, <1>3 DEF FInv, TidsKnown
<1>8. TidsKnown'
  <2>1. \A t \in Tids : t < nextIdx => t < nextIdx'
    BY <1>1, <1>3, FocusConstants
  <2>2. \A t \in Tids : nextIdx' <= t => nextIdx <= t
    BY <1>1, <1>3, FocusConstants
  <2>3. nextIdx < nextIdx' /\ nextIdx' \in Nat
    BY <1>1, <1>3
  <2>4. DOMAIN thr' \subseteq Tids
    BY <1>1, <1>4 DEF FInv, TidsKnown
  <2>5. \A t \in DOMAIN thr' : t < nextIdx'
    BY <1>4, <2>1, <2>3 DEF FInv, TidsKnown
  <2> QED BY <1>5, <1>6, <2>1, <2>2, <2>3, <2>4, <2>5 DEF FInv, TidsKnown
<1>9. \A u : FrameOf(u)' = FrameOf(u)
  BY <1>6 DEF FrameOf
<1>10. FrameOf(nextIdx) = [stops |-> 0, at |-> Top]
  BY <1>7 DEF FrameOf
<1>11. FrameOf(nextIdx).stops = 0 /\ FrameOf(nextIdx).at = Top
  BY <1>10
<1>12. CountsNoted'
  <2> SUFFICES ASSUME NEW u \in DOMAIN thr'
               PROVE  /\ u \in DOMAIN seenStops => seenStops[u] \in 0..thr'[u].stops
                      /\ u \in DOMAIN cached => cached[u].stops \in 0..thr'[u].stops
                      /\ FrameOf(u).stops \in 0..thr'[u].stops
    BY <1>6, <1>9 DEF CountsNoted
  <2>1. CASE u = nextIdx
    BY <1>2, <1>4, <1>7, <1>11, <2>1
  <2>2. CASE u \in DOMAIN thr
    BY <1>4, <2>2 DEF FInv, CountsNoted
  <2> QED BY <1>4, <2>1, <2>2
<1>13. AlarmsUnseen'
  BY <1>2, <1>4, <1>6, <1>7 DEF FInv, AlarmsUnseen, Unseen
<1>14. FramesWanted'
  <2>1. \A u \in DOMAIN thr : NewStop(u)' <=> NewStop(u)
    BY <1>4, <1>9 DEF NewStop
  <2>2. \A u \in DOMAIN thr' : u = nextIdx => ~NewStop(u)'
    BY <1>2, <1>4, <1>9, <1>11 DEF NewStop
  <2>3. \A u \in DOMAIN thr' : /\ NewStop(u)' => want[u] = Fresh
                               /\ ~NewStop(u)' => want[u] = FrameOf(u).at /\ want[u] \in Place
    BY <1>4, <1>7, <1>11, <2>1, <2>2, PlaceNotFresh DEF FInv, FramesWanted
  <2> QED BY <1>6, <1>9, <2>3 DEF FInv, FramesWanted
<1>15. FilterCurrent'
  <2>1. \A u \in DOMAIN thr : \A q : ThreadPasses(u, q)' = ThreadPasses(u, q)
    BY <1>4, <1>6 DEF ThreadPasses, StackTrace
  <2> QED BY <1>4, <1>6, <1>7, <2>1 DEF FInv, FilterCurrent
<1>16. UrgentStopSelected' /\ CodeFollows'
  BY <1>1 DEF Between, UrgentStopSelected, CodeFollows, NoRequest
<1> QED BY <1>8, <1>12, <1>13, <1>14, <1>15, <1>16 DEF FInv

LEMMA ExitThreadInv ==
    ASSUME FInv, ExitThread PROVE FInv'
<1>1. PICK t \in DOMAIN thr :
        /\ thr[t].running /\ thr' = Without(thr, t)
        /\ Between /\ UNCHANGED <<nextIdx, loaded, filterVars, windowVars, rerequest, historyVars>>
  BY DEF ExitThread
<1>2. /\ DOMAIN thr' = DOMAIN thr \ {t} /\ \A u \in DOMAIN thr' : u \in DOMAIN thr /\ thr'[u] = thr[u]
      /\ thr' \in [DOMAIN thr' -> ThreadRecord]
  BY <1>1 DEF Without, FInv, TidsKnown
<1>3. /\ nextIdx' = nextIdx /\ loaded' = loaded /\ cacheKey' = cacheKey /\ cached' = cached /\ want' = want /\ alarms' = alarms
      /\ seenStops' = seenStops /\ selThread' = selThread /\ frames' = frames /\ told' = told /\ selSub' = selSub
  BY <1>1 DEF filterVars, windowVars, historyVars
<1>4. TidsKnown'
  BY <1>2, <1>3 DEF FInv, TidsKnown
<1>5. \A u : FrameOf(u)' = FrameOf(u)
  BY <1>3 DEF FrameOf
<1>6. CountsNoted'
  BY <1>2, <1>3, <1>5 DEF FInv, CountsNoted
<1>7. AlarmsUnseen'
  BY <1>2, <1>3 DEF FInv, AlarmsUnseen, Unseen
<1>8. FramesWanted'
  <2>1. \A u \in DOMAIN thr' : NewStop(u)' <=> NewStop(u)
    BY <1>2, <1>5 DEF NewStop
  <2> QED BY <1>2, <1>3, <1>5, <2>1 DEF FInv, FramesWanted
<1>9. FilterCurrent'
  <2>1. \A u \in DOMAIN thr' : \A q : ThreadPasses(u, q)' = ThreadPasses(u, q)
    BY <1>2, <1>3 DEF ThreadPasses, StackTrace
  <2> QED BY <1>2, <1>3, <2>1 DEF FInv, FilterCurrent
<1>10. UrgentStopSelected' /\ CodeFollows'
  BY <1>1 DEF Between, UrgentStopSelected, CodeFollows, NoRequest
<1> QED BY <1>4, <1>6, <1>7, <1>8, <1>9, <1>10 DEF FInv

LEMMA SymbolsLoadedInv ==
    ASSUME FInv, SymbolsLoaded PROVE FInv'
<1>1. /\ cached' = <<>> /\ Between /\ UNCHANGED <<thr, nextIdx, cacheKey, windowVars, historyVars>>
  BY DEF SymbolsLoaded
<1>2. /\ thr' = thr /\ nextIdx' = nextIdx /\ cacheKey' = cacheKey /\ want' = want /\ alarms' = alarms
      /\ seenStops' = seenStops /\ selThread' = selThread /\ frames' = frames /\ told' = told /\ selSub' = selSub
      /\ DOMAIN cached' = {}
  BY <1>1, NoDomain DEF windowVars, historyVars
<1>3. TidsKnown'
  BY <1>2 DEF FInv, TidsKnown
<1>4. CountsNoted' /\ FilterCurrent'
  BY <1>2 DEF FInv, CountsNoted, FilterCurrent, FrameOf
<1>5. AlarmsUnseen' /\ FramesWanted'
  BY <1>2 DEF FInv, AlarmsUnseen, Unseen, FramesWanted, NewStop, FrameOf
<1>6. UrgentStopSelected' /\ CodeFollows'
  BY <1>1 DEF Between, UrgentStopSelected, CodeFollows, NoRequest
<1> QED BY <1>3, <1>4, <1>5, <1>6 DEF FInv

-----------------------------------------------------------------------------
(* A frame of the UI: the threads window.                                    *)

LEMMA RowsAre ==
    ASSUME NEW tids, IsFiniteSet(tids), NEW byCpu \in BOOLEAN, NEW rows, rows = Rows(tids, byCpu)
    PROVE  Len(rows) \in Nat /\ DOMAIN rows = 1..Len(rows)
<1>1. Cardinality(tids) \in Nat
  BY FS_CardinalityType
<1> DEFINE n == Cardinality(tids)
<1>2. rows = [i \in 1..n |-> CHOOSE t \in tids : Cardinality({u \in tids : IF byCpu THEN u >= t ELSE u <= t}) = i]
  BY DEF Rows
<1> HIDE DEF n
<1> DEFINE S == {rows[i] : i \in 1..n}
<1>3. n \in Nat
  BY <1>1 DEF n
<1>4. DOMAIN rows = 1..n
  BY <1>2
<1>5. rows = [i \in 1..n |-> rows[i]]
  BY <1>2
<1>6. rows \in [1..n -> S]
  BY <1>4, <1>5
<1>7. rows \in Seq(S)
  BY <1>3, <1>6
<1> HIDE DEF S
<1> QED BY <1>7

LEMMA LesserFirst == ASSUME NEW a \in Int, NEW b \in Int, a <= b PROVE Lesser(a, b) = a
BY DEF Lesser

\* Without a key, the cursor stays on the thread that is to be selected.
LEMMA CursorStays ==
    ASSUME NEW rows, Len(rows) \in Nat, DOMAIN rows = 1..Len(rows), NEW sel \in DOMAIN thr
    PROVE  ThreadCursor(rows, sel, "none").tid = sel
<1> DEFINE here == {i \in DOMAIN rows : rows[i] = sel}
           elsewhere == sel \in DOMAIN thr /\ here = {} /\ "none" \notin {"prev", "next"}
           from == IF here # {} THEN (CHOOSE i \in here : TRUE) - 1
                   ELSE IF elsewhere THEN Len(rows) ELSE threadCursor
           cursor == Navigate(from, Len(rows), "none")
<1>1. ThreadCursor(rows, sel, "none").tid =
        IF elsewhere /\ "none" \notin {"up", "down"} THEN sel
        ELSE IF cursor < Len(rows) THEN rows[cursor + 1] ELSE NoTid
  BY DEF ThreadCursor
<1>2. CASE here = {}
  <2>1. elsewhere
    BY <1>2
  <2> HIDE DEF elsewhere, cursor
  <2> QED BY <1>1, <2>1
<1>3. CASE here # {}
  <2>1. PICK i : i = (CHOOSE h \in here : TRUE) /\ i \in here
    BY <1>3
  <2>2. i \in 1..Len(rows) /\ rows[i] = sel /\ from = i - 1 /\ ~elsewhere
    BY <1>3, <2>1
  <2> HIDE DEF from, elsewhere, here
  <2>3. cursor = i - 1
    <3>1. Len(rows) # 0 /\ from \in Int /\ from <= Len(rows) - 1 /\ Len(rows) - 1 \in Int
      BY <2>2
    <3>2. Navigate(from, Len(rows), "none") = Lesser(from, Len(rows) - 1)
      BY <3>1 DEF Navigate
    <3>3. Lesser(from, Len(rows) - 1) = from
      BY <3>1, LesserFirst
    <3> QED BY <2>2, <3>2, <3>3
  <2> HIDE DEF cursor
  <2>4. cursor < Len(rows) /\ cursor + 1 = i
    BY <2>2, <2>3
  <2> QED BY <1>1, <2>2, <2>4
<1> QED BY <1>2, <1>3

\* The threads that are owed a switch are the ones that get it.
LEMMA DueIsUnseen ==
    ASSUME FInv PROVE {t \in alarms \cap DOMAIN thr : ~thr[t].running} = Unseen
BY DEF FInv, AlarmsUnseen, Unseen

LEMMA UrgentSelected ==
    ASSUME FInv, NEW query, NEW byCpu \in BOOLEAN, NEW k,
           NEW sel \in (IF Unseen = {} THEN {selThread} ELSE Urgent(Unseen)),
           selThread' = ThreadCursor(Rows(FilteredTids(query), byCpu), sel, k).tid,
           due' = IF k = "none" THEN Urgent({t \in alarms \cap DOMAIN thr : ~thr[t].running}) ELSE {}
    PROVE  UrgentStopSelected'
<1>1. CASE k # "none" \/ Unseen = {}
  BY <1>1, DueIsUnseen DEF UrgentStopSelected, Urgent
<1>2. CASE k = "none" /\ Unseen # {}
  <2>1. sel \in Urgent(Unseen) /\ sel \in DOMAIN thr /\ due' = Urgent(Unseen)
    BY <1>2, DueIsUnseen DEF Urgent, Unseen
  <2>2. IsFiniteSet(FilteredTids(query))
    <3>1. FilteredTids(query) \subseteq Tids
      BY DEF FilteredTids, FInv, TidsKnown
    <3> QED BY <3>1, FocusConstants, FS_Subset
  <2> DEFINE rows == Rows(FilteredTids(query), byCpu)
  <2>3. Len(rows) \in Nat /\ DOMAIN rows = 1..Len(rows)
    BY <2>2, RowsAre
  <2> HIDE DEF rows
  <2>4. ThreadCursor(rows, sel, "none").tid = sel
    BY <2>1, <2>3, CursorStays
  <2>5. selThread' = sel
    BY <1>2, <2>4 DEF rows
  <2> QED BY <2>1, <2>5 DEF UrgentStopSelected
<1> QED BY <1>1, <1>2

-----------------------------------------------------------------------------
(* The stack window.                                                         *)

\* Nothing on the stack: only entries of threads that are gone are dropped.
Forgets ==
    /\ \A u \in DOMAIN frames' : u \in DOMAIN frames
    /\ \A u \in DOMAIN thr : FrameOf(u)' = FrameOf(u)

LEMMA EmptyStack ==
    ASSUME NEW t, NEW j, StackBuild(t, j), StackTrace(t) = <<>>
    PROVE  told' = told /\ want' = want /\ request' = NoRequest /\ selSub' = 0 /\ Forgets
<1>1. /\ told' = told /\ want' = want /\ request' = NoRequest /\ selSub' = 0
      /\ frames' = IF Cardinality(DOMAIN frames) > 2 * Cardinality(DOMAIN thr)
                   THEN [u \in DOMAIN frames \cap DOMAIN thr |-> frames[u]]
                   ELSE frames
  BY DEF StackBuild
<1>2. frames' = frames \/ frames' = [u \in DOMAIN frames \cap DOMAIN thr |-> frames[u]]
  BY <1>1
<1>3. Forgets
  <2>1. CASE frames' = frames
    BY <2>1 DEF Forgets, FrameOf
  <2>2. CASE frames' = [u \in DOMAIN frames \cap DOMAIN thr |-> frames[u]]
    BY <2>2 DEF Forgets, FrameOf
  <2> QED BY <1>2, <2>1, <2>2
<1> QED BY <1>1, <1>3

\* A stack is shown: the focus is where the user left it, or where the stop put it.
LEMMA StackShown ==
    ASSUME FInv, NEW t, NEW j, StackBuild(t, j), StackTrace(t) # <<>>
    PROVE  /\ t \in DOMAIN thr /\ selSub' \in Nat /\ request'.asked = request'.owed
           /\ \E at \in Place : /\ frames' = Remember(t, at) /\ told' = [tid |-> t, at |-> at]
                                /\ want' = [want EXCEPT ![t] = at]
<1> DEFINE s == StackTrace(t)
           cur == Navigate(SubCursor(t), Len(s), j)
           at == StableSubframe(s, cur)
           w == IF want[t] = Fresh THEN Greater(thr[t].select, 0) ELSE SubframeIdx(want[t], s)
           now == StableSubframe(s, Navigate(w, Len(s), j))
           owed == IF want[t] = Fresh \/ j # "none" \/ told # [tid |-> t, at |-> now]
                   THEN "follow" ELSE IF rerequest THEN "retry" ELSE "none"
<1>1. t \in DOMAIN thr /\ s \in Stacks /\ t \in Tids /\ thr[t].select \in Int
  BY StackIs, RecordFacts DEF FInv
<1>2. /\ selSub' = cur /\ frames' = Remember(t, at) /\ told' = [tid |-> t, at |-> at]
      /\ want' = [want EXCEPT ![t] = now]
      /\ request' = [asked |-> Request(t, at, j), owed |-> owed]
  BY DEF StackBuild
<1>3. Len(s) \in Nat \ {0}
  BY <1>1 DEF Stacks
<1> HIDE DEF s
<1>4. SubCursor(t) = w /\ w \in Nat /\ (NewStop(t) <=> want[t] = Fresh)
  <2>1. CASE NewStop(t)
    <3>1. want[t] = Fresh
      BY <1>1, <2>1 DEF FInv, FramesWanted
    <3>2. SubCursor(t) = Greater(thr[t].select, 0)
      BY <2>1 DEF SubCursor
    <3>3. Greater(thr[t].select, 0) \in Nat
      BY <1>1 DEF Greater
    <3> QED BY <2>1, <3>1, <3>2, <3>3
  <2>2. CASE ~NewStop(t)
    <3>1. want[t] = FrameOf(t).at /\ want[t] \in Place /\ want[t] # Fresh
      BY <1>1, <2>2, PlaceNotFresh DEF FInv, FramesWanted
    <3>2. SubCursor(t) = SubframeIdx(FrameOf(t).at, s)
      BY <2>2 DEF SubCursor, s
    <3>3. SubframeIdx(want[t], s) \in Nat
      BY <1>1, <3>1, SubframeIdxNat
    <3> QED BY <2>2, <3>1, <3>2, <3>3
  <2> QED BY <2>1, <2>2
<1> HIDE DEF w
<1>5. now = at /\ cur \in 0..(Len(s) - 1)
  BY <1>3, <1>4, NavigateIn
<1>6. at \in Place
  BY <1>1, <1>5, StablePlace
<1>7. Request(t, at, j) = owed
  BY <1>4, <1>5, Zenon DEF Request
<1> HIDE DEF at, now, owed, cur
<1>8. selSub' \in Nat
  BY <1>2, <1>3, <1>5
<1>9. request'.asked = request'.owed
  BY <1>2, <1>7
<1> QED BY <1>1, <1>2, <1>5, <1>6, <1>8, <1>9

LEMMA Remembers ==
    ASSUME NEW t \in DOMAIN thr, NEW at, frames' = Remember(t, at)
    PROVE  /\ \A u \in DOMAIN frames' : u \in DOMAIN frames \/ u = t
           /\ FrameOf(t)' = [stops |-> thr[t].stops, at |-> at]
           /\ \A u \in DOMAIN thr : u # t => FrameOf(u)' = FrameOf(u)
<1> DEFINE all == [u \in DOMAIN frames \cup {t} |->
                     IF u = t THEN [stops |-> thr[t].stops, at |-> at] ELSE frames[u]]
<1>1. frames' = all \/ frames' = [u \in DOMAIN all \cap DOMAIN thr |-> all[u]]
  BY DEF Remember
<1>2. /\ DOMAIN all = DOMAIN frames \cup {t} /\ all[t] = [stops |-> thr[t].stops, at |-> at]
      /\ \A u \in DOMAIN frames : u # t => all[u] = frames[u]
  OBVIOUS
<1> HIDE DEF all
<1>3. /\ \A u \in DOMAIN frames' : u \in DOMAIN all
      /\ \A u \in DOMAIN thr : u \in DOMAIN all <=> u \in DOMAIN frames'
      /\ \A u \in DOMAIN thr \cap DOMAIN all : frames'[u] = all[u]
  BY <1>1
<1> QED BY <1>2, <1>3 DEF FrameOf

LEMMA FrameInv ==
    ASSUME FInv, Frame PROVE FInv'
<1>1. PICK k \in ThreadKeys, j \in {"none", "prev", "next"}, query \in {"all", "some"}, byCpu \in BOOLEAN :
        /\ \E sel \in IF Unseen = {} THEN {selThread} ELSE Urgent(Unseen) :
           \E table \in {ThreadCursor(Rows(FilteredTids(query), byCpu), sel, k)} :
               /\ threadCursor' = table.cursor
               /\ selThread' = table.tid
               /\ StackBuild(table.tid, j)
        /\ seenStops' = SeenStops
        /\ cacheKey' = query
        /\ cached' = [t \in DOMAIN thr |-> CachedResult(t, query)]
        /\ due' = IF k = "none" THEN Urgent({t \in alarms \cap DOMAIN thr : ~thr[t].running})
                  ELSE {}
        /\ alarms' = {}
        /\ UNCHANGED debuggerVars
  BY DEF Frame
<1>2. PICK sel \in IF Unseen = {} THEN {selThread} ELSE Urgent(Unseen) :
        /\ selThread' = ThreadCursor(Rows(FilteredTids(query), byCpu), sel, k).tid
        /\ StackBuild(ThreadCursor(Rows(FilteredTids(query), byCpu), sel, k).tid, j)
  BY <1>1
<1>3. thr' = thr /\ nextIdx' = nextIdx /\ loaded' = loaded
  BY <1>1 DEF debuggerVars
<1>4. UrgentStopSelected'
  BY <1>1, <1>2, UrgentSelected
<1>5. PICK t : t = ThreadCursor(Rows(FilteredTids(query), byCpu), sel, k).tid /\ StackBuild(t, j)
  BY <1>2
<1>6. /\ seenStops' = SeenStops /\ cacheKey' = query /\ alarms' = {}
      /\ cached' = [u \in DOMAIN thr |-> CachedResult(u, query)]
  BY <1>1
<1>7. /\ \A u \in DOMAIN seenStops' : u \in DOMAIN thr
      /\ \A u \in DOMAIN thr : /\ thr[u].reason # NoReason => u \in DOMAIN seenStops' /\ seenStops'[u] = thr[u].stops
                               /\ u \in DOMAIN seenStops' /\ thr[u].reason = NoReason =>
                                    u \in DOMAIN seenStops /\ seenStops'[u] = seenStops[u]
  BY <1>6 DEF SeenStops
<1>8. /\ DOMAIN cached' = DOMAIN thr
      /\ \A u \in DOMAIN thr : cached'[u] = CachedResult(u, query)
  BY <1>6
<1>9. \A u \in DOMAIN thr : CachedResult(u, query).stops = thr[u].stops
  BY DEF CachedResult
<1>10. FilterCurrent'
  <2>1. \A u \in DOMAIN thr : ThreadPasses(u, query)' = ThreadPasses(u, query)
    BY <1>3 DEF ThreadPasses, StackTrace
  <2>2. \A u \in DOMAIN thr : ~thr[u].running => CachedResult(u, query).pass = ThreadPasses(u, query)
    <3> TAKE u \in DOMAIN thr
    <3> HAVE ~thr[u].running
    <3>1. CASE cacheKey = query /\ u \in DOMAIN cached /\ cached[u].stops = thr[u].stops
      <4>1. CachedResult(u, query) = cached[u]
        BY <3>1 DEF CachedResult
      <4>2. cached[u].pass = ThreadPasses(u, cacheKey)
        BY <3>1 DEF FInv, FilterCurrent
      <4> QED BY <3>1, <4>1, <4>2
    <3>2. CASE ~(cacheKey = query /\ u \in DOMAIN cached /\ cached[u].stops = thr[u].stops)
      <4>1. CachedResult(u, query) = [stops |-> thr[u].stops, pass |-> ThreadPasses(u, query)]
        BY <3>2, Zenon DEF CachedResult
      <4> QED BY <4>1
    <3> QED BY <3>1, <3>2
  <2>3. \A u \in DOMAIN cached' \cap DOMAIN thr' :
           (cached'[u].stops = thr'[u].stops /\ ~thr'[u].running) => cached'[u].pass = ThreadPasses(u, query)'
    BY <1>3, <1>8, <2>1, <2>2
  <2>4. \A u \in DOMAIN thr : ThreadPasses(u, cacheKey)' = ThreadPasses(u, query)'
    BY <1>6 DEF ThreadPasses
  <2> QED BY <1>3, <1>8, <2>3, <2>4 DEF FilterCurrent
<1>11. AlarmsUnseen'
  BY <1>3, <1>6, <1>7 DEF FInv, AlarmsUnseen, Unseen
<1>12. CASE StackTrace(t) = <<>>
  <2>1. told' = told /\ want' = want /\ request' = NoRequest /\ selSub' = 0 /\ Forgets
    BY <1>5, <1>12, EmptyStack
  <2>2. TidsKnown'
    BY <1>3, <1>6, <1>7, <1>8, <2>1 DEF FInv, TidsKnown, Forgets
  <2>3. CountsNoted'
    <3>1. \A u \in DOMAIN thr : thr[u].stops \in Nat
      BY RecordFacts DEF FInv
    <3> QED BY <1>3, <1>7, <1>8, <1>9, <2>1, <3>1 DEF FInv, CountsNoted, Forgets
  <2>4. FramesWanted'
    <3>1. \A u \in DOMAIN thr : NewStop(u)' <=> NewStop(u)
      BY <1>3, <2>1 DEF NewStop, Forgets
    <3> QED BY <1>3, <2>1, <3>1 DEF FInv, FramesWanted, Forgets
  <2>5. CodeFollows'
    BY <2>1 DEF CodeFollows, NoRequest
  <2> QED BY <1>4, <1>10, <1>11, <2>2, <2>3, <2>4, <2>5 DEF FInv
<1>13. CASE StackTrace(t) # <<>>
  <2>1. t \in DOMAIN thr /\ selSub' \in Nat /\ request'.asked = request'.owed
    BY <1>5, <1>13, StackShown
  <2>2. PICK at \in Place : /\ frames' = Remember(t, at) /\ told' = [tid |-> t, at |-> at]
                            /\ want' = [want EXCEPT ![t] = at]
    BY <1>5, <1>13, StackShown
  <2>3. /\ \A u \in DOMAIN frames' : u \in DOMAIN frames \/ u = t
        /\ FrameOf(t)' = [stops |-> thr[t].stops, at |-> at]
        /\ \A u \in DOMAIN thr : u # t => FrameOf(u)' = FrameOf(u)
    BY <2>1, <2>2, Remembers
  <2>4. t \in Tids /\ t < nextIdx /\ t \in Nat /\ nextIdx \in Nat
    BY <2>1, RecordFacts DEF FInv, TidsKnown
  <2>5. /\ want' \in [Tids -> Place \cup {Fresh}] /\ want'[t] = at
        /\ \A u \in Tids : u # t => want'[u] = want[u]
    BY <2>2, <2>4 DEF FInv, TidsKnown
  <2>6. TidsKnown'
    <3>1. \A u \in Tids : nextIdx <= u => want'[u] = Top
      BY <2>4, <2>5, FocusConstants DEF FInv, TidsKnown
    <3>2. \A u \in DOMAIN seenStops' \cup DOMAIN frames' \cup DOMAIN cached' \cup alarms' : u \in Tids /\ u < nextIdx
      BY <1>6, <1>7, <1>8, <2>3, <2>4 DEF FInv, TidsKnown
    <3> QED BY <1>3, <2>1, <2>5, <3>1, <3>2 DEF FInv, TidsKnown
  <2>7. FrameOf(t)' .stops = thr[t].stops /\ FrameOf(t)' .at = at
    BY <2>3
  <2>8. CountsNoted'
    <3>1. \A u \in DOMAIN thr : thr[u].stops \in Nat
      BY RecordFacts DEF FInv
    <3>2. \A u \in DOMAIN thr : FrameOf(u)' .stops \in 0..thr[u].stops
      BY <2>3, <2>7, <3>1 DEF FInv, CountsNoted
    <3> QED BY <1>3, <1>7, <1>8, <1>9, <3>1, <3>2 DEF FInv, CountsNoted
  <2>9. FramesWanted'
    <3>1. \A u \in DOMAIN thr : u # t => (NewStop(u)' <=> NewStop(u)) /\ want'[u] = want[u]
      BY <1>3, <2>3, <2>5 DEF NewStop, FInv, TidsKnown
    <3>2. ~NewStop(t)'
      BY <1>3, <2>7 DEF NewStop
    <3>3. \A u \in DOMAIN thr : /\ NewStop(u)' => want'[u] = Fresh
                                /\ ~NewStop(u)' => want'[u] = FrameOf(u)' .at /\ want'[u] \in Place
      BY <2>3, <2>5, <2>7, <3>1, <3>2 DEF FInv, FramesWanted
    <3>4. told'.tid = t /\ told'.at = at
      BY <2>2
    <3> QED BY <1>3, <2>5, <3>3, <3>4 DEF FramesWanted
  <2>10. CodeFollows'
    BY <2>1 DEF CodeFollows
  <2> QED BY <1>4, <1>10, <1>11, <2>6, <2>8, <2>9, <2>10 DEF FInv
<1> QED BY <1>12, <1>13

LEMMA FocusInitInv == FocusInit => FInv
<1> SUFFICES ASSUME FocusInit PROVE FInv
  OBVIOUS
<1> DEFINE x == [stops |-> 0, reason |-> NoReason, running |-> TRUE, select |-> -1]
<1>1. /\ thr = [t \in {1} |-> x] /\ nextIdx = 2 /\ cached = <<>> /\ seenStops = <<>> /\ frames = <<>>
      /\ told = [tid |-> NoTid, at |-> Top] /\ selSub = 0 /\ request = NoRequest
      /\ alarms = {} /\ due = {} /\ want = [t \in Tids |-> Top]
  BY DEF FocusInit
<1>2. x \in ThreadRecord /\ x.stops = 0 /\ x.running = TRUE /\ x.reason = NoReason
  BY DEF ThreadRecord, NoReason
<1> HIDE DEF x
<1>3. DOMAIN thr = {1} /\ thr[1] = x /\ thr \in [DOMAIN thr -> ThreadRecord]
  BY <1>1, <1>2
<1>4. DOMAIN cached = {} /\ DOMAIN seenStops = {} /\ DOMAIN frames = {}
  BY <1>1, NoDomain
<1>5. want \in [Tids -> Place] /\ \A t \in Tids : want[t] = Top
  BY <1>1, PlaceNotFresh
<1>6. TidsKnown
  BY <1>1, <1>3, <1>4, <1>5, FocusConstants DEF TidsKnown
<1>7. FrameOf(1) = [stops |-> 0, at |-> Top]
  BY <1>4 DEF FrameOf
<1>8. FrameOf(1).stops = 0 /\ FrameOf(1).at = Top
  BY <1>7
<1>9. CountsNoted /\ AlarmsUnseen /\ FilterCurrent
  BY <1>1, <1>2, <1>3, <1>4, <1>8 DEF CountsNoted, AlarmsUnseen, Unseen, FilterCurrent
<1>10. FramesWanted
  <2>1. ~NewStop(1)
    BY <1>2, <1>3, <1>8 DEF NewStop
  <2>2. told.at = Top
    BY <1>1
  <2> QED BY <1>3, <1>5, <1>8, <2>1, <2>2, FocusConstants, PlaceNotFresh DEF FramesWanted
<1>11. UrgentStopSelected /\ CodeFollows
  BY <1>1 DEF UrgentStopSelected, CodeFollows, NoRequest
<1> QED BY <1>6, <1>9, <1>10, <1>11 DEF FInv

LEMMA FocusStutter ==
    ASSUME FInv, UNCHANGED focusVars PROVE FInv'
<1>1. /\ thr' = thr /\ nextIdx' = nextIdx /\ loaded' = loaded /\ cacheKey' = cacheKey /\ want' = want /\ alarms' = alarms
      /\ seenStops' = seenStops /\ selThread' = selThread /\ frames' = frames /\ told' = told /\ selSub' = selSub
      /\ cached' = cached /\ request' = request /\ due' = due
  BY DEF focusVars, debuggerVars, filterVars, windowVars, historyVars
<1>2. TidsKnown' /\ CountsNoted' /\ AlarmsUnseen' /\ FramesWanted'
  BY <1>1 DEF FInv, TidsKnown, CountsNoted, AlarmsUnseen, FramesWanted, FrameOf, NewStop, Unseen
<1>3. FilterCurrent'
  <2>1. \A u, q : ThreadPasses(u, q)' = ThreadPasses(u, q)
    BY <1>1 DEF ThreadPasses, StackTrace
  <2> QED BY <1>1, <2>1 DEF FInv, FilterCurrent
<1>4. UrgentStopSelected' /\ CodeFollows'
  BY <1>1 DEF FInv, UrgentStopSelected, CodeFollows
<1> QED BY <1>2, <1>3, <1>4 DEF FInv

\* The focus follows what stopped and stays where the user put it (threads and
\* stack windows of ui.rs): an urgent stop nobody has seen is selected, the frame
\* shown is the one the user left or the last stop chose, the filter of the
\* threads is up to date, and the code windows are told to move exactly when the
\* focus moved.  Any number of threads, stops, exits and frames in any order.
THEOREM FocusCorrect == FocusSpec => []FocusRight
<1>1. FocusInit => FInv
  BY FocusInitInv
<1>2. FInv /\ [FocusNext]_focusVars => FInv'
  <2> SUFFICES ASSUME FInv, [FocusNext]_focusVars PROVE FInv'
    OBVIOUS
  <2>1. CASE UNCHANGED focusVars
    BY <2>1, FocusStutter
  <2>2. CASE FocusNext
    BY <2>2, FocusStopInv, ResumeThreadInv, NewThreadInv, ExitThreadInv, SymbolsLoadedInv, StepIntoInv, FrameInv
       DEF FocusNext
  <2> QED BY <2>1, <2>2
<1>3. FInv => FocusRight
  <2> SUFFICES ASSUME FInv PROVE FocusRight
    OBVIOUS
  <2>1. FocusRemembered
    BY DEF FInv, TidsKnown, FramesWanted, FocusRemembered
  <2> QED BY <2>1 DEF FInv, FocusRight
<1> QED BY <1>1, <1>2, <1>3, PTL DEF FocusSpec
=============================================================================
