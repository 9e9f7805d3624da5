-------------------------------- MODULE Pool --------------------------------
(***************************************************************************)
(* The generational pool of pool.rs, which hands out the ids of            *)
(* breakpoints, windows and regions.  An id is a slot number and the       *)
(* sequence number the slot had when the id was issued; the holder of an   *)
(* id keeps it while others remove the value and reuse the slot, and asks  *)
(* again later.                                                            *)
(*                                                                         *)
(* Slots are numbered from 1 (the code: from 0).  clear() is a loop; its   *)
(* iterations are steps (`clearing` is the next slot, 0 outside the call), *)
(* and no other call runs between them, as &mut self demands.  The ghost   *)
(* variables record what the callers did: `added` the values with the ids  *)
(* they got, `gone` those that were removed or cleared.                    *)
(***************************************************************************)
EXTENDS Naturals, Sequences, FiniteSets

CONSTANTS Values,   \* what callers store
          NoValue,  \* the None of Slot::val
          MaxAdds   \* bound: number of calls of add

ASSUME PoolAssumption == NoValue \notin Values /\ MaxAdds \in Nat

VARIABLES slots,      \* Pool::slots, a sequence of [seqno, val]
          vacant,     \* Pool::vacant, a stack of slot numbers
          nextSeqno,  \* Pool::next_seqno
          clearing,
          added, gone

poolVars == <<slots, vacant, nextSeqno, clearing, added, gone>>

SlotRecords == [seqno : Nat, val : Values \union {NoValue}]
Entries == [slot : Nat, seqno : Nat, val : Values]

Init ==
    /\ slots = <<>>
    /\ vacant = <<>>
    /\ nextSeqno = 1
    /\ clearing = 0
    /\ added = {}
    /\ gone = {}

\* The shared lookup of remove(), try_get() and try_get_mut().
Occupied(slot, seqno) ==
    /\ slot \in DOMAIN slots
    /\ slots[slot].seqno = seqno

TryGet(slot, seqno) ==
    IF Occupied(slot, seqno) THEN slots[slot].val ELSE NoValue

\* Mutant: the slot keeps the sequence number of its first value.
Refill_KeepsSeqno(slot, v) ==
    slots' = [slots EXCEPT ![slot].val = v]

\* add() into a vacant slot.
Refill(slot, v) ==
    slots' = [slots EXCEPT ![slot] = [seqno |-> nextSeqno, val |-> v]]

AddReuses(v) ==
    /\ vacant # <<>>
    /\ Refill(vacant[Len(vacant)], v)
    /\ vacant' = SubSeq(vacant, 1, Len(vacant) - 1)
    /\ added' = added \union
         {[slot |-> vacant[Len(vacant)], seqno |-> nextSeqno, val |-> v]}

AddGrows(v) ==
    /\ vacant = <<>>
    /\ slots' = Append(slots, [seqno |-> nextSeqno, val |-> v])
    /\ vacant' = vacant
    /\ added' = added \union
         {[slot |-> Len(slots) + 1, seqno |-> nextSeqno, val |-> v]}

Add(v) ==
    /\ clearing = 0
    /\ nextSeqno <= MaxAdds
    /\ nextSeqno' = nextSeqno + 1
    /\ AddReuses(v) \/ AddGrows(v)
    /\ UNCHANGED <<clearing, gone>>

Vacate(slot) ==
    /\ slots' = [slots EXCEPT ![slot].val = NoValue]
    /\ vacant' = Append(vacant, slot)

\* Mutant: the slot is pushed on the vacant stack even if it was empty.
RemoveFrom_Always(slot, seqno) ==
    IF Occupied(slot, seqno) THEN Vacate(slot) ELSE UNCHANGED <<slots, vacant>>

RemoveFrom(slot, seqno) ==
    IF TryGet(slot, seqno) # NoValue
    THEN Vacate(slot)
    ELSE UNCHANGED <<slots, vacant>>

\* remove() of any id ever issued, however stale.
Remove(e) ==
    /\ clearing = 0
    /\ RemoveFrom(e.slot, e.seqno)
    /\ gone' = gone \union {e}
    /\ UNCHANGED <<nextSeqno, clearing, added>>

ClearBegins ==
    /\ clearing = 0
    /\ slots # <<>>
    /\ clearing' = 1
    /\ UNCHANGED <<slots, vacant, nextSeqno, added, gone>>

ClearSlot ==
    /\ clearing # 0
    /\ IF slots[clearing].val # NoValue
       THEN Vacate(clearing)
       ELSE UNCHANGED <<slots, vacant>>
    /\ gone' = gone \union {e \in added : e.slot = clearing}
    /\ clearing' = IF clearing = Len(slots) THEN 0 ELSE clearing + 1
    /\ UNCHANGED <<nextSeqno, added>>

Next ==
    \/ \E v \in Values : Add(v)
    \/ \E e \in added : Remove(e)
    \/ ClearBegins
    \/ ClearSlot

Spec == Init /\ [][Next]_poolVars

-----------------------------------------------------------------------------

\* Every variable has its type.
TypeOK ==
    /\ slots \in Seq(SlotRecords)
    /\ vacant \in Seq(Nat)
    /\ nextSeqno \in Nat
    /\ clearing \in Nat
    /\ added \in SUBSET Entries
    /\ gone \in SUBSET added

\* PoolIter: the ids and values a walk over the pool yields.
Iter ==
    {[slot |-> s, seqno |-> slots[s].seqno, val |-> slots[s].val] :
        s \in {t \in DOMAIN slots : slots[t].val # NoValue}}

\* An id resolves to the value it was issued for as long as that value is in
\* the pool, and to nothing ever after, whoever uses its slot since.
IdsExact ==
    \A e \in added :
        TryGet(e.slot, e.seqno) = IF e \in gone THEN NoValue ELSE e.val

\* Iteration yields exactly the values that are in the pool.
IterExact == Iter = added \ gone

\* The vacant stack holds each empty slot once, so is_empty() may compare
\* lengths and add() never overwrites a value.
VacantExact ==
    /\ \A i, j \in DOMAIN vacant : vacant[i] = vacant[j] => i = j
    /\ {vacant[i] : i \in DOMAIN vacant}
         = {s \in DOMAIN slots : slots[s].val = NoValue}

\* What users of the pool rely on: stale ids stay dead, iteration is
\* complete, and the free list describes the empty slots.
PoolExact == IdsExact /\ IterExact /\ VacantExact

\* An id that was removed finds nothing, though its slot is used again.
PoolSound == TypeOK /\ PoolExact
=============================================================================
