------------------------------- MODULE Unwind -------------------------------
(* Stack unwinding: unwind_stack() of debugger.rs with UnwindInfo::step() and *)
(* its three ways down (unwind.rs): frame descriptions of the binary, frame   *)
(* pointers, and machine code of signal trampolines.  A thread runs a program *)
(* and may be stopped at any instruction, in a prelude, an epilogue or a      *)
(* signal handler; the stack trace must then be the chain of its callers.     *)
(* The unit of addresses is a word, and an instruction.                       *)
(*                                                                            *)
(* Beside it, the catch blocks a step has to watch: the index of address      *)
(* ranges (range_index.rs), the frame descriptions that overlap the ranges of *)
(* the step (list_lsdas()) and the exception tables of the functions          *)
(* (parse_itanium_lsda()).  The two share no state.                           *)
EXTENDS Integers, Sequences, SequencesExt, FiniteSetsExt

CONSTANTS
    Programs,       \* sequences of functions <<kind, where, body>>, the first is started
    StackSize, MaxSignals,
    Garbage,        \* what functions keep in rbp
    LastAddr,       \* static addresses of the binary are 0..LastAddr
    Load,           \* where it is loaded: dynamic minus static address
    MaxFdes,        \* frame descriptions
    Tables,         \* call sites <<start, length, landing pad, action>> of a function
    Actions         \* the action table, entries <<type index, next entry or 0>>

VARIABLES
    ucode,          \* instructions <<op, arg, kind, where>>, from address Base + 1
    uentry,         \* addresses of the functions
    ureg,           \* registers [rip, rsp, rbp]
    umem,           \* the stack
    ughost,         \* who returns where: [addr, slot], innermost first
    uleft,          \* signals that may still arrive
    utrap,          \* is_after_user_debug_trap_instruction
    uloaded,        \* unwind information of the binary is loaded
    fdes,           \* [start, end, table], in the order of the section
    rindex,         \* the index: [start, end, maxEnd, value]
    asked           \* ranges of a step, dynamic and sorted; <<>> before

Base == 100

-----------------------------------------------------------------------------
(* The program (external).                                                   *)
Instructions(f) ==
    LET body == f[3]
        wrap == CASE f[1] = "fp"    -> <<<<<<"push", 0>>, <<"mov", 0>>>>, <<<<"pop", 0>>, <<"ret", 0>>>>>>
                  [] f[1] = "saved" -> <<<<<<"push", 0>>, <<"clobber", 0>>>>, <<<<"pop", 0>>, <<"ret", 0>>>>>>
                  [] f[1] = "plain" -> <<<<<<"sub", 0>>>>, <<<<"add", 0>>, <<"ret", 0>>>>>>
                  [] f[1] = "bare"  -> <<<<<<"sub", 0>>>>, <<>>>>
                  [] OTHER          -> <<<<>>, <<>>>>
        all  == wrap[1] \o body \o wrap[2]
    IN [i \in 1..Len(all) |-> <<all[i][1], all[i][2], f[1], f[2]>>]
\* between functions, and before the trampoline, there is a nop
CodeOf(p) == FlattenSeq([i \in 1..Len(p) |-> Instructions(p[i])])
EntryOf(p, i) == Base + 1 + Len(CodeOf(SubSeq(p, 1, i - 1)))

Init ==
    /\ \E p \in Programs :
         /\ ucode = CodeOf(p) /\ uentry = [i \in 1..Len(p) |-> EntryOf(p, i)]
    /\ ureg = [rip |-> Base + 1, rsp |-> StackSize, rbp |-> 0]
    /\ umem = [a \in 1..StackSize |-> 0]
    /\ ughost = <<>> /\ uleft = MaxSignals
    /\ utrap = FALSE /\ uloaded \in BOOLEAN

InCode(addr) == addr > Base /\ addr <= Base + Len(ucode)
Op(addr) == IF InCode(addr) THEN ucode[addr - Base][1] ELSE "none"
Put(a, v) == [umem EXCEPT ![a] = v]

\* one instruction; a thread that called a bad address does not get further
Step ==
    LET op  == Op(ureg.rip)
        arg == ucode[ureg.rip - Base][2]
        next == ureg.rip + 1
        regs(rip, rsp, rbp) == ureg' = [rip |-> rip, rsp |-> rsp, rbp |-> rbp]
    IN /\ InCode(ureg.rip) /\ ureg.rsp > 1
       /\ ~(utrap /\ ucode[ureg.rip - 1 - Base][3] = "bare")
       /\ utrap' = (op = "trap")
       /\ \/ /\ op = "push" /\ umem' = Put(ureg.rsp - 1, ureg.rbp)
             /\ regs(next, ureg.rsp - 1, ureg.rbp) /\ UNCHANGED ughost
          \/ /\ op = "pop" /\ regs(next, ureg.rsp + 1, umem[ureg.rsp]) /\ UNCHANGED <<umem, ughost>>
          \/ /\ op = "mov" /\ regs(next, ureg.rsp, ureg.rsp) /\ UNCHANGED <<umem, ughost>>
          \/ /\ op = "clobber" /\ \E g \in Garbage : regs(next, ureg.rsp, g)
             /\ UNCHANGED <<umem, ughost>>
          \/ /\ op = "sub" /\ regs(next, ureg.rsp - 1, ureg.rbp) /\ UNCHANGED <<umem, ughost>>
          \/ /\ op = "add" /\ regs(next, ureg.rsp + 1, ureg.rbp) /\ UNCHANGED <<umem, ughost>>
          \/ /\ op \in {"nop", "trap", "movrax"} /\ regs(next, ureg.rsp, ureg.rbp) /\ UNCHANGED <<umem, ughost>>
          \/ /\ op \in {"call", "bad"} /\ umem' = Put(ureg.rsp - 1, next)
             /\ regs(IF op = "bad" THEN 0 ELSE uentry[arg], ureg.rsp - 1, ureg.rbp)
             /\ ughost' = <<[addr |-> next, slot |-> ureg.rsp - 1]>> \o ughost
          \/ /\ op = "ret" /\ regs(umem[ureg.rsp], ureg.rsp + 1, ureg.rbp) /\ UNCHANGED umem
             /\ ughost' = Tail(ughost)
          \/ /\ op = "syscall" /\ regs(umem[ureg.rsp], umem[ureg.rsp + 1], umem[ureg.rsp + 2])
             /\ UNCHANGED umem /\ ughost' = Tail(ughost)
       /\ UNCHANGED <<ucode, uentry, uloaded, uleft>>

\* a signal: the kernel saves the registers and calls the handler, which
\* returns to the trampoline; these are the last two functions
Signal ==
    /\ uleft > 0 /\ ureg.rsp > 6
    /\ LET slot == IF ureg.rsp % 2 = 0 THEN ureg.rsp - 5 ELSE ureg.rsp - 4
           tramp == uentry[Len(uentry)]
       IN /\ umem' = [umem EXCEPT ![slot] = tramp, ![slot + 1] = ureg.rip,
                                  ![slot + 2] = ureg.rsp, ![slot + 3] = ureg.rbp]
          /\ ureg' = [rip |-> uentry[Len(uentry) - 1], rsp |-> slot, rbp |-> ureg.rbp]
          /\ ughost' = <<[addr |-> tramp, slot |-> slot], [addr |-> ureg.rip, slot |-> 0]>> \o ughost
    /\ uleft' = uleft - 1 /\ utrap' = FALSE
    /\ UNCHANGED <<ucode, uentry, uloaded>>

UnwindNext == Step \/ Signal

-----------------------------------------------------------------------------
(* The debugger.  Registers of a frame: none is -1.                          *)
None == -1
Regs(rip, rsp, rbp) == [rip |-> rip, rsp |-> rsp, rbp |-> rbp]
Readable(a) == a \in 1..StackSize

\* recognize_special_location(): by the code around the instruction pointer
\* Mutant: only the first instruction of a prelude is known.
MutantSpecial(addr) ==
    CASE Op(addr) = "movrax" \/ Op(addr) = "syscall" -> "SigReturn"
      [] Op(addr) = "push" /\ Op(addr + 1) = "mov" -> "PreludeStart"
      [] Op(addr) = "ret" /\ Op(addr - 1) = "pop" -> "EpilogueMiddle"
      [] OTHER -> "None"
Special(addr) ==
    CASE Op(addr) = "movrax" /\ Op(addr + 1) = "syscall" -> "SigReturn"
      [] Op(addr) = "syscall" /\ Op(addr - 1) = "movrax" -> "SigReturn"
      [] Op(addr) = "push" /\ Op(addr + 1) = "mov" -> "PreludeStart"
      [] Op(addr) = "mov" /\ Op(addr - 1) = "push" -> "PreludeMiddle"
      [] Op(addr) = "ret" /\ Op(addr - 1) = "pop" -> "EpilogueMiddle"
      [] OTHER -> "None"

Failed(err) == [err |-> err, cfa |-> None, next |-> Regs(None, None, None), trampoline |-> FALSE]
Stepped(cfa, next, trampoline) == [err |-> "", cfa |-> cfa, next |-> next, trampoline |-> trampoline]

\* step_through_sig_return()
ThroughSigReturn(r) ==
    IF r.rsp = None \/ ~Readable(r.rsp) \/ ~Readable(r.rsp + 2) THEN Failed("memory")
    ELSE Stepped(None, Regs(umem[r.rsp], umem[r.rsp + 1], umem[r.rsp + 2]), TRUE)

\* step_using_frame_pointer()
UsingFramePointer(special, r) ==
    LET prevRsp == CASE special = "None" -> r.rbp + 2
                     [] special = "PreludeMiddle" -> r.rsp + 2
                     [] OTHER -> r.rsp + 1
        cfa     == prevRsp - 2
        prevRbp == IF special \in {"None", "PreludeMiddle"} THEN umem[cfa] ELSE r.rbp
    IN IF r.rbp = None \/ r.rsp = None THEN Failed("register")
       ELSE IF prevRsp % 2 # 0 \/ prevRsp < 2 THEN Failed("rsp not aligned")
       ELSE IF ~Readable(cfa + 1) \/ (special \in {"None", "PreludeMiddle"} /\ ~Readable(cfa)) THEN Failed("memory")
       ELSE Stepped(cfa, Regs(umem[cfa + 1], prevRsp, IF prevRbp > cfa THEN prevRbp ELSE None), FALSE)

\* The rows of the frame descriptions (external): offset of the CFA from rsp,
\* whether rbp was saved below the return address.  There are none for the
\* functions with frame pointers and the trampoline.
Row(addr) ==
    LET kind == ucode[addr - Base][3]
        op   == Op(addr)
    IN CASE kind \in {"plain", "bare"} -> [cfa |-> IF op \in {"sub", "ret"} THEN 1 ELSE 2, saved |-> FALSE, ret |-> TRUE]
         [] kind = "saved" -> [cfa |-> IF op \in {"push", "ret"} THEN 1 ELSE 2, saved |-> op \notin {"push", "ret"}, ret |-> TRUE]
         [] OTHER -> [cfa |-> 0, saved |-> FALSE, ret |-> FALSE]
\* find_row_and_eval_cfa() finds one
HasRow(addr) == InCode(addr) /\ ucode[addr - Base][3] \in {"plain", "bare", "saved", "start"}

\* step_using_dwarf(): registers without a rule keep their values, rsp is the CFA
\* Mutant: rbp without a rule is unknown.
MutantKept(r) == None
Kept(r) == r.rbp
\* eval_cfa_rule() and eval_register_rule(), for the rules there are: a register
\* and an offset; in memory at an offset from the CFA, or undefined
EvalCfa(row, r) == r.rsp + row.cfa
EvalRegister(defined, cfa, offset) == IF defined THEN umem[cfa + offset] ELSE None
UsingDwarf(addr, r) ==
    LET row == Row(addr)
        cfa == EvalCfa(row, r)
    IN IF r.rsp = None THEN Failed("register optimized away")
       ELSE IF (row.ret /\ ~Readable(cfa - 1)) \/ (row.saved /\ ~Readable(cfa - 2)) THEN Failed("memory")
       ELSE Stepped(cfa, Regs(EvalRegister(row.ret, cfa, -1), cfa,
                              IF row.saved THEN EvalRegister(TRUE, cfa, -2) ELSE Kept(r)), FALSE)

\* UnwindInfo::step(), and step_from_bad_function_call()
StepFrom(pseudo, r) ==
    LET special == Special(r.rip) IN
    IF special = "SigReturn" THEN ThroughSigReturn(r)
    ELSE IF ucode[pseudo - Base][4] = "binary" /\ ~uloaded THEN Failed("loading")
    ELSE IF ucode[pseudo - Base][4] = "binary" /\ HasRow(pseudo) THEN UsingDwarf(pseudo, r)
    ELSE UsingFramePointer(special, r)
FromBadCall(r) ==
    IF ~Readable(r.rsp) THEN Failed("memory")
    ELSE Stepped(None, Regs(umem[r.rsp], r.rsp + 1, r.rbp), FALSE)

\* unwind_stack(): frames <<address, address to look things up with, CFA>>
\* Mutant: the address before is looked up below a signal handler, too.
MutantNextPseudo(s) == s.next.rip - 1
NextPseudo(s) == IF s.trampoline THEN s.next.rip ELSE s.next.rip - 1
RECURSIVE Frames(_, _, _)
Frames(pseudo, r, out) ==
    IF ~InCode(pseudo) /\ out # <<>> THEN [frames |-> Append(out, <<r.rip, pseudo, None>>), err |-> "address not mapped"]
    ELSE LET s == IF InCode(pseudo) THEN StepFrom(pseudo, r) ELSE FromBadCall(r)
             f == Append(out, <<r.rip, IF s.trampoline THEN r.rip ELSE pseudo, s.cfa>>)
         IN IF s.err # "" THEN [frames |-> f, err |-> s.err]
            ELSE IF s.next.rip = None THEN [frames |-> f, err |-> ""]
            ELSE IF s.next.rip = 0 THEN [frames |-> f, err |-> "zero return address"]
            ELSE IF s.next.rip = r.rip /\ s.next.rsp = r.rsp THEN [frames |-> f, err |-> "cycle"]
            ELSE IF Len(f) > StackSize THEN [frames |-> f, err |-> "stack too deep"]
            ELSE Frames(NextPseudo(s), s.next, f)
StackTrace == Frames(IF utrap THEN ureg.rip - 1 ELSE ureg.rip, Regs(ureg.rip, ureg.rsp, ureg.rbp), <<>>)

-----------------------------------------------------------------------------
Callers == [i \in 0..Len(ughost) |-> IF i = 0 THEN ureg.rip ELSE ughost[i].addr]
Interrupted(i) == i > 0 /\ ughost[i].slot = 0
Trampoline(i) == i > 0 /\ ughost[i].addr = uentry[Len(uentry)]
BadBelow == \E i \in 1..Len(ughost) : ughost[i].addr = 0

\* Wherever the thread stopped, the frames are its callers, all of them unless
\* information is still loading or a signal arrived after a bad call; the
\* lines, the functions and the frame descriptions are looked up inside the
\* instruction that is being executed, and a call of a function is known by the
\* same frame address from its first instruction to its last.
StackTraceTrue ==
    \E trace \in {StackTrace} :
      /\ Len(trace.frames) <= Len(ughost) + 1
      /\ trace.err = "" => Len(trace.frames) = Len(ughost) + 1
      /\ uloaded /\ ~BadBelow => trace.err = ""
      /\ \A i \in 1..Len(trace.frames) :
           LET f == trace.frames[i] IN
           /\ f[1] = Callers[i - 1]
           /\ f[2] = f[1] - (IF (i = 1 /\ utrap) \/ (i > 1 /\ ~Interrupted(i - 1) /\ ~Trampoline(i - 1)) THEN 1 ELSE 0)
           /\ f[3] # None /\ i <= Len(ughost) =>
                f[3] = ughost[i].slot + (IF ucode[f[2] - Base][3] = "fp" THEN -1 ELSE 1)

UnwindRight == StackTraceTrue

-----------------------------------------------------------------------------
(* Catch blocks.                                                             *)
\* RangeIndex::new(): sorted by start and then value, and the maximum of all
\* ends up to each entry
\* Mutant: the end of the entry itself.
MutantMaxEnd(done, r) == r.end
MaxEnd(done, r) == IF done = <<>> THEN r.end ELSE Max({Last(done).maxEnd, r.end})
NewIndex(fs) ==
    FoldLeft(LAMBDA done, r : Append(done, [r EXCEPT !.maxEnd = MaxEnd(done, r)]), <<>>,
             SortSeq([i \in 1..Len(fs) |-> [start |-> fs[i].start, end |-> fs[i].end, maxEnd |-> 0, value |-> i]],
                     LAMBDA a, b : a.start < b.start \/ (a.start = b.start /\ a.value < b.value)))

UpperBound(addr) == Cardinality({i \in 1..Len(rindex) : rindex[i].start <= addr})
\* RangeIndex::find(): backwards from there while an earlier range may reach addr
Find(addr) ==
    LET looked == {i \in 1..UpperBound(addr) : \A j \in i..UpperBound(addr) : rindex[j].maxEnd > addr}
        hits   == {i \in looked : rindex[i].end > addr}
    IN IF hits = {} THEN 0 ELSE rindex[Max(hits)].value

\* RangeIndex::find_ranges(): one pass over the index for all ranges
\* Mutant: every range starts over.
MutantFrom(idx, first) == first
From(idx, first) == Max({idx, first})
FindRanges(qs) ==
    FoldLeft(LAMBDA acc, q :
        LET first == From(acc.idx, 1 + Cardinality({i \in 1..Len(rindex) : rindex[i].maxEnd <= q[1]}))
            stop  == Max({first} \cup {i + 1 : i \in {j \in first..Len(rindex) : \A k \in first..j : rindex[k].start < q[2]}})
        IN [idx |-> stop,
            res |-> acc.res \o SelectSeq(SubSeq(rindex, first, stop - 1), LAMBDA r : r.end > q[1])],
        [idx |-> 1, res |-> <<>>], qs).res

\* the actions of a call site, a list in the table
RECURSIVE Catches(_)
Catches(action) ==
    Actions[action][1] > 0 \/ (Actions[action][2] # 0 /\ Catches(Actions[action][2]))

\* parse_itanium_lsda(): call sites and ranges are both sorted
\* Mutant: a range is done with once a call site lies behind it or at its end.
MutantPassed(q, start) == q[2] <= start + 1
Passed(q, start) == q[2] <= start
ParseLsda(table, funcStart, qs) ==
    FoldLeft(LAMBDA acc, site :
        LET start == site[1] + funcStart
            idx == Min({i \in acc.idx..Len(qs) : ~Passed(qs[i], start)} \cup {Len(qs) + 1})
        IN IF acc.idx > Len(qs) THEN acc
           ELSE [idx |-> idx,
                 out |-> IF /\ idx <= Len(qs) /\ qs[idx][1] < start + site[2]
                            /\ site[3] # 0 /\ site[4] # 0 /\ Catches(site[4])
                         THEN acc.out \cup {site[3] + funcStart} ELSE acc.out],
        [idx |-> Min({i \in 1..Len(qs) : qs[i][2] > funcStart} \cup {Len(qs) + 1}), out |-> {}], table).out

\* find_catch_blocks_for_ranges(): static addresses for the index, dynamic ones
\* for the table
CatchBlocksForRanges(qs) ==
    LET static == [i \in 1..Len(qs) |-> <<qs[i][1] - Load, qs[i][2] - Load>>]
        found  == FindRanges(static)
    IN UNION {ParseLsda(fdes[found[i].value].table, fdes[found[i].value].start + Load, qs) : i \in 1..Len(found)}
\* find_catch_blocks_for_frame(), for the frame description of the frame
CatchBlocksForFrame(addr) ==
    LET f == Find(addr - Load) IN
    IF f = 0 THEN {} ELSE ParseLsda(fdes[f].table, fdes[f].start + Load, <<<<addr, addr + 1>>>>)

-----------------------------------------------------------------------------
CatchInit == fdes = <<>> /\ rindex = <<>> /\ asked = <<>>

\* UnwindSectionIndex::load() sees another entry
LoadFde ==
    /\ asked = <<>> /\ Len(fdes) < MaxFdes
    /\ \E s \in 0..LastAddr, e \in 0..LastAddr, t \in Tables :
         /\ s < e /\ fdes' = Append(fdes, [start |-> s, end |-> e, table |-> t])
         /\ rindex' = NewIndex(fdes')
    /\ UNCHANGED asked

\* a step asks, with ranges that do not touch
AskRanges ==
    /\ asked = <<>> /\ fdes # <<>>
    /\ \E a \in Load .. (Load + LastAddr), b \in Load .. (Load + LastAddr),
          c \in Load .. (Load + LastAddr), d \in Load .. (Load + LastAddr) :
         /\ a < b
         /\ \/ b < c /\ c < d /\ asked' = <<<<a, b>>, <<c, d>>>>
            \/ c = a /\ d = b /\ asked' = <<<<a, b>>>>
    /\ UNCHANGED <<fdes, rindex>>

CatchNext == LoadFde \/ AskRanges

-----------------------------------------------------------------------------
Overlap(s, e, qs) == \E i \in 1..Len(qs) : s < qs[i][2] /\ e > qs[i][1]
\* a catch block of function k that covers an instruction of the ranges
Covers(k, qs) ==
    {fdes[k].start + Load + site[3] : site \in
       {x \in ToSet(fdes[k].table) :
          /\ x[3] # 0 /\ x[4] # 0 /\ Catches(x[4])
          /\ Overlap(fdes[k].start + Load + x[1], fdes[k].start + Load + x[1] + x[2], qs)}}

\* The index finds every description that overlaps a range of the step and each
\* once, however they are nested, and the innermost one at an address; of their
\* tables, the catch blocks that cover an instruction of the step and no other.
CatchBlocksRight ==
    /\ asked = <<>> => \A a \in 0..LastAddr :
         LET at == {k \in 1..Len(fdes) : fdes[k].start <= a /\ a < fdes[k].end} IN
         IF at = {} THEN Find(a) = 0
         ELSE /\ Find(a) \in at
              /\ \A k \in at : fdes[k].start < fdes[Find(a)].start
                               \/ (fdes[k].start = fdes[Find(a)].start /\ k <= Find(a))
              /\ CatchBlocksForFrame(a + Load) = Covers(Find(a), <<<<a + Load, a + Load + 1>>>>)
    /\ asked # <<>> =>
         LET static == [i \in 1..Len(asked) |-> <<asked[i][1] - Load, asked[i][2] - Load>>]
             found  == FindRanges(static)
             hit    == {k \in 1..Len(fdes) : Overlap(fdes[k].start, fdes[k].end, static)}
         IN /\ {found[i].value : i \in 1..Len(found)} = hit
            /\ \A i, j \in 1..Len(found) : i # j => found[i].value # found[j].value
            /\ UNION {Covers(k, asked) : k \in hit} \subseteq CatchBlocksForRanges(asked)
            /\ CatchBlocksForRanges(asked) \subseteq UNION {Covers(k, asked) : k \in 1..Len(fdes)}
=============================================================================
