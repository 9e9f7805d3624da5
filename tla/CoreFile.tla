------------------------------ MODULE CoreFile ------------------------------
(* A core file, from the tool that writes it (write_headers(),                *)
(* dump_memory_ranges(), flush_buf() of core_dumper.rs) to the debugger that  *)
(* reads memory from it (parse_core_dump() and CoreDumpMemReader of elf.rs),  *)
(* and cores of others.  Sizes are in units of a few bytes; the memory of the *)
(* process at address a holds a.                                              *)
EXTENDS Integers, Sequences, SequencesExt, FiniteSets, FiniteSetsExt

CONSTANTS
    Layouts,        \* memory maps <<start, length, kind, path, offset>> of processes
    Foreign,        \* segments <<address, offset, size in file, size>> of other cores
    Page,           \* page size
    BigFile,        \* file mappings beyond this length are not dumped
    BufferSize,
    Chunk,          \* limit for one read() or write()
    MaxBad          \* reads of memory that fail

VARIABLES
    cmaps,          \* the process: its maps; <<>> for a foreign core
    cwrite,         \* the tool: [pc, buf, fpos, ri, pos, bad]
    cfile,          \* contents of the file
    zeroed,         \* addresses the tool warned about
    creader         \* the debugger: [st, ranges, threads, maps]

-----------------------------------------------------------------------------
(* Writing.                                                                  *)
IsFile(m) == m[3] \in {"file", "exe"}
Unreadable(m) == m[3] \in {"guard", "vvar"}
Perms(m) == IF m[3] = "guard" THEN {} ELSE IF m[3] \in {"exe", "code"} THEN {"r", "x"} ELSE {"r"}
RoundUp(n) == ((n + Page - 1) \div Page) * Page

\* prepare_notes(): the notes of the process and its two threads
Threads == <<1, 2>>
Note(type, of) == [type |-> type, of |-> of]
ThreadNotes(t) == <<Note("fpregs", t), Note("xstate", t)>>
\* Mutant: the state of all threads, then the vector registers of all.
MutantNotes ==
    [t \in 1..2 |-> Note("status", Threads[t])] \o <<Note("file", 0)>> \o ThreadNotes(1) \o ThreadNotes(2)
Notes ==
    <<Note("status", 1), Note("info", 1), Note("siginfo", 1), Note("auxv", 1), Note("file", 0)>>
    \o ThreadNotes(1) \o <<Note("status", 2)>> \o ThreadNotes(2)

\* write_headers(): one unit for the headers, two for each note, then pages
NotesOffset == 1
MemoryOffset == RoundUp(NotesOffset + 2 * Len(Notes))
Skip(m) == (IsFile(m) /\ m[2] > BigFile) \/ Unreadable(m)
Segment(addr, off, filesz, memsz, perms) ==
    [addr |-> addr, off |-> off, filesz |-> filesz, memsz |-> memsz, perms |-> perms]
RangesToDump(maps) ==
    FoldLeft(LAMBDA done, m :
        LET start == m[1] - (m[1] % Page)
            len   == RoundUp(m[1] + m[2] - start)
            off   == IF done = <<>> THEN MemoryOffset ELSE Last(done).off + Last(done).filesz
        IN Append(done, Segment(start, off, IF Skip(m) THEN 0 ELSE len, len, Perms(m))), <<>>, maps)
Headers == [i \in 1..MemoryOffset |-> 0]

Idle == [st |-> "none", ranges |-> <<>>, threads |-> <<>>, maps |-> <<>>]
Init ==
    /\ zeroed = {} /\ creader = Idle
    /\ \/ /\ cmaps \in Layouts /\ cfile = <<>>
          /\ cwrite = [pc |-> "headers", buf |-> Headers, fpos |-> 0, ri |-> 1, pos |-> 0, bad |-> 0]
       \/ /\ Foreign # {} /\ cmaps = <<>> /\ cfile = [i \in 1..8 |-> i]
          /\ cwrite = [pc |-> "foreign", buf |-> <<>>, fpos |-> 0, ri |-> 1, pos |-> 0, bad |-> 0]

\* flush_buf(): write() takes any part of it; EINTR takes nothing
\* Mutant: a write that took less than it was given is not continued.
MutantTaken(n, lim) == lim
Taken(n, lim) == n
Write ==
    /\ cwrite.pc \in {"headers", "flush", "last"} /\ cwrite.fpos < Len(cwrite.buf)
    /\ LET lim == Min({Len(cwrite.buf) - cwrite.fpos, Chunk}) IN
       \E n \in IF cwrite.pc = "headers" THEN {lim, lim - 1} \ {0} ELSE 1..lim :
         /\ cfile' = cfile \o SubSeq(cwrite.buf, cwrite.fpos + 1, cwrite.fpos + n)
         /\ cwrite' = [cwrite EXCEPT !.fpos = @ + Taken(n, lim)]
    /\ UNCHANGED <<cmaps, zeroed, creader>>
Flushed ==
    /\ cwrite.pc \in {"headers", "flush", "last"} /\ cwrite.fpos = Len(cwrite.buf)
    /\ cwrite' = [cwrite EXCEPT !.pc = IF @ = "last" THEN "done" ELSE "dump", !.buf = <<>>, !.fpos = 0]
    /\ UNCHANGED <<cmaps, cfile, zeroed, creader>>
\* an error of write(), or the tool is killed: what was written stays
Stopped ==
    /\ cwrite.pc \in {"headers", "flush", "last", "dump"}
    /\ cwrite' = [cwrite EXCEPT !.pc = "killed", !.buf = <<>>]
    /\ UNCHANGED <<cmaps, cfile, zeroed, creader>>

\* dump_memory_ranges(), with the buffer it is given
BytesTotal(ranges) == FoldLeft(LAMBDA sum, r : sum + r.filesz, 0, ranges)
Capacity(ranges) == Min({BufferSize, BytesTotal(ranges)})
\* Mutant: a failed read adds nothing to the buffer.
MutantZeroes(n) == <<>>
Zeroes(n) == [i \in 1..n |-> 0]
DumpStep ==
    /\ cwrite.pc = "dump"
    /\ \E ranges \in {RangesToDump(cmaps)} :
         IF cwrite.ri > Len(ranges) THEN cwrite' = [cwrite EXCEPT !.pc = "last"] /\ UNCHANGED zeroed
         ELSE LET r    == ranges[cwrite.ri]
                  room == Capacity(ranges) - Len(cwrite.buf)
                  n    == Min({room, r.filesz - cwrite.pos, Chunk})
                  at   == r.addr + cwrite.pos
                  more(part, bad) ==
                    cwrite' = [cwrite EXCEPT !.buf = @ \o part, !.pos = @ + n, !.bad = @ + bad]
              IN \/ /\ cwrite.pos = r.filesz
                    /\ cwrite' = [cwrite EXCEPT !.ri = @ + 1, !.pos = 0] /\ UNCHANGED zeroed
                 \/ /\ cwrite.pos < r.filesz /\ room = 0
                    /\ cwrite' = [cwrite EXCEPT !.pc = "flush"] /\ UNCHANGED zeroed
                 \/ /\ cwrite.pos < r.filesz /\ room > 0
                    /\ \/ more([i \in 1..n |-> at + i - 1], 0) /\ UNCHANGED zeroed
                       \/ /\ cwrite.bad < MaxBad /\ more(Zeroes(n), 1)
                          /\ zeroed' = zeroed \cup at .. (at + n - 1)
    /\ UNCHANGED <<cmaps, cfile, creader>>

-----------------------------------------------------------------------------
(* Reading.                                                                  *)

\* open_elf(): segments that reach beyond the file are cut
Clamp(s, size) ==
    IF s.off + s.filesz <= size THEN s
    ELSE [s EXCEPT !.off = Min({@, size}), !.filesz = Min({@, size - Min({s.off, size})})]

MemoryRange(start, size, source, perms) == [start |-> start, size |-> size, source |-> source, perms |-> perms]
Zero == [kind |-> "zero"]
Missing == [kind |-> "missing"]
InCore(off) == [kind |-> "core", off |-> off]
InBinary(path, off) == [kind |-> "binary", path |-> path, off |-> off]

RangesOf(s) ==
    (IF s.filesz > 0 THEN <<MemoryRange(s.addr, Min({s.filesz, s.memsz}), InCore(s.off), s.perms)>> ELSE <<>>)
    \o (IF s.filesz < s.memsz THEN <<MemoryRange(s.addr + s.filesz, s.memsz - s.filesz, Zero, s.perms)>> ELSE <<>>)
\* Mutant: only what is out of order is dropped.
MutantTrim(rs) == rs
Trim(rs) ==
    FoldLeft(LAMBDA out, i :
        IF i < Len(rs) /\ rs[i].size > rs[i + 1].start - rs[i].start
        THEN Append(out, [rs[i] EXCEPT !.size = rs[i + 1].start - rs[i].start])
        ELSE Append(out, rs[i]), <<>>, [i \in 1..Len(rs) |-> i])
Ranges(segs) ==
    SelectSeq(Trim(SortSeq(FlattenSeq([i \in 1..Len(segs) |-> RangesOf(segs[i])]),
                           LAMBDA a, b : a.start < b.start)),
              LAMBDA r : r.size > 0)

\* parse_elf_note() on the part of the notes that is there
ReadableNotes(size) == Max({0, Min({Len(Notes), (size - NotesOffset) \div 2})})
NotesCutWithin(size) == size < NotesOffset + 2 * Len(Notes) /\ (size - NotesOffset) % 2 = 1

\* partition_point(): the first range that ends beyond addr
FirstBeyond(rs, addr) == Min({i \in 1..Len(rs) : rs[i].start + rs[i].size > addr} \cup {Len(rs) + 1})

FileMaps == SelectSeq(cmaps, IsFile)
\* NT_FILE: what overlaps a mapped file and has no contents is the file's
ParseFiles(rs) ==
    LET overlapped(i) == \E j \in 1..Len(FileMaps) :
          LET m == FileMaps[j] IN
          i >= FirstBeyond(rs, m[1]) /\ rs[i].start < m[1] + m[2]
        exec(m) == LET i == FirstBeyond(rs, m[1]) IN
          i <= Len(rs) /\ rs[i].start < m[1] + m[2] /\ "x" \in rs[i].perms
        anyExec(path) == \E j \in 1..Len(FileMaps) : FileMaps[j][4] = path /\ exec(FileMaps[j])
    IN [ranges |-> FoldLeft(LAMBDA out, i :
                     Append(out, IF overlapped(i) /\ rs[i].source = Zero THEN [rs[i] EXCEPT !.source = Missing] ELSE rs[i]),
                     <<>>, [i \in 1..Len(rs) |-> i]),
        maps |-> [j \in 1..Len(FileMaps) |->
                    [map |-> FileMaps[j], exec |-> exec(FileMaps[j]) \/ ~anyExec(FileMaps[j][4])]]]

\* the notes of threads
ParseThreads(notes) ==
    FoldLeft(LAMBDA ts, n :
        CASE n.type = "status" -> Append(ts, [tid |-> n.of, extra |-> 0])
          [] n.type = "xstate" -> IF ts = <<>> THEN <<[tid |-> 0, extra |-> 0]>>
                                  ELSE SubSeq(ts, 1, Len(ts) - 1) \o <<[Last(ts) EXCEPT !.extra = n.of]>>
          [] OTHER -> ts, <<>>, notes)

ParseOwn(size) ==
    LET segs  == RangesToDump(cmaps)
        rs    == Ranges([i \in 1..Len(segs) |-> Clamp(segs[i], size)])
        notes == SubSeq(Notes, 1, ReadableNotes(size))
        files == ParseFiles(rs)
        has   == Note("file", 0) \in {notes[i] : i \in 1..Len(notes)}
    IN IF size < NotesOffset \/ NotesCutWithin(size) THEN [Idle EXCEPT !.st = "error"]
       ELSE [st |-> "open", ranges |-> IF has THEN files.ranges ELSE rs,
             threads |-> ParseThreads(notes), maps |-> IF has THEN files.maps ELSE <<>>]

Open ==
    /\ creader.st = "none"
    /\ \/ cwrite.pc \in {"done", "killed"} /\ creader' = ParseOwn(Len(cfile))
       \/ /\ cwrite.pc = "foreign"
          /\ \E segs \in Foreign : creader' = [Idle EXCEPT !.st = "open",
               !.ranges = Ranges([i \in 1..Len(segs) |->
                 Clamp(Segment(segs[i][1], segs[i][2], segs[i][3], segs[i][4], i), Len(cfile))])]
    /\ UNCHANGED <<cmaps, cwrite, cfile, zeroed>>

\* refresh_maps_and_binaries_info() finds the binary of a mapped file
FindBinary ==
    /\ creader.st = "open"
    /\ \E k \in 1..Len(creader.maps) :
         LET m == creader.maps[k].map
             found(r) == r.start >= m[1] /\ r.start < m[1] + m[2] /\ r.source = Missing
         IN /\ \E i \in 1..Len(creader.ranges) : found(creader.ranges[i])
            /\ creader' = [creader EXCEPT !.ranges =
                 [i \in 1..Len(@) |-> IF found(@[i])
                    THEN [@[i] EXCEPT !.source = InBinary(m[4], m[5] + creader.ranges[i].start - m[1])] ELSE @[i]]]
    /\ UNCHANGED <<cmaps, cwrite, cfile, zeroed>>

CoreFileNext == Write \/ Flushed \/ Stopped \/ DumpStep \/ Open \/ FindBinary

\* contents of a binary (external): what the process had mapped from it
BinaryByte(path, off) ==
    LET m == CHOOSE x \in {cmaps[i] : i \in 1..Len(cmaps)} : IsFile(x) /\ x[4] = path /\ off \in x[5] .. (x[5] + x[2] - 1)
    IN m[1] + off - m[5]
ByteAt(r, addr) ==
    LET skip == addr - r.start IN
    CASE r.source.kind = "zero" -> 0
      [] r.source.kind = "core" -> cfile[r.source.off + skip + 1]
      [] OTHER -> BinaryByte(r.source.path, r.source.off + skip)
OutOfBounds(r, end) == r.source.kind = "core" /\ r.source.off + end - r.start > Len(cfile)

\* CoreDumpMemReader::read_uninit(): range after range
Error == -1
Panic == -2
RECURSIVE ReadFrom(_, _, _, _)
ReadFrom(rs, idx, addr, n) ==
    IF n = 0 THEN <<>>
    ELSE IF idx > Len(rs) \/ rs[idx].start > addr THEN <<Error>>
    ELSE LET r == rs[idx]
             k == Min({r.start + r.size - addr, n})
         IN IF k <= 0 THEN <<Panic>>
            ELSE IF r.source = Missing \/ OutOfBounds(r, addr + k) THEN <<Error>>
            ELSE [i \in 1..k |-> ByteAt(r, addr + i - 1)] \o ReadFrom(rs, idx + 1, addr + k, n - k)
ReadUninit(addr, n) == ReadFrom(creader.ranges, FirstBeyond(creader.ranges, addr), addr, n)

\* read_best_effort(): what is known, over what the buffer held
BestEffort(addr) ==
    LET is == {i \in 1..Len(creader.ranges) :
          LET r == creader.ranges[i] IN
          /\ r.start <= addr /\ addr < r.start + r.size
          /\ r.source.kind \in {"core", "binary"} /\ ~OutOfBounds(r, addr + 1)}
    IN IF is = {} THEN 0 ELSE ByteAt(creader.ranges[Min(is)], addr)

-----------------------------------------------------------------------------
MapOf(addr) == {m \in {cmaps[i] : i \in 1..Len(cmaps)} : m[1] <= addr /\ addr < m[1] + m[2]}
Mapped(addr) == MapOf(addr) # {}
Dumped(addr) == \E m \in MapOf(addr) : ~Skip(m)
Addrs == 1 .. Max({1} \cup {cmaps[i][1] + cmaps[i][2] : i \in 1..Len(cmaps)})
Own == cwrite.pc \in {"done", "killed"}
Complete == cwrite.pc = "done"

\* What is read from a core is what the process had there, however the writes
\* were cut up, whichever reads failed (and were warned about), and whatever
\* part of the file is there; a read fails only where the process had no
\* memory or the core and the binaries that were found have no contents.
ReadsFaithful ==
    creader.st = "open" /\ Own =>
      \A addr \in Addrs, n \in 1..3 :
        \E read \in {ReadUninit(addr, n)} :
        /\ Last(read) # Panic
        /\ \A i \in 1..Len(read) : read[i] # Error =>
             /\ Mapped(addr + i - 1) /\ read[i] \in {0, addr + i - 1}
             /\ Complete /\ read[i] = 0 => addr + i - 1 \in zeroed \/ ~Dumped(addr + i - 1)
        /\ Complete /\ Last(read) = Error => ~ \A i \in 0..(n - 1) : Dumped(addr + i)
        /\ BestEffort(addr) \in {0, addr}
        /\ Complete /\ Dumped(addr) => BestEffort(addr) = addr \/ addr \in zeroed

\* The threads of a complete core have their own registers, and its files are
\* mapped where they were, executable where they were.
ThreadsAndFiles ==
    creader.st = "open" /\ Complete =>
      /\ creader.threads = [t \in 1..2 |-> [tid |-> t, extra |-> t]]
      /\ \A j \in 1..Len(creader.maps) :
           LET m == creader.maps[j].map IN
           creader.maps[j].exec = (m[3] = "exe" \/ ~ \E i \in 1..Len(cmaps) : cmaps[i][3] = "exe" /\ cmaps[i][4] = m[4])

\* The ranges of any core, with segments in whatever order and overlapping, can
\* be searched: sorted, none empty, none over another; no read panics.
RangesSearchable ==
    creader.st = "open" =>
      /\ \A addr \in 1..12, n \in 1..4 : Last(ReadUninit(addr, n)) # Panic
      /\ \A i \in 1..Len(creader.ranges) :
           LET r == creader.ranges[i] IN
           /\ r.size > 0
           /\ i < Len(creader.ranges) => r.start + r.size <= creader.ranges[i + 1].start

\* A core that was cut off does not pass for memory that was all zeroes.
CutIsNoticed ==
    creader.st = "open" /\ cwrite.pc = "killed" =>
      \A addr \in Addrs : Dumped(addr) /\ addr \notin zeroed =>
        LET read == ReadUninit(addr, 1) IN read[1] \in {Error, addr}

CoreFileRight == ReadsFaithful /\ ThreadsAndFiles /\ RangesSearchable
=============================================================================
