------------------------------- MODULE Pieces -------------------------------
(* Values of variables as strings of bytes (ValueBlob): small ones have a     *)
(* fixed capacity of Cap bytes, whatever their size is, bigger ones are       *)
(* vectors.  A variable whose location is a list of DWARF pieces is put       *)
(* together from bit ranges of registers, constants and memory; fields of     *)
(* structs, bit fields too, are taken out of memory or out of a blob.         *)
(* A byte has ByteBits bits here and a machine word WordBytes bytes.          *)
EXTENDS Integers, Sequences

CONSTANTS
    ByteBits, WordBytes, Cap,
    Sources,    \* contents that pieces are taken from: sequences of bytes
    MaxBits     \* bound on the bits put together

VARIABLES
    blob,       \* ValueBlob: Cap bytes, or more
    bits,       \* res_bits
    goal,       \* history: the number that the bits should be
    panicked    \* history: an index was out of bounds

pieceVars == <<blob, bits, goal, panicked>>

Byte == 2 ^ ByteBits
Bytes(n) == (n + ByteBits - 1) \div ByteBits       \* of n bits
Zeros(n) == [i \in 1..n |-> 0]

\* The number a sequence of bytes stands for, little-endian.
ToInt[b \in Seq(0..(Byte - 1))] ==
    IF b = <<>> THEN 0 ELSE Head(b) + Byte * ToInt[Tail(b)]
Slice(x, off, n) == (x \div 2 ^ off) % 2 ^ n
-----------------------------------------------------------------------------
(* ValueBlob.                                                                 *)

WithCapacity(n) == Zeros(IF n <= Cap THEN Cap ELSE n)

FromSlice(s) == s \o Zeros(Len(WithCapacity(Len(s))) - Len(s))

\* A small blob that stays small keeps what is beyond its new size.
Resize(b, n) ==
    IF n <= Cap
    THEN IF Len(b) = Cap THEN b ELSE SubSeq(b, 1, n) \o Zeros(Cap - n)
    ELSE IF n <= Len(b) THEN SubSeq(b, 1, n) ELSE b \o Zeros(n - Len(b))

Or(x, y) ==
    LET Bit(n, k) == (n \div 2 ^ k) % 2
        Sum[k \in 0..ByteBits] ==
            IF k = ByteBits THEN 0
            ELSE (IF Bit(x, k) = 1 \/ Bit(y, k) = 1 THEN 2 ^ k ELSE 0) + Sum[k + 1]
    IN  Sum[0]

\* Bit i goes to i + n.  Each byte is the low part of one and the high part of
\* the byte before it.
AddLowBits(b, n) ==
    LET r == Resize(b, Len(b) + Bytes(n))
        k == n \div ByteBits
        s == n % ByteBits
        At(i) == IF i \in 1..Len(b) THEN b[i] ELSE 0
    IN  IF s = 0 THEN [i \in 1..Len(r) |-> IF i <= k THEN r[i] ELSE At(i - k)]
        ELSE [i \in 1..Len(r) |->
                 IF i <= k THEN r[i]
                 ELSE Or((At(i - k) * 2 ^ s) % Byte, At(i - k - 1) \div 2 ^ (ByteBits - s))]

RemoveLowBits(b, n) ==
    LET k == n \div ByteBits
        s == n % ByteBits
        At(i) == IF i <= Len(b) THEN b[i] ELSE 0
        r == [i \in 1..Len(b) |->
                IF i + k > Len(b) THEN b[i]
                ELSE Or(At(i + k) \div 2 ^ s, (At(i + k + 1) * 2 ^ (ByteBits - s)) % Byte)]
    IN  Resize(r, Len(b) - k)

ZeroUpperBits(b, keep) ==
    [i \in 1..Len(b) |->
        IF i > Bytes(keep) THEN 0
        ELSE IF i = keep \div ByteBits + 1 THEN b[i] % 2 ^ (keep % ByteBits) ELSE b[i]]

\* <<>> is an error.
BitRange(b, off, n) ==
    LET lo == off \div ByteBits
        hi == Bytes(off + n)
        r1 == FromSlice(SubSeq(b, lo + 1, hi))
        r2 == IF off % ByteBits = 0 THEN r1
              ELSE Resize(RemoveLowBits(r1, off % ByteBits), Bytes(n))
    IN  IF hi > Len(b) THEN <<>>
        ELSE IF n % ByteBits = 0 THEN r2 ELSE ZeroUpperBits(r2, n)

\* AddrOrValueBlob::bit_range: at most a word, read as a word and a byte.
WordRange(b, off, n) ==
    LET lo  == off \div ByteBits
        len == Bytes(off + n) - lo
        a   == SubSeq(b, lo + 1, lo + len) \o Zeros(WordBytes + 1 - len)
        w   == WordBytes * ByteBits
        s   == off % ByteBits
        r   == ToInt[SubSeq(a, 1, WordBytes)] \div 2 ^ s
        r9  == IF len > WordBytes THEN r + ((a[WordBytes + 1] * 2 ^ (w - s)) % 2 ^ w) ELSE r
    IN  IF n < w THEN r9 % 2 ^ n ELSE r9

\* get_struct_field, of a struct in memory and of one in a blob; as bytes of the
\* field's type.
FieldAt(memory, off, n, typeBytes) ==
    IF typeBytes * ByteBits = n /\ off % ByteBits = 0
    THEN FromSlice(SubSeq(memory, off \div ByteBits + 1, off \div ByteBits + typeBytes))
    ELSE LET lo == off \div ByteBits
             b  == FromSlice(SubSeq(memory, lo + 1, Bytes(off + n)))
         IN  Resize(BitRange(b, off - lo * ByteBits, n), typeBytes)

FieldOf(b, off, n, typeBytes) == Resize(BitRange(b, off, n), typeBytes)
-----------------------------------------------------------------------------
(* Putting pieces together.                                                   *)

\* Mutant: the piece keeps the bits above it.
MutantTaken(other, n, off) == other

\* The part of another value that append_bits takes.
Taken(other, n, off) == ZeroUpperBits(other, off + n)

AppendBits(b, have, other, n, off) ==
    LET src   == Taken(other, n, off)
        dest  == Resize(b, Bytes(have + n))
        whole == have \div ByteBits
        shift == 2 * ByteBits - (off % ByteBits) + (have % ByteBits)
        moved == AddLowBits(src, shift)
        skip  == 2 + off \div ByteBits
        count == Bytes(have + n) - whole
    IN  IF have % ByteBits = 0 /\ off = 0
        THEN [ok |-> whole + Bytes(n) <= Len(dest) /\ Bytes(n) <= Len(src),
              b  |-> [i \in 1..Len(dest) |->
                         IF i - whole \in 1..Bytes(n) THEN src[i - whole] ELSE dest[i]]]
        ELSE [ok |-> whole + count <= Len(dest) /\ skip + count <= Len(moved),
              b  |-> [i \in 1..Len(dest) |->
                         IF i - whole \in 1..count /\ skip + i - whole <= Len(moved)
                         THEN Or(dest[i], moved[skip + i - whole]) ELSE dest[i]]]

\* The next piece: n bits at off of a register or constant, which is a blob, or
\* of memory, of which into_value() reads as many bytes as needed.
\* Bits below off are zero if the piece does not start at a byte: append_bits()
\* would OR them into the pieces before.
Piece(s, n, off, inMemory) ==
    LET other == FromSlice(IF inMemory THEN SubSeq(s, 1, Bytes(n + off)) ELSE s)
        r     == AppendBits(blob, bits, other, n, off)
    IN  /\ ~panicked
        /\ n > 0 /\ bits + n <= MaxBits
        /\ bits % ByteBits = 0 \/ ToInt[s] % 2 ^ off = 0
        /\ off + n <= ByteBits * (IF inMemory THEN Len(s) ELSE Len(other))
        /\ blob' = r.b /\ panicked' = ~r.ok
        /\ bits' = bits + n
        /\ goal' = goal + 2 ^ bits * Slice(ToInt[other], off, n)

Init == blob = Zeros(Cap) /\ bits = 0 /\ goal = 0 /\ panicked = FALSE

PiecesNext ==
    \E s \in Sources, n \in 1..MaxBits, off \in 0..(2 * ByteBits), inMemory \in BOOLEAN :
        Piece(s, n, off, inMemory)

\* What is put together are the bits of the pieces and zeros above them, and
\* every field comes out of it the same, by whichever way, as a value of its own
\* size; of a bigger type too, unless it has whole bytes that start within a byte:
\* then bit_range() leaves bits of the next field above it.
PiecesRight ==
    /\ ~panicked
    /\ ToInt[blob] = goal
    /\ \A off \in 0..MaxBits, n \in 1..MaxBits, size \in 1..WordBytes :
          /\ off + n <= Len(blob) * ByteBits
          /\ size = Bytes(n) \/ (size > Bytes(n) /\ (off % ByteBits = 0 \/ n % ByteBits # 0))
          => LET x == Slice(goal, off, n)
             IN  /\ WordRange(blob, off, n) = x
                 /\ ToInt[SubSeq(FieldOf(blob, off, n, size), 1, size)] = x
                 /\ ToInt[SubSeq(FieldAt(blob, off, n, size), 1, size)] = x
=============================================================================
