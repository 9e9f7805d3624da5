------------------------------ MODULE WatchEval -----------------------------
(* The evaluator of watch expressions.  A value has a type and is either      *)
(* still at an address of the program or a blob of bytes; operators follow    *)
(* references, read memory as late as they can, and do arithmetic on 64-bit   *)
(* integers.  An expression is built here one operator at a time, from the    *)
(* inside out.  A byte has ByteBits bits, a word and a pointer have two bytes.*)
(* Floats, enums, pointers to members, pretty printers and the flags that     *)
(* only matter for display are left out.                                      *)
EXTENDS Integers, Sequences

CONSTANTS
    ByteBits,
    Memory,         \* bytes of the program, from address 0 on
    Variables,      \* the program's variables: <<address, name of the type>>
    Literals,       \* other operands: <<signed, bits>>
    MaxOperators    \* bound on the operators of an expression

VARIABLES
    val,            \* the Value
    count           \* operators applied

evalVars == <<val, count>>

Byte == 2 ^ ByteBits
Word == 2                                       \* bytes of usize
W    == 2 ^ (Word * ByteBits)
IntOf(size, signed) == [k |-> "int", size |-> size, signed |-> signed]
Ptr(t)            == [k |-> "ptr", to |-> t, ref |-> FALSE]
Ref(t)            == [k |-> "ptr", to |-> t, ref |-> TRUE]
Array(t, n)       == [k |-> "array", of |-> t, len |-> n]
SliceOf(t)        == [k |-> "slice", of |-> t]
Struct(fields)    == [k |-> "struct", fields |-> fields]   \* sequence of <<name, offset, type>>
U64 == IntOf(Word, FALSE)
I64 == IntOf(Word, TRUE)
Bool == IntOf(1, FALSE)

\* The types of the program.
TypeNamed(n) ==
    CASE n = "u16" -> IntOf(Word, FALSE)
      [] n = "i8"  -> IntOf(1, TRUE)
      [] n = "*i16" -> Ptr(IntOf(Word, TRUE))
      [] n = "&u8" -> Ref(IntOf(1, FALSE))
      [] n = "[u8; 2]" -> Array(IntOf(1, FALSE), 2)
      [] n = "S" -> Struct(<<<<"a", 0, I64>>, <<"b", Word, Array(IntOf(1, FALSE), 2)>>>>)
      [] n = "[i8]" -> SliceOf(IntOf(1, TRUE))
CastTypes == {TypeNamed(n) : n \in {"i8", "u16", "[u8; 2]"}}

NoAddr == -1
AtAddr(a, t)   == [addr |-> a, blob |-> <<>>, t |-> t, be |-> FALSE]
AsBlob(b, t)   == [addr |-> NoAddr, blob |-> b, t |-> t, be |-> FALSE]
Error          == [addr |-> NoAddr, blob |-> <<>>, t |-> [k |-> "error"], be |-> FALSE]
Failed(v)      == v.t.k = "error"

\* TypeInfo::calculate_size.
RECURSIVE Size(_)
Size(t) ==
    CASE t.k = "int"    -> t.size
      [] t.k = "ptr"    -> Word
      [] t.k = "slice"  -> 2 * Word
      [] t.k = "array"  -> t.len * Size(t.of)
      [] t.k = "struct" -> LET f == t.fields[Len(t.fields)] IN f[2] + Size(f[3])
      [] OTHER          -> 0

RECURSIVE ToInt(_)
ToInt(b) == IF b = <<>> THEN 0 ELSE Head(b) + Byte * ToInt(Tail(b))
WordBlob(x) == <<x % Byte, (x \div Byte) % Byte, 0, 0, 0, 0>>    \* ValueBlob::new

\* AddrOrValueBlob::into_value: bytes of the value, <<>> if they cannot be read.
IntoValue(v, n) ==
    IF v.addr = NoAddr THEN IF Len(v.blob) < n THEN <<>> ELSE v.blob
    ELSE IF v.addr + n > Len(Memory) THEN <<>>
    ELSE SubSeq(Memory, v.addr + 1, v.addr + n)

GetUsize(b) == ToInt(SubSeq(b \o <<0, 0>>, 1, Word))

\* follow_references_and_prettify.  Mapped addresses only: reading through any
\* other fails in the caller.
RECURSIVE Follow(_, _)
Follow(v, pointersToo) ==
    IF v.t.k = "ptr" /\ (v.t.ref \/ pointersToo)
    THEN IF IntoValue(v, Word) = <<>> THEN Error
         ELSE Follow([AtAddr(GetUsize(IntoValue(v, Word)), v.t.to) EXCEPT !.be = v.be], pointersToo)
    ELSE v
-----------------------------------------------------------------------------
(* Numbers: to_basic, from_basic and the BasicValue between them, an I or a U *)
(* with the 64 bits x.                                                        *)

Swapped(x, size) == IF size = 1 THEN x % Byte ELSE (x % Byte) * Byte + ((x \div Byte) % Byte)

ToBasic(v) ==
    LET size == Size(v.t)
        raw  == GetUsize(IntoValue(v, size))
        x    == (IF v.be /\ v.t.k = "int" THEN Swapped(raw, size) ELSE raw) % Byte ^ size
        ext  == v.t.k = "int" /\ v.t.signed /\ 2 * x >= Byte ^ size
    IN  [i |-> v.t.k = "int" /\ v.t.signed, x |-> IF ext THEN x + W - Byte ^ size ELSE x]

IsBasic(v) == v.t.k \in {"int", "ptr"} /\ IntoValue(v, Size(v.t)) # <<>>
Isize(b) == IF 2 * b.x >= W THEN b.x - W ELSE b.x         \* cast_to_isize

FromBasic(b, t) == AsBlob(WordBlob(b.x % Byte ^ Size(t)), t)

FromInt(i, x) == AsBlob(WordBlob(x % W), IF i THEN I64 ELSE U64)
Operands == {FromInt(l[1], l[2]) : l \in Literals}
            \cup {[AtAddr(2, I64) EXCEPT !.be = TRUE]}
-----------------------------------------------------------------------------
(* Operators.                                                                 *)

Borrow(v) ==
    IF v.t.k = "ptr" /\ v.t.ref THEN [v EXCEPT !.t = Ptr(v.t.to)]
    ELSE IF v.addr = NoAddr THEN Error
    ELSE [AsBlob(WordBlob(v.addr), Ptr(v.t)) EXCEPT !.be = v.be]

Dereference(v0) ==
    LET v == Follow(v0, FALSE)
    IN  IF v.t.k # "ptr" \/ IntoValue(v, Word) = <<>> THEN Error
        ELSE [v EXCEPT !.addr = GetUsize(IntoValue(v, Word)), !.blob = <<>>, !.t = v.t.to]

\* Unary minus (neg) and bitwise not, in the size of the operand; the result of
\* minus is signed.
Negate(v0, neg) ==
    LET v == Follow(v0, FALSE)
        m == Byte ^ Size(v.t)
        raw == GetUsize(IntoValue(v, Size(v.t)))
        x == (IF v.be THEN Swapped(raw, v.t.size) ELSE raw) % m
    IN  IF v.t.k # "int" \/ ~IsBasic(v) THEN Error
        ELSE AsBlob(WordBlob((m - 1 - x + (IF neg THEN 1 ELSE 0)) % m),
                    IF neg THEN IntOf(v.t.size, TRUE) ELSE v.t)

\* A field, by name or by its index in a tuple, keeps the byte order of the struct.
FieldOf(v0, name) ==
    LET v  == Follow(v0, TRUE)
        fs == v.t.fields
        i  == CHOOSE j \in 1..Len(fs) : fs[j][1] = name
        n  == Size(fs[i][3])
    IN  IF v.t.k # "struct" THEN Error
        ELSE IF ~\E j \in 1..Len(fs) : fs[j][1] = name THEN Error
        ELSE IF v.addr # NoAddr
             THEN [v EXCEPT !.addr = @ + fs[i][2], !.t = fs[i][3]]
        ELSE [v EXCEPT !.blob = SubSeq(v.blob, fs[i][2] + 1, fs[i][2] + n), !.t = fs[i][3]]

SliceParts(v) == [addr |-> GetUsize(IntoValue(v, 2 * Word)),
                  len  |-> ToInt(SubSeq(IntoValue(v, 2 * Word), Word + 1, 2 * Word))]

\* Mutant: the last element of an array is out of range.
MutantInBounds(i, len) == i < len - 1 \/ i = 0

\* Element 0 of an empty array may be asked for.
InBounds(i, len) == i < len \/ i = 0

\* checked_mul and checked_add of isize, for element i of a pointer v: addresses are
\* signed here.
FitsIsize(x) == -W <= 2 * x /\ 2 * x < W
PtrElement(v, i) == Isize([x |-> GetUsize(IntoValue(v, Word))]) + i * Size(v.t.to)
PtrIndexable(v, i) ==
    /\ IntoValue(v, Word) # <<>> /\ Size(v.t.to) # 0
    /\ FitsIsize(i * Size(v.t.to)) /\ FitsIsize(PtrElement(v, i))

\* usize::MAX / 8: an offset in bits has to fit too.
MaxOffset == (W - 1) \div ByteBits

IndexOn(v, b) ==
    LET stride == Size(v.t.of)
        s == SliceParts(v)
    IN  CASE v.t.k = "ptr" ->
                IF ~PtrIndexable(v, Isize(b)) THEN Error
                ELSE [AtAddr(PtrElement(v, Isize(b)) % W, v.t.to) EXCEPT !.be = v.be]
          [] v.t.k = "array" ->
                IF ~InBounds(b.x, v.t.len) \/ b.x * stride > MaxOffset THEN Error
                ELSE IF v.addr # NoAddr
                     THEN IF v.addr + b.x * stride >= W THEN Error
                          ELSE [v EXCEPT !.addr = @ + b.x * stride, !.t = v.t.of]
                ELSE [v EXCEPT !.blob = SubSeq(v.blob, b.x * stride + 1, (b.x + 1) * stride),
                               !.t = v.t.of]
          [] v.t.k = "slice" ->
                IF IntoValue(v, 2 * Word) = <<>> \/ ~InBounds(b.x, s.len)
                   \/ s.addr + b.x * stride >= W THEN Error
                ELSE [AtAddr(s.addr + b.x * stride, v.t.of) EXCEPT !.be = v.be]
          [] OTHER -> Error
Index(v0, b0) == IndexOn(Follow(v0, FALSE), ToBasic(Follow(b0, FALSE)))

\* p[n], an array at p.
Slicify(v0, b0) ==
    LET v == Follow(v0, FALSE)
        n == Isize(ToBasic(Follow(b0, FALSE)))
    IN  IF v.t.k # "ptr" THEN Error
        ELSE IF ~PtrIndexable(v, n) \/ n < 0 THEN Error
        ELSE [AtAddr(GetUsize(IntoValue(v, Word)), Array(v.t.to, n)) EXCEPT !.be = v.be]

\* p..q
PointerRange(v0, w0) ==
    LET v == Follow(v0, FALSE)
        w == Follow(w0, FALSE)
        a == GetUsize(IntoValue(v, Word))
        b == GetUsize(IntoValue(w, Word))
        n == Size(v.t.to)
    IN  IF v.t.k # "ptr" \/ w.t.k # "ptr" THEN Error
        ELSE IF n # Size(w.t.to) \/ n = 0 \/ a > b THEN Error
        ELSE IF (b - a) % n # 0 THEN Error
        ELSE AtAddr(a, Array(v.t.to, (b - a) \div n))

EuclidDiv(x, y) == IF y > 0 THEN x \div y ELSE -(x \div (-y))
EuclidRem(x, y) == x - y * EuclidDiv(x, y)

\* Arrays and slices of bytes are compared as strings.
IsByteArray(t) == t.k \in {"array", "slice"} /\ Size(t.of) = 1

StringOf(v) ==
    IF v.t.k = "array" THEN SubSeq(IntoValue(v, v.t.len), 1, v.t.len)
    ELSE SubSeq(Memory, SliceParts(v).addr + 1, SliceParts(v).addr + SliceParts(v).len)

StringReadable(v) ==
    IF v.t.k = "array" THEN v.t.len = 0 \/ IntoValue(v, v.t.len) # <<>>
    ELSE IntoValue(v, 2 * Word) # <<>> /\ SliceParts(v).addr + SliceParts(v).len <= Len(Memory)

RECURSIVE Before(_, _)
Before(s, r) ==
    /\ r # <<>>
    /\ \/ s = <<>>
       \/ Head(s) < Head(r)
       \/ Head(s) = Head(r) /\ Before(Tail(s), Tail(r))

Compare(op, v, w) ==
    LET yes == IF op = "<" THEN Before(StringOf(v), StringOf(w)) ELSE StringOf(v) = StringOf(w)
    IN  IF ~IsByteArray(v.t) \/ ~IsByteArray(w.t) THEN Error
        ELSE IF ~StringReadable(v) \/ ~StringReadable(w) THEN Error
        ELSE FromBasic([i |-> FALSE, x |-> IF yes THEN 1 ELSE 0], Bool)

\* The other operand is evaluated only if it matters.
Truth(r) == IF ~IsBasic(r) THEN Error
            ELSE FromBasic([i |-> FALSE, x |-> IF ToBasic(r).x # 0 THEN 1 ELSE 0], Bool)
LazyOn(op, v, w) == IF ~IsBasic(v) THEN Error
                    ELSE Truth(IF (ToBasic(v).x # 0) = (op = "&&") THEN w ELSE v)
Lazy(op, v0, w0) == LazyOn(op, Follow(v0, FALSE), Follow(w0, FALSE))

\* The type of a result is signed if an operand is, or if it is a difference; a and
\* b are v and w as numbers, if they are.
Operate(op, v, w, a, b) ==
    LET signed == a.i \/ b.i
        x == IF signed THEN Isize(a) ELSE a.x
        y == IF signed THEN Isize(b) ELSE b.x
        p == v.t.k = "ptr"
        q == w.t.k = "ptr"
        diff == (a.x - b.x + W) % W
        d == IF 2 * diff >= W THEN diff - W ELSE diff
    IN  CASE op \in {"<", "=="} /\ (IsByteArray(v.t) \/ IsByteArray(w.t)) -> Compare(op, v, w)
          [] ~IsBasic(v) \/ ~IsBasic(w) -> Error
          [] op = "-" /\ p /\ q ->
                IF Size(v.t.to) # Size(w.t.to) \/ Size(v.t.to) = 0 THEN Error
                ELSE IF d % Size(v.t.to) # 0 THEN Error
                ELSE FromInt(TRUE, d \div Size(v.t.to))
          [] op = "+" /\ q /\ ~p -> AsBlob(WordBlob((b.x + a.x * Size(w.t.to)) % W), w.t)
          [] op \in {"+", "-"} /\ p /\ ~q ->
                AsBlob(WordBlob((IF op = "+" THEN a.x + b.x * Size(v.t.to)
                                 ELSE a.x - b.x * Size(v.t.to)) % W), v.t)
          [] op = "+" -> FromInt(signed, x + y)
          [] op = "-" -> FromInt(TRUE, a.x - b.x)
          [] op = "*" -> FromInt(signed, x * y)
          [] op \in {"/", "%"} /\ b.x = 0 -> Error
          [] op = "/" -> FromInt(signed, EuclidDiv(x, y))
          [] op = "%" -> FromInt(signed, EuclidRem(x, y))
          [] op \in {"<<", ">>"} /\ b.x >= Word * ByteBits -> Error
          [] op = "<<" -> FromInt(a.i, a.x * 2 ^ b.x)
          [] op = ">>" -> FromInt(a.i, (IF a.i THEN Isize(a) ELSE a.x) \div 2 ^ b.x)
          [] op = "<"  -> FromBasic([i |-> FALSE, x |-> IF x < y THEN 1 ELSE 0], Bool)
          [] op = "==" -> FromBasic([i |-> FALSE, x |-> IF x = y THEN 1 ELSE 0], Bool)

OperateOn(op, v, w) == Operate(op, v, w, ToBasic(v), ToBasic(w))
Arithmetic(op, v0, w0) == OperateOn(op, Follow(v0, FALSE), Follow(w0, FALSE))

\* `as`: numbers by value, everything else by reinterpretation of the bytes, a slice
\* as if it were an array.
Reinterpret(v, from, t) ==
    LET to == Size(t)
        b  == IntoValue(v, to)
    IN  IF v.addr # NoAddr /\ to > from
        THEN IF b = <<>> THEN Error ELSE [AsBlob(b, t) EXCEPT !.be = v.be]
        ELSE IF v.addr = NoAddr /\ Len(v.blob) < to
        THEN [v EXCEPT !.blob = @ \o [i \in 1..(to - Len(v.blob)) |-> 0], !.t = t]
        ELSE [v EXCEPT !.t = t]
CastOf(v, t) ==
    LET number(type) == type.k \in {"int", "ptr"}
        s == SliceParts(v)
    IN  IF Failed(v) \/ t.k = "slice" THEN Error
        ELSE IF v.t.k = "slice"
             THEN IF IntoValue(v, 2 * Word) = <<>> THEN Error
                  ELSE Reinterpret([v EXCEPT !.addr = s.addr, !.blob = <<>>], Size(v.t.of) * s.len, t)
        ELSE IF number(v.t) /\ ~IsBasic(v) THEN Error
        ELSE IF number(v.t) /\ number(t) THEN FromBasic(ToBasic(v), t)
        ELSE Reinterpret(v, Size(v.t), t)
Cast(v0, t) == CastOf(Follow(v0, FALSE), t)
-----------------------------------------------------------------------------
Become(v) ==
    /\ count < MaxOperators /\ ~Failed(val)
    /\ val' = v /\ count' = count + 1

Init == val \in {AtAddr(v[1], TypeNamed(v[2])) : v \in Variables} /\ count = 0

EvalNext ==
    \/ Become(Borrow(val))
    \/ Become(Dereference(val))
    \/ \E neg \in BOOLEAN : Become(Negate(val, neg))
    \/ \E name \in {"a", "b"} : Become(FieldOf(val, name))
    \/ Become([val EXCEPT !.be = ~@])                     \* #be, #le
    \/ \E t \in CastTypes : Become(Cast(val, t))
    \/ \E w \in Operands :
          \/ Become(Index(val, w))
          \/ Become(Slicify(val, w))
          \/ \E op \in {"&&", "||"} : Become(Lazy(op, val, w))
          \/ \E op \in {"+", "-", "*", "/", "<<", ">>", "<"} : Become(Arithmetic(op, val, w))
          \/ Become(Arithmetic("-", w, val))
-----------------------------------------------------------------------------
(* What it should be.                                                         *)

\* The bytes of a value, and the number they are.
Bytes(v) == SubSeq(IntoValue(v, Size(v.t)), 1, Size(v.t))
Number(v) ==
    LET b == Bytes(v)
        x == ToInt(IF v.be /\ v.t.k = "int" THEN [i \in 1..Len(b) |-> b[Len(b) + 1 - i]] ELSE b)
    IN  IF v.t.k = "int" /\ v.t.signed /\ 2 * x >= Byte ^ Len(b) THEN x - Byte ^ Len(b) ELSE x

Fits(x, t) ==
    LET m == Byte ^ Size(t)
    IN  IF t.k = "int" /\ t.signed THEN -m <= 2 * x /\ 2 * x < m ELSE 0 <= x /\ x < m

\* r is x if its type has x, and x modulo its size in any case.
Is(r, x) ==
    \/ Failed(r)
    \/ /\ (Number(r) - x) % Byte ^ Size(r.t) = 0
       /\ Fits(x, r.t) => Number(r) = x

Readable(v) == ~Failed(v) /\ IntoValue(v, Size(v.t)) # <<>>
Same(v, w) == Failed(v) = Failed(w) /\ (Readable(v) /\ Readable(w) => Bytes(v) = Bytes(w) /\ v.t = w.t)
Small(n) == FromInt(TRUE, n)

ArithmeticExact ==
    LET x == Number(val)
    IN  val.t.k = "int" /\ IsBasic(val) =>
        /\ Is(Negate(val, TRUE), -x)
        /\ \A t \in CastTypes : t.k = "int" => Is(Cast(val, t), x)
        /\ \A w \in Operands : LET y == Number(w) IN
              w.t.k = "int" =>
              /\ Is(Arithmetic("+", val, w), x + y)
              /\ Is(Arithmetic("-", val, w), x - y)
              /\ Is(Arithmetic("*", val, w), x * y)
              /\ Fits(x, I64) /\ Fits(y, I64) =>
                 /\ y # 0 => \E q \in -W..W :
                       /\ x - q * y >= 0 /\ x - q * y < (IF y < 0 THEN -y ELSE y)
                       /\ Is(Arithmetic("/", val, w), q)
                       /\ Is(Arithmetic("%", val, w), x - q * y)
                 /\ (Number(Arithmetic("<", val, w)) = 1) = (x < y)
                 /\ (Number(Arithmetic("==", val, w)) = 1) = (x = y)

\* Strings are ordered like words in a dictionary.
StringsOrdered ==
    \A a \in 0..9, n \in 0..2 :
        LET w == AtAddr(a, Array(IntOf(1, FALSE), n))
            s == StringOf(val)
            r == StringOf(w)
        IN  IsByteArray(val.t) /\ StringReadable(val) =>
            /\ (Number(Compare("==", val, w)) = 1) = (s = r)
            /\ (Number(Compare("<", val, w)) = 1) =
                  \E k \in 0..Len(s) :
                     /\ k < Len(r) /\ SubSeq(s, 1, k) = SubSeq(r, 1, k)
                     /\ k = Len(s) \/ s[k + 1] < r[k + 1]

\* Laws of pointers, arrays and places.  Addition to a pointer wraps around and works
\* on pointers to types of size 0; indexing does not: it is an error to go from one
\* half of the address space to the other.
PlacesAgree ==
    LET p == Follow(val, FALSE)
        size == Size(p.t.to)
        half(i) == (2 * (GetUsize(IntoValue(p, Word)) + i * size)) \div W
        sum(i) == Arithmetic("+", p, Small(i))
    IN  /\ Readable(p) /\ p.t.k = "ptr" =>
              \A i \in -1..2 :
              /\ ~Failed(Index(p, Small(i))) => Same(Index(p, Small(i)), Dereference(sum(i)))
              /\ size # 0 /\ half(i) = half(0) => ~Failed(Index(p, Small(i)))
              /\ size # 0 /\ FitsIsize(i * size) =>
                    Same(Arithmetic("-", sum(i), p), Small(i))
              /\ size # 0 /\ i >= 0 /\ half(i) = half(0) =>
                    Same(PointerRange(p, sum(i)), Slicify(p, Small(i)))
              /\ i \in 0..1 /\ ~Failed(Index(Slicify(p, Small(2)), Small(i))) =>
                    Same(Index(Slicify(p, Small(2)), Small(i)), Index(p, Small(i)))
        /\ val.addr # NoAddr /\ ~(val.t.k = "ptr" /\ val.t.ref) =>
              Same(Dereference(Borrow(val)), val)
        \* It makes no difference whether a value is still in memory.
        /\ Readable(p) /\ p.t.k \in {"struct", "array"} =>
              LET copy == [AsBlob(Bytes(p) \o <<0, 0, 0, 0>>, p.t) EXCEPT !.be = p.be]
              IN  /\ \A n \in {"a", "b"} : Same(FieldOf(p, n), FieldOf(copy, n))
                  /\ \A i \in 0..2 : Same(Index(p, Small(i)), Index(copy, Small(i)))
                  /\ p.t.k = "array" => \A i \in 0..2 :
                        Failed(Index(p, Small(i))) =
                            ((i >= p.t.len /\ i # 0) \/ i * Size(p.t.of) > MaxOffset)
                  /\ \A t \in CastTypes : Size(t) <= Size(p.t) => Same(Cast(p, t), Cast(copy, t))

\* Arithmetic is that of the integers, as long as the type of the result can
\* hold it; places, pointers, ranges and copies of them agree.
EvalRight == ~Failed(val) => ArithmeticExact /\ StringsOrdered /\ PlacesAgree
=============================================================================
