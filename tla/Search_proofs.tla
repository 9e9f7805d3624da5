--------------------------- MODULE Search_proofs ---------------------------
(***************************************************************************)
(* A search that counts as complete is complete: SearchExact, for any      *)
(* number of binaries, functions, shards, threads and searches, and chunks *)
(* and lists of any length.                                                *)
(***************************************************************************)
EXTENDS Search, FiniteSetTheorems, SequenceTheorems, TLAPS

Texts == Queries \cup {""}
Task == [gen : Nat \ {0}, q : Texts, idx : Nat \ {0}, shard : 0..NumShards]
Result == [idx : Nat \ {0}, id : Items]
State == [cancel : BOOLEAN, remaining : Nat, results : SUBSET Result, count : Nat,
          done : Nat, total : Nat, complete : BOOLEAN]
Progress == [pc : {"search", "merged", "last", "completing"}, item : Nat]

TypeInv ==
    /\ phase \in {"poll", "schedule", "results"} /\ sched \in Nat \ {0}
    /\ query \in Texts /\ seenQuery \in Texts
    /\ symbols \in Seq(Range(symbols))
    /\ searches \in Seq(State) /\ searches # <<>>
    /\ queue \in SUBSET Task
    /\ DOMAIN running \in SUBSET Task
    /\ running \in [DOMAIN running -> Progress]

\* The shard that an item is in.
ShardOf(i) == CHOOSE s \in 1..NumShards : First(s) <= i /\ i < Past(s)

\* A binary of the current search whose shards have no tasks yet: the loop of
\* update() has not come to it, or its file search task is waiting.
Unsplit(b) ==
    \/ phase = "schedule" /\ sched <= b
    \/ TaskOf(Cur, seenQuery, b, 0) \in queue

\* The task of a shard has begun, and has dealt with an item.
Begun(b, s) == ~Unsplit(b) /\ TaskOf(Cur, seenQuery, b, s) \notin queue
Running(t) == t \in DOMAIN running /\ running[t].pc = "search"
Passed(b, s, i) ==
    /\ Begun(b, s)
    /\ Running(TaskOf(Cur, seenQuery, b, s)) => i < running[TaskOf(Cur, seenQuery, b, s)].item

\* What tasks_remaining, items_total, items_done and total_results count: file
\* searches and shards to come, and items of the binaries.
Ends(t) == t \in queue \/ (t \in DOMAIN running /\ running[t].pc \in {"search", "merged"})
Open ==
    {p \in (1..Len(symbols)) \X (0..NumShards) :
        IF p[2] = 0 THEN Unsplit(p[1]) ELSE Ends(TaskOf(Cur, seenQuery, p[1], p[2]))}
All == [idx : 1..Len(symbols), id : Items]
Started == {r \in All : Begun(r.idx, ShardOf(r.id))}
Searched == {r \in All : Passed(r.idx, ShardOf(r.id), r.id)}
Found == {r \in Searched : ScoreOf[seenQuery][r.id] # NoMatch}

\* Tasks belong to a search, those of earlier ones find it cancelled.
OldCancelled ==
    /\ ~searches[Cur].cancel
    /\ \A g \in 1..(Cur - 1) : searches[g].cancel /\ searches[g].done = 0 /\ searches[g].total = 0

\* Task t is one that this search has made.
Current(t) ==
    /\ t.q = seenQuery
    /\ t.idx <= Len(symbols)
    /\ phase = "schedule" => t.idx < sched
    /\ t.shard > 0 => TaskOf(Cur, seenQuery, t.idx, 0) \notin queue

TasksKnown ==
    /\ phase = "schedule" => sched <= Len(symbols)
    /\ \A t \in queue \cup DOMAIN running : t.gen <= Cur /\ (t.gen = Cur => Current(t))
    /\ queue \cap DOMAIN running = {}
    /\ \A t \in DOMAIN running : t.shard > 0

\* Where the tasks of the current search are, and that the last one is the last.
TasksAt(t) ==
    /\ running[t].pc = "search" =>
          First(t.shard) <= running[t].item /\ running[t].item <= Past(t.shard)
    /\ running[t].pc \in {"last", "completing"} => Open = {}
LastIsLast ==
    /\ \A t \in DOMAIN running : t.gen = Cur => TasksAt(t)
    /\ searches[Cur].complete => Open = {}

Counted ==
    /\ searches[Cur].remaining = Cardinality(Open)
    /\ searches[Cur].total = Cardinality(Started)
    /\ searches[Cur].done = Cardinality(Searched)
    /\ searches[Cur].count = Cardinality(Found)
    /\ searches[Cur].results \in Best(seenQuery, Found)

ShownMatch == \A r \in shown.results : ScoreOf[shown.query][r.id] # NoMatch

IInv == TypeInv /\ OldCancelled /\ TasksKnown /\ LastIsLast /\ Counted /\ ShownMatch

-----------------------------------------------------------------------------
(* Shards divide the items among them.                                       *)

LEMMA Sizes ==
    /\ NumItems \in Nat /\ NumShards \in Nat /\ NumShards # 0 /\ NumShards \in Nat \ {0}
    /\ Chunk \in Nat /\ Chunk # 0 /\ MaxResults \in Nat /\ IsFiniteSet(Bins)
<1>1. NumShards \in Nat \ {0} /\ Chunk \in Nat \ {0}
  BY SearchAssumption, Zenon
<1>2. NumItems \in Nat /\ MaxResults \in Nat /\ IsFiniteSet(Bins)
  BY SearchAssumption, Zenon
<1> QED BY <1>1, <1>2

\* What integer division is.
LEMMA Division ==
    ASSUME NEW a \in Nat, NEW b \in Nat \ {0}
    PROVE  /\ a \div b \in Nat
           /\ b * (a \div b) <= a
           /\ a < b * (a \div b) + b
BY SMT

\* Products grow with their factors.
LEMMA Products ==
    ASSUME NEW m \in Nat, NEW a \in Nat, NEW b \in Nat, a <= b
    PROVE  m * a \in Nat /\ m * b \in Nat /\ m * a <= m * b
BY SMT

LEMMA ProductStep ==
    ASSUME NEW m \in Nat, NEW a \in Nat
    PROVE  m * (a + 1) = m * a + m
BY SMT

\* The quotient is below k exactly if the dividend is below k times the divisor.
LEMMA QuotientBelow ==
    ASSUME NEW a \in Nat, NEW b \in Nat \ {0}, NEW k \in Nat
    PROVE  a \div b < k <=> a < b * k
<1> DEFINE d == a \div b
<1>1. d \in Nat /\ b * d <= a /\ a < b * d + b /\ b \in Nat
  BY Division
<1> HIDE DEF d
<1>2. ASSUME d < k PROVE a < b * k
  <2>1. b * (d + 1) <= b * k
    BY <1>1, <1>2, Products, d + 1 \in Nat, d + 1 <= k
  <2> QED BY <1>1, <2>1, ProductStep
<1>3. ASSUME a < b * k PROVE d < k
  <2>1. CASE k <= d
    <3>1. b * k <= b * d
      BY <1>1, <2>1, Products
    <3> QED BY <1>1, <1>3, <3>1
  <2> QED BY <1>1, <2>1
<1> QED BY <1>2, <1>3 DEF d

LEMMA ShardBounds ==
    ASSUME NEW s \in 1..NumShards
    PROVE  /\ First(s) \in Nat /\ Past(s) \in Nat
           /\ First(s) <= Past(s) /\ Past(s) <= NumItems
<1>1. NumItems \in Nat /\ NumShards \in Nat \ {0} /\ s \in Nat /\ s - 1 \in Nat
  BY Sizes
<1>2. /\ NumItems * s \in Nat /\ NumItems * (s - 1) \in Nat
      /\ NumItems * (s - 1) <= NumItems * s
  BY <1>1, Products, s - 1 <= s
<1>3. First(s) \in Nat /\ Past(s) \in Nat
  BY <1>1, <1>2, Division DEF First, Past
<1>4. First(s) <= Past(s)
  <2>1. NumItems * s < NumShards * (Past(s) + 1)
    BY <1>1, <1>2, <1>3, QuotientBelow, Past(s) < Past(s) + 1, Past(s) + 1 \in Nat DEF Past
  <2>2. NumShards * (Past(s) + 1) \in Nat
    BY <1>1, <1>3, Products
  <2>3. NumItems * (s - 1) < NumShards * (Past(s) + 1)
    BY <1>2, <2>1, <2>2
  <2>4. First(s) < Past(s) + 1
    BY <1>1, <1>2, <1>3, <2>3, QuotientBelow, Past(s) + 1 \in Nat DEF First
  <2> QED BY <1>3, <2>4
<1>5. Past(s) <= NumItems
  <2>1. NumItems * s <= NumItems * NumShards
    BY <1>1, Products, s <= NumShards
  <2>2. NumItems * NumShards = NumShards * NumItems
    BY <1>1
  <2>3. NumShards * (NumItems + 1) = NumShards * NumItems + NumShards
    BY <1>1, ProductStep
  <2>4. NumItems * NumShards \in Nat
    BY <1>1, Products
  <2>5. NumItems * s < NumShards * (NumItems + 1)
    BY <1>1, <1>2, <2>1, <2>2, <2>3, <2>4
  <2>6. Past(s) < NumItems + 1
    BY <1>1, <1>2, <2>5, QuotientBelow, NumItems + 1 \in Nat DEF Past
  <2> QED BY <1>1, <1>3, <2>6
<1> QED BY <1>3, <1>4, <1>5

LEMMA ShardsApart ==
    ASSUME NEW s \in 1..NumShards, NEW u \in 1..NumShards, s < u
    PROVE  Past(s) <= First(u)
<1>1. NumItems \in Nat /\ NumShards \in Nat \ {0} /\ s \in Nat /\ u - 1 \in Nat
  BY Sizes
<1>2. /\ NumItems * s \in Nat /\ NumItems * (u - 1) \in Nat
      /\ NumItems * s <= NumItems * (u - 1)
  BY <1>1, Products, s <= u - 1
<1>3. First(u) \in Nat /\ Past(s) \in Nat
  BY ShardBounds
<1>4. NumItems * (u - 1) < NumShards * (First(u) + 1)
  BY <1>1, <1>2, <1>3, QuotientBelow, First(u) < First(u) + 1, First(u) + 1 \in Nat DEF First
<1>5. NumShards * (First(u) + 1) \in Nat
  BY <1>1, <1>3, Products
<1>6. NumItems * s < NumShards * (First(u) + 1)
  BY <1>2, <1>4, <1>5
<1>7. Past(s) < First(u) + 1
  BY <1>1, <1>2, <1>3, <1>6, QuotientBelow, First(u) + 1 \in Nat DEF Past
<1> QED BY <1>3, <1>7

\* Each item is in one shard.
LEMMA ItemHasShard ==
    ASSUME NEW i \in Items
    PROVE  \E s \in 1..NumShards : First(s) <= i /\ i < Past(s)
<1>1. /\ NumItems \in Nat \ {0} /\ NumShards \in Nat \ {0} /\ i \in Nat /\ i + 1 \in Nat
      /\ i + 1 <= NumItems /\ NumShards \in Nat
  BY Sizes DEF Items
<1> DEFINE m == NumShards * (i + 1)
           x == (m - 1) \div NumItems
<1>2. m \in Nat \ {0}
  <2>1. NumShards * 1 <= m /\ m \in Nat
    BY <1>1, Products, 1 <= i + 1, 1 \in Nat
  <2> QED BY <1>1, <2>1
<1>3. m <= NumItems * NumShards /\ NumItems * NumShards \in Nat
  <2>1. NumShards * (i + 1) <= NumShards * NumItems /\ NumShards * NumItems \in Nat
    BY <1>1, Products
  <2> QED BY <1>1, <2>1
<1> HIDE DEF m
<1>4. m - 1 \in Nat
  BY <1>2
<1>5. x \in Nat /\ NumItems * x <= m - 1 /\ m - 1 < NumItems * x + NumItems
  BY <1>1, <1>4, Division
<1>6. x < NumShards
  BY <1>1, <1>2, <1>3, <1>4, QuotientBelow, m - 1 < NumItems * NumShards
<1> HIDE DEF x
<1>7. NumItems * x \in Nat /\ NumItems * (x + 1) = NumItems * x + NumItems
  BY <1>1, <1>5, Products, ProductStep
<1>8. x + 1 \in 1..NumShards /\ (x + 1) - 1 = x
  BY <1>1, <1>5, <1>6
<1>9. First(x + 1) \in Nat /\ Past(x + 1) \in Nat
  BY <1>8, ShardBounds
<1>10. First(x + 1) < i + 1
  <2>1. NumItems * x < NumShards * (i + 1)
    BY <1>2, <1>5, <1>7 DEF m
  <2> QED BY <1>1, <1>7, <1>8, <2>1, QuotientBelow DEF First
<1>11. ~(Past(x + 1) < i + 1)
  <2>1. ~(NumItems * (x + 1) < m)
    BY <1>1, <1>2, <1>5, <1>7
  <2>2. NumItems * (x + 1) \in Nat
    BY <1>1, <1>7
  <2> QED BY <1>1, <2>1, <2>2, QuotientBelow DEF Past, m
<1> QED BY <1>1, <1>8, <1>9, <1>10, <1>11

LEMMA ShardFacts ==
    \A i \in Items :
        /\ ShardOf(i) \in 1..NumShards
        /\ First(ShardOf(i)) <= i /\ i < Past(ShardOf(i))
        /\ \A s \in 1..NumShards : (First(s) <= i /\ i < Past(s)) => s = ShardOf(i)
<1> SUFFICES ASSUME NEW i \in Items
             PROVE  /\ ShardOf(i) \in 1..NumShards
                    /\ First(ShardOf(i)) <= i /\ i < Past(ShardOf(i))
                    /\ \A s \in 1..NumShards : (First(s) <= i /\ i < Past(s)) => s = ShardOf(i)
  OBVIOUS
<1>1. /\ ShardOf(i) \in 1..NumShards
      /\ First(ShardOf(i)) <= i /\ i < Past(ShardOf(i))
  BY ItemHasShard DEF ShardOf
<1>2. ASSUME NEW s \in 1..NumShards, First(s) <= i, i < Past(s)
      PROVE  s = ShardOf(i)
  <2> DEFINE u == ShardOf(i)
  <2>1. u \in 1..NumShards /\ First(u) <= i /\ i < Past(u)
    BY <1>1
  <2>2. First(u) \in Nat /\ Past(u) \in Nat /\ First(s) \in Nat /\ Past(s) \in Nat /\ i \in Nat
    BY <2>1, ShardBounds DEF Items
  <2> HIDE DEF u
  <2>3. ~(s < u)
    BY <1>2, <2>1, <2>2, ShardsApart
  <2>4. ~(u < s)
    BY <1>2, <2>1, <2>2, ShardsApart
  <2>5. s = u
    BY <2>1, <2>3, <2>4, Sizes
  <2> QED BY <2>5 DEF u
<1> QED BY <1>1, <1>2

-----------------------------------------------------------------------------
(* sort_and_truncate_results().                                              *)

\* The best of all are among the best of some and the others: truncating the
\* list after each chunk loses nothing.
LEMMA BestMerge ==
    ASSUME NEW q \in Texts,
           NEW A \in SUBSET Result, NEW F \in SUBSET Result, IsFiniteSet(A), IsFiniteSet(F),
           NEW R \in Best(q, A), NEW B \in Best(q, R \cup F)
    PROVE  B \in Best(q, A \cup F)
<1> DEFINE score(r) == ScoreOf[q][r.id]
<1>1. R \subseteq A /\ B \subseteq R \cup F
  BY DEF Best
<1>2. /\ IsFiniteSet(R) /\ IsFiniteSet(R \cup F) /\ IsFiniteSet(A \cup F) /\ IsFiniteSet(B)
  <2>1. IsFiniteSet(R)
    BY <1>1, FS_Subset
  <2>2. IsFiniteSet(R \cup F) /\ IsFiniteSet(A \cup F)
    BY <2>1, FS_Union
  <2> QED BY <1>1, <2>1, <2>2, FS_Subset
<1>3. /\ Cardinality(R) \in Nat /\ Cardinality(R \cup F) \in Nat /\ Cardinality(A \cup F) \in Nat
      /\ Cardinality(A) \in Nat /\ Cardinality(B) \in Nat /\ MaxResults \in Nat
  BY <1>2, FS_CardinalityType, Sizes
<1>4. \A r \in A \cup F : score(r) \in Nat
  BY SearchAssumption DEF Texts, Result, Items
<1>5. /\ Cardinality(R) = IF Cardinality(A) < MaxResults THEN Cardinality(A) ELSE MaxResults
      /\ \A r \in R, o \in A \ R : score(r) <= score(o)
  BY DEF Best
<1>6. /\ Cardinality(B) = IF Cardinality(R \cup F) < MaxResults THEN Cardinality(R \cup F) ELSE MaxResults
      /\ \A r \in B, o \in (R \cup F) \ B : score(r) <= score(o)
  BY DEF Best
<1> HIDE DEF score
<1>7. CASE Cardinality(A) < MaxResults
  <2>1. A = R
    BY <1>1, <1>5, <1>7, FS_Subset
  <2> QED BY <2>1
<1>8. CASE ~(Cardinality(A) < MaxResults)
  <2>1. Cardinality(R) = MaxResults
    BY <1>5, <1>8
  <2>2. Cardinality(R) <= Cardinality(R \cup F)
    BY <1>2, FS_Subset
  <2>3. Cardinality(R) <= Cardinality(A \cup F)
    BY <1>1, <1>2, FS_Subset
  <2>4. Cardinality(B) = MaxResults
    BY <1>3, <1>6, <2>1, <2>2
  <2>5. Cardinality(B) = IF Cardinality(A \cup F) < MaxResults THEN Cardinality(A \cup F) ELSE MaxResults
    BY <1>3, <2>1, <2>3, <2>4
  <2>6. ASSUME NEW r \in B, NEW o \in (A \cup F) \ B
        PROVE  score(r) <= score(o)
    <3>1. CASE o \in R \cup F
      BY <1>6, <2>6, <3>1
    <3>2. CASE o \notin R \cup F
      <4>1. o \in A \ R
        BY <3>2, <2>6
      <4>2. CASE r \in R
        BY <1>5, <4>1, <4>2
      <4>3. CASE r \notin R
        <5>1. PICK x \in R : x \notin B
          <6> SUFFICES ASSUME R \subseteq B PROVE FALSE
            OBVIOUS
          <6>1. R = B
            BY <1>2, <2>1, <2>4, FS_Subset
          <6> QED BY <6>1, <4>3
        <5>2. score(r) <= score(x)
          BY <1>6, <5>1
        <5>3. score(x) <= score(o)
          BY <1>5, <4>1, <5>1
        <5>4. score(r) \in Nat /\ score(x) \in Nat /\ score(o) \in Nat
          BY <1>1, <1>4, <5>1
        <5> QED BY <5>2, <5>3, <5>4
      <4> QED BY <4>2, <4>3
    <3> QED BY <3>1, <3>2
  <2>7. B \subseteq A \cup F
    BY <1>1
  <2> QED BY <2>5, <2>6, <2>7 DEF Best, score
<1> QED BY <1>7, <1>8

LEMMA BestOfNone ==
    ASSUME NEW q PROVE {} \in Best(q, {})
<1>1. Cardinality({}) = 0 /\ MaxResults \in Nat
  BY FS_EmptySet, Sizes
<1>2. Cardinality({}) = IF Cardinality({}) < MaxResults THEN Cardinality({}) ELSE MaxResults
  BY <1>1
<1> QED BY <1>2 DEF Best

-----------------------------------------------------------------------------
(* Tasks, searches and the sets that are counted.                            *)

LEMMA TaskFacts ==
    ASSUME NEW g, NEW q, NEW b, NEW s
    PROVE  /\ TaskOf(g, q, b, s).gen = g /\ TaskOf(g, q, b, s).q = q
           /\ TaskOf(g, q, b, s).idx = b /\ TaskOf(g, q, b, s).shard = s
           /\ (g \in Nat \ {0} /\ q \in Texts /\ b \in Nat \ {0} /\ s \in 0..NumShards)
                => TaskOf(g, q, b, s) \in Task
BY DEF TaskOf, Task

LEMMA TaskIs ==
    ASSUME NEW t \in Task
    PROVE  t = TaskOf(t.gen, t.q, t.idx, t.shard)
BY DEF TaskOf, Task

LEMMA SearchesFacts ==
    ASSUME TypeInv
    PROVE  /\ Cur \in Nat \ {0} /\ Cur \in 1..Cur
           /\ \A g \in 1..Cur : searches[g] \in State
           /\ Len(symbols) \in Nat
BY DEF TypeInv, Cur

\* One search's state is replaced.
LEMMA SearchesUpdate ==
    ASSUME TypeInv, NEW g \in 1..Cur, NEW st \in State, searches' = [searches EXCEPT ![g] = st]
    PROVE  /\ searches' \in Seq(State) /\ searches' # <<>>
           /\ Cur' = Cur
           /\ searches'[g] = st
           /\ \A h \in 1..Cur : h # g => searches'[h] = searches[h]
BY DEF TypeInv, Cur

\* One count of a search is changed.
LEMMA StateCounts ==
    ASSUME NEW x \in State
    PROVE  /\ x.remaining \in Nat /\ x.total \in Nat /\ x.count \in Nat /\ x.done \in Nat
BY DEF State

LEMMA WithRemaining ==
    ASSUME NEW x \in State, NEW m \in Nat
    PROVE  LET y == [x EXCEPT !.remaining = m]
           IN  /\ y \in State /\ y.remaining = m /\ y.cancel = x.cancel /\ y.total = x.total
               /\ y.done = x.done /\ y.count = x.count
               /\ y.results = x.results /\ y.complete = x.complete
BY DEF State

LEMMA WithTotal ==
    ASSUME NEW x \in State, NEW m \in Nat
    PROVE  LET y == [x EXCEPT !.total = m]
           IN  /\ y \in State /\ y.total = m /\ y.cancel = x.cancel /\ y.remaining = x.remaining
               /\ y.done = x.done /\ y.count = x.count
               /\ y.results = x.results /\ y.complete = x.complete
BY DEF State

\* The old search is cancelled, and a new one begun.
LEMMA SearchesAppend ==
    ASSUME TypeInv, NEW n \in Nat, searches' = Append(Cancel, NewState(n))
    PROVE  /\ searches' \in Seq(State) /\ searches' # <<>>
           /\ Cur' = Cur + 1
           /\ searches'[Cur + 1] = NewState(n)
           /\ searches'[Cur].cancel /\ searches'[Cur].done = 0 /\ searches'[Cur].total = 0
           /\ \A h \in 1..(Cur - 1) : searches'[h] = searches[h]
<1>1. NewState(n) \in State /\ NewState(0) \in State
  BY DEF NewState, State
<1> DEFINE old == [NewState(0) EXCEPT !.cancel = TRUE]
<1>2. old \in State /\ old.cancel /\ old.done = 0 /\ old.total = 0
  BY DEF NewState, State
<1> HIDE DEF old
<1>3. Cancel = [searches EXCEPT ![Cur] = old]
  BY DEF Cancel, old
<1>4. /\ Cancel \in Seq(State) /\ Len(Cancel) = Cur /\ Cancel[Cur] = old
      /\ \A h \in 1..(Cur - 1) : Cancel[h] = searches[h]
  BY <1>2, <1>3, SearchesFacts DEF TypeInv, Cur
<1>5. /\ searches' \in Seq(State) /\ Len(searches') = Cur + 1
      /\ searches'[Cur + 1] = NewState(n)
      /\ \A h \in 1..Cur : searches'[h] = Cancel[h]
  BY <1>1, <1>4, SearchesFacts
<1> QED BY <1>2, <1>4, <1>5, SearchesFacts DEF Cur

LEMMA Registered ==
    ASSUME TypeInv, NEW S, IsFiniteSet(S), symbols' = symbols \o InOrder(S)
    PROVE  symbols' \in Seq(Range(symbols')) /\ Len(symbols') \in Nat
<1> DEFINE f == InOrder(S)
           T == Range(symbols) \cup Range(f)
<1>1. Cardinality(S) \in Nat
  BY FS_CardinalityType
<1>2. f \in Seq(Range(f))
  <2>1. f \in [1..Cardinality(S) -> Range(f)]
    BY DEF InOrder, Range
  <2> QED BY <1>1, <2>1, SeqDef
<1>3. f \in Seq(T)
  BY <1>2
<1>4. symbols \in Seq(T)
  BY DEF TypeInv
<1> HIDE DEF T, f
<1>5. symbols' \in Seq(T)
  <2>1. symbols' = symbols \o f
    BY DEF f
  <2> QED BY <1>3, <1>4, <2>1, ConcatProperties
<1>6. symbols' \in Seq(Range(symbols'))
  BY <1>5, SeqOfRange
<1> QED BY <1>5, <1>6

\* The items of a binary in an interval.
ItemsOf(b, from, to) == {[idx |-> b, id |-> i] : i \in from..(to - 1)}

LEMMA ItemsCount ==
    ASSUME NEW b, NEW from \in Nat, NEW to \in Nat, from <= to
    PROVE  IsFiniteSet(ItemsOf(b, from, to)) /\ Cardinality(ItemsOf(b, from, to)) = to - from
<1> DEFINE f == [i \in from..(to - 1) |-> [idx |-> b, id |-> i]]
<1>1. f \in Bijection(from..(to - 1), ItemsOf(b, from, to))
  <2>1. f \in Injection(from..(to - 1), ItemsOf(b, from, to))
    BY DEF Injection, IsInjective, ItemsOf
  <2>2. f \in Surjection(from..(to - 1), ItemsOf(b, from, to))
    BY DEF Surjection, ItemsOf
  <2> QED BY <2>1, <2>2 DEF Bijection
<1>2. /\ IsFiniteSet(from..(to - 1))
      /\ Cardinality(from..(to - 1)) = to - from
  <2>1. from \in Int /\ to - 1 \in Int
    OBVIOUS
  <2>2. /\ IsFiniteSet(from..(to - 1))
        /\ Cardinality(from..(to - 1)) = IF from > to - 1 THEN 0 ELSE (to - 1) - from + 1
    BY <2>1, FS_Interval
  <2> QED BY <2>2
<1>3. ExistsBijection(from..(to - 1), ItemsOf(b, from, to))
  BY <1>1 DEF ExistsBijection
<1> QED BY <1>2, <1>3, FS_Bijection

LEMMA CountedFinite ==
    ASSUME TypeInv
    PROVE  /\ IsFiniteSet(Open) /\ IsFiniteSet(Started) /\ IsFiniteSet(Searched) /\ IsFiniteSet(Found)
           /\ Cardinality(Open) \in Nat /\ Cardinality(Started) \in Nat
           /\ Cardinality(Searched) \in Nat /\ Cardinality(Found) \in Nat
<1>1. NumItems \in Nat /\ NumShards \in Nat /\ Len(symbols) \in Nat
  BY Sizes, SearchesFacts
<1>2. IsFiniteSet((1..Len(symbols)) \X (0..NumShards)) /\ IsFiniteSet((1..Len(symbols)) \X Items)
  <2>1. 1 \in Int /\ 0 \in Int /\ Len(symbols) \in Int /\ NumShards \in Int /\ NumItems - 1 \in Int
    BY <1>1
  <2>2. IsFiniteSet(1..Len(symbols)) /\ IsFiniteSet(0..NumShards) /\ IsFiniteSet(Items)
    BY <2>1, FS_Interval DEF Items
  <2> QED BY <2>2, FS_Product
<1>3. IsFiniteSet(All)
  <2> DEFINE f == [r \in All |-> <<r.idx, r.id>>]
  <2>1. f \in Injection(All, (1..Len(symbols)) \X Items)
    BY DEF All, Injection, IsInjective
  <2> QED BY <1>2, <2>1, FS_Injection
<1>4. IsFiniteSet(Open)
  BY <1>2, FS_Subset DEF Open
<1>5. IsFiniteSet(Started) /\ IsFiniteSet(Searched)
  BY <1>3, FS_Subset DEF Started, Searched
<1>6. IsFiniteSet(Found)
  BY <1>5, FS_Subset DEF Found
<1> QED BY <1>4, <1>5, <1>6, FS_CardinalityType

LEMMA SearchedStarted == Searched \subseteq Started
BY DEF Searched, Started, Passed

\* All that is left to do is done when nothing is open.
LEMMA ClosedIsAll ==
    ASSUME TypeInv, TasksKnown, Open = {}
    PROVE  /\ Started = All /\ Searched = All
           /\ Found = Matches(seenQuery, Len(symbols))
<1>1. Len(symbols) \in Nat /\ NumShards \in Nat
  BY Sizes, SearchesFacts
<1>2. ASSUME NEW b \in 1..Len(symbols) PROVE ~Unsplit(b)
  <2>1. <<b, 0>> \notin Open
    OBVIOUS
  <2> QED BY <1>1, <2>1 DEF Open
<1>3. ASSUME NEW b \in 1..Len(symbols), NEW s \in 1..NumShards
      PROVE  ~Ends(TaskOf(Cur, seenQuery, b, s))
  <2>1. <<b, s>> \notin Open
    OBVIOUS
  <2> QED BY <1>1, <2>1 DEF Open
<1>4. ASSUME NEW r \in All
      PROVE  Begun(r.idx, ShardOf(r.id)) /\ Passed(r.idx, ShardOf(r.id), r.id)
  <2>1. r.idx \in 1..Len(symbols) /\ ShardOf(r.id) \in 1..NumShards
    BY ShardFacts DEF All
  <2>2. ~Unsplit(r.idx) /\ ~Ends(TaskOf(Cur, seenQuery, r.idx, ShardOf(r.id)))
    BY <1>2, <1>3, <2>1
  <2> QED BY <2>2 DEF Begun, Passed, Running, Ends
<1>5. Started = All /\ Searched = All
  BY <1>4 DEF Started, Searched
<1>6. Found = Matches(seenQuery, Len(symbols))
  BY <1>5 DEF Found, Matches, All
<1> QED BY <1>5, <1>6

-----------------------------------------------------------------------------
(* How a step changes what is counted.                                       *)

\* The current search has the same tasks.
SameTask(t) ==
    /\ t \in queue' <=> t \in queue
    /\ t \in DOMAIN running' <=> t \in DOMAIN running
    /\ t \in DOMAIN running => running'[t] = running[t]
SameSearch ==
    /\ Cur' = Cur /\ seenQuery' = seenQuery /\ symbols' = symbols
    /\ \A b \in 1..Len(symbols) : Unsplit(b)' <=> Unsplit(b)
    /\ \A b \in 1..Len(symbols), s \in 1..NumShards : SameTask(TaskOf(Cur, seenQuery, b, s))

LEMMA SameCounts ==
    ASSUME SameSearch
    PROVE  Open' = Open /\ Started' = Started /\ Searched' = Searched /\ Found' = Found
<1>1. ASSUME NEW b \in 1..Len(symbols), NEW s \in 1..NumShards, NEW i
      PROVE  /\ Ends(TaskOf(Cur, seenQuery, b, s))' <=> Ends(TaskOf(Cur, seenQuery, b, s))
             /\ Begun(b, s)' <=> Begun(b, s)
             /\ Passed(b, s, i)' <=> Passed(b, s, i)
  <2> DEFINE t == TaskOf(Cur, seenQuery, b, s)
  <2>1. TaskOf(Cur', seenQuery', b, s) = t
    BY DEF SameSearch
  <2>2. /\ t \in queue' <=> t \in queue
        /\ t \in DOMAIN running' <=> t \in DOMAIN running
        /\ t \in DOMAIN running => running'[t] = running[t]
    BY DEF SameSearch, SameTask
  <2>3. Unsplit(b)' <=> Unsplit(b)
    BY DEF SameSearch
  <2> HIDE DEF t
  <2>4. Begun(b, s)' <=> Begun(b, s)
    BY <2>1, <2>2, <2>3 DEF Begun, t
  <2>5. Running(t)' <=> Running(t)
    BY <2>1, <2>2 DEF Running, t
  <2>6. Ends(TaskOf(Cur, seenQuery, b, s))' <=> Ends(TaskOf(Cur, seenQuery, b, s))
    BY <2>1, <2>2 DEF Ends, t
  <2>7. Passed(b, s, i)' <=> Passed(b, s, i)
    BY <2>1, <2>2, <2>4 DEF Passed, Running, t
  <2> QED BY <2>4, <2>6, <2>7
<1>2. symbols' = symbols /\ seenQuery' = seenQuery /\ All' = All
  BY DEF SameSearch, All
<1>3. \A r \in All : r.idx \in 1..Len(symbols) /\ ShardOf(r.id) \in 1..NumShards
  BY ShardFacts DEF All
<1>4. ASSUME NEW p \in (1..Len(symbols)) \X (0..NumShards)
      PROVE  p \in Open' <=> p \in Open
  <2>1. p[1] \in 1..Len(symbols) /\ p[2] \in 0..NumShards /\ (p[2] # 0 => p[2] \in 1..NumShards)
    BY Sizes
  <2>2. CASE p[2] = 0
    BY <1>2, <2>1, <2>2 DEF Open, SameSearch
  <2>3. CASE p[2] # 0
    BY <1>1, <1>2, <2>1, <2>3 DEF Open
  <2> QED BY <2>2, <2>3
<1>5. Open' = Open
  BY <1>2, <1>4 DEF Open
<1>6. Started' = Started
  BY <1>1, <1>2, <1>3 DEF Started
<1>7. Searched' = Searched
  BY <1>1, <1>2, <1>3 DEF Searched
<1> QED BY <1>2, <1>5, <1>6, <1>7 DEF Found

LEMMA AtFacts ==
    ASSUME TypeInv, NEW t \in Task, NEW pc \in {"search", "merged", "last", "completing"},
           NEW item \in Nat, running' = At(t, pc, item)
    PROVE  /\ DOMAIN running' = DOMAIN running \cup {t} /\ DOMAIN running' \in SUBSET Task
           /\ running' \in [DOMAIN running' -> Progress]
           /\ running'[t] = [pc |-> pc, item |-> item]
           /\ running'[t].pc = pc /\ running'[t].item = item
           /\ \A u \in DOMAIN running : u # t => running'[u] = running[u]
BY DEF TypeInv, At, Progress

LEMMA WithoutFacts ==
    ASSUME TypeInv, NEW t, running' = Without(t)
    PROVE  /\ DOMAIN running' = DOMAIN running \ {t} /\ DOMAIN running' \in SUBSET Task
           /\ running' \in [DOMAIN running' -> Progress]
           /\ \A u \in DOMAIN running : u # t => running'[u] = running[u]
BY DEF TypeInv, Without

LEMMA KeepCounted ==
    ASSUME TypeInv, Counted, SameSearch, searches'[Cur] = searches[Cur]
    PROVE  Counted'
<1>1. Open' = Open /\ Started' = Started /\ Searched' = Searched /\ Found' = Found
  BY SameCounts
<1>2. Cur' = Cur /\ seenQuery' = seenQuery
  BY DEF SameSearch
<1>3. searches'[Cur'] = searches[Cur] /\ Best(seenQuery, Found)' = Best(seenQuery, Found)
  BY <1>1, <1>2 DEF Best
<1> QED BY <1>1, <1>3 DEF Counted

LEMMA KeepLast ==
    ASSUME TypeInv, TypeInv', TasksKnown', LastIsLast, SameSearch,
           searches'[Cur].complete => Open = {}
    PROVE  LastIsLast'
<1>1. Open' = Open /\ Cur' = Cur /\ seenQuery' = seenQuery /\ symbols' = symbols
  BY SameCounts DEF SameSearch
<1>2. ASSUME NEW t \in DOMAIN running', t.gen = Cur'
      PROVE  TasksAt(t)'
  <2>1. t \in Task /\ t.gen = Cur /\ t.q = seenQuery /\ t.idx <= Len(symbols) /\ t.shard > 0
    BY <1>1, <1>2 DEF TypeInv, TasksKnown, Current
  <2>2. t = TaskOf(Cur, seenQuery, t.idx, t.shard)
    BY <2>1, TaskIs
  <2>3. t.idx \in 1..Len(symbols) /\ t.shard \in 1..NumShards
    BY <2>1, SearchesFacts, Sizes DEF Task
  <2>4. SameTask(t)
    BY <2>2, <2>3 DEF SameSearch
  <2>5. t \in DOMAIN running /\ running'[t] = running[t]
    BY <1>2, <2>4 DEF SameTask
  <2>6. TasksAt(t)
    BY <2>1, <2>5 DEF LastIsLast
  <2> QED BY <1>1, <2>5, <2>6 DEF TasksAt
<1>3. searches'[Cur'].complete => Open' = {}
  BY <1>1
<1> QED BY <1>2, <1>3 DEF LastIsLast

-----------------------------------------------------------------------------
(* Steps that leave the tasks of the current search alone.                   *)

LEMMA QuietStep ==
    ASSUME IInv, UNCHANGED <<sched, seenQuery, symbols, searches, queue, running>>,
           phase' = phase \/ (phase # "schedule" /\ phase' \in {"poll", "results"}),
           query' \in Texts, ShownMatch'
    PROVE  IInv'
<1>1. TypeInv'
  BY DEF IInv, TypeInv
<1>2. Cur' = Cur
  BY DEF Cur
<1>3. phase' = "schedule" <=> phase = "schedule"
  OBVIOUS
<1>4. OldCancelled'
  BY <1>2 DEF IInv, OldCancelled
<1>5. TasksKnown'
  BY <1>2, <1>3 DEF IInv, TasksKnown, Current, TaskOf
<1>6. SameSearch
  BY <1>2, <1>3 DEF SameSearch, SameTask, Unsplit, TaskOf
<1>7. Counted'
  BY <1>6, KeepCounted DEF IInv
<1>8. LastIsLast'
  BY <1>1, <1>5, <1>6, KeepLast DEF IInv, LastIsLast
<1> QED BY <1>1, <1>4, <1>5, <1>7, <1>8 DEF IInv

\* A task of a cancelled search moves.
LEMMA OldStep ==
    ASSUME IInv, UNCHANGED <<phase, sched, query, seenQuery, symbols, shown>>,
           NEW t \in Task, t.gen \in 1..(Cur - 1), t.shard > 0 \/ t \notin DOMAIN running',
           TypeInv', Cur' = Cur, searches'[Cur] = searches[Cur],
           \A g \in 1..(Cur - 1) : searches'[g].cancel = searches[g].cancel
               /\ searches'[g].done = searches[g].done /\ searches'[g].total = searches[g].total,
           \A u \in Task : u # t => SameTask(u),
           t \notin queue' \cap DOMAIN running'
    PROVE  IInv'
<1>1. Cur \in Nat \ {0} /\ Cur \in 1..Cur /\ Len(symbols) \in Nat /\ t.gen # Cur
  BY SearchesFacts DEF IInv
<1>2. OldCancelled'
  BY <1>1 DEF IInv, OldCancelled
<1>3. \A b, s : t # TaskOf(Cur, seenQuery, b, s)
  BY <1>1, TaskFacts
<1>4. \A b \in 1..Len(symbols), s \in 0..NumShards : SameTask(TaskOf(Cur, seenQuery, b, s))
  <2> SUFFICES ASSUME NEW b \in 1..Len(symbols), NEW s \in 0..NumShards
               PROVE  SameTask(TaskOf(Cur, seenQuery, b, s))
    OBVIOUS
  <2>1. b \in Nat \ {0} /\ seenQuery \in Texts
    BY <1>1 DEF IInv, TypeInv
  <2>2. TaskOf(Cur, seenQuery, b, s) \in Task
    BY <1>1, <2>1, TaskFacts
  <2> QED BY <1>3, <2>2
<1>5. SameSearch
  <2>1. \A b \in 1..Len(symbols) : Unsplit(b)' <=> Unsplit(b)
    <3> SUFFICES ASSUME NEW b \in 1..Len(symbols) PROVE Unsplit(b)' <=> Unsplit(b)
      OBVIOUS
    <3>1. 0 \in 0..NumShards
      BY Sizes
    <3>2. TaskOf(Cur, seenQuery, b, 0) \in queue' <=> TaskOf(Cur, seenQuery, b, 0) \in queue
      BY <1>4, <3>1 DEF SameTask
    <3>3. TaskOf(Cur, seenQuery, b, 0)' = TaskOf(Cur, seenQuery, b, 0)
      BY DEF TaskOf
    <3> QED BY <3>2, <3>3 DEF Unsplit
  <2>2. \A s \in 1..NumShards : s \in 0..NumShards
    BY Sizes
  <2> QED BY <1>4, <2>1, <2>2 DEF SameSearch
<1>6. TasksKnown'
  <2>1. ASSUME NEW u \in queue' \cup DOMAIN running' PROVE u.gen <= Cur' /\ (u.gen = Cur' => Current(u)')
    <3>1. u \in Task
      BY DEF TypeInv
    <3>2. CASE u = t
      BY <1>1, <3>2
    <3>3. CASE u # t
      <4>1. u \in queue \cup DOMAIN running
        BY <2>1, <3>1, <3>3 DEF SameTask
      <4>2. u.gen <= Cur /\ (u.gen = Cur => Current(u))
        BY <4>1 DEF IInv, TasksKnown
      <4>3. ASSUME u.gen = Cur PROVE Current(u)'
        <5>1. Current(u)
          BY <4>2, <4>3
        <5>2. u.idx \in 1..Len(symbols)
          BY <1>1, <3>1, <5>1 DEF Current, Task
        <5>3. TaskOf(Cur, seenQuery, u.idx, 0) \in queue' <=> TaskOf(Cur, seenQuery, u.idx, 0) \in queue
          BY <1>4, <5>2, Sizes, 0 \in 0..NumShards DEF SameTask
        <5>4. TaskOf(Cur', seenQuery', u.idx, 0) = TaskOf(Cur, seenQuery, u.idx, 0)
          OBVIOUS
        <5> QED BY <5>1, <5>3, <5>4 DEF Current
      <4> QED BY <4>2, <4>3
    <3> QED BY <3>2, <3>3
  <2>2. queue' \cap DOMAIN running' = {}
    <3> SUFFICES ASSUME NEW u \in queue' \cap DOMAIN running' PROVE FALSE
      OBVIOUS
    <3>1. u \in Task /\ u # t
      BY DEF TypeInv
    <3>2. u \in queue \cap DOMAIN running
      BY <3>1 DEF SameTask
    <3> QED BY <3>2 DEF IInv, TasksKnown
  <2>3. \A u \in DOMAIN running' : u.shard > 0
    BY DEF IInv, TypeInv, TasksKnown, SameTask
  <2>4. phase' = "schedule" => sched' <= Len(symbols')
    BY DEF IInv, TasksKnown
  <2> QED BY <2>1, <2>2, <2>3, <2>4 DEF TasksKnown
<1>7. Counted'
  BY <1>5, KeepCounted DEF IInv
<1>8. LastIsLast'
  BY <1>5, <1>6, KeepLast DEF IInv, LastIsLast
<1>9. ShownMatch'
  BY DEF IInv, ShownMatch
<1> QED BY <1>2, <1>6, <1>7, <1>8, <1>9 DEF IInv

LEMMA NewStateFacts ==
    ASSUME NEW n, NEW st, st = NewState(n)
    PROVE  /\ ~st.cancel /\ st.remaining = n /\ st.results = {} /\ st.count = 0
           /\ st.done = 0 /\ st.total = 0 /\ (st.complete <=> n = 0)
BY DEF NewState

-----------------------------------------------------------------------------
(* A new search.                                                             *)

\* Nothing has begun of it, and every binary is to be searched.
LEMMA FreshCounts ==
    ASSUME NEW n \in Nat, Len(symbols') = n,
           (n = 0 /\ phase' # "schedule") \/ (phase' = "schedule" /\ sched' = 1),
           \A t \in queue' \cup DOMAIN running' : t.gen # Cur'
    PROVE  /\ Started' = {} /\ Searched' = {} /\ Found' = {}
           /\ Cardinality(Open') = n /\ (n = 0 => Open' = {})
<1>1. \A b, s : TaskOf(Cur', seenQuery', b, s) \notin queue' \cup DOMAIN running'
  BY TaskFacts
<1>2. \A b, s : ~Ends(TaskOf(Cur, seenQuery, b, s))'
  BY <1>1 DEF Ends
<1>3. CASE n = 0 /\ phase' # "schedule"
  <2>1. 1..Len(symbols') = {}
    BY <1>3
  <2>2. Open' = {} /\ All' = {}
    BY <2>1 DEF Open, All
  <2> QED BY <1>3, <2>2, FS_EmptySet DEF Started, Searched, Found
<1>4. CASE phase' = "schedule" /\ sched' = 1
  <2>1. \A b \in 1..n : Unsplit(b)'
    BY <1>4 DEF Unsplit
  <2>2. \A b \in 1..n : \A s : ~Begun(b, s)'
    BY <2>1 DEF Begun
  <2>3. \A r \in All' : r.idx \in 1..n
    BY DEF All
  <2>4. Started' = {} /\ Searched' = {}
    BY <2>2, <2>3 DEF Started, Searched, Passed
  <2>5. Found' = {}
    BY <2>4 DEF Found
  <2> DEFINE f == [b \in 1..n |-> <<b, 0>>]
  <2>6. Open' = {<<b, 0>> : b \in 1..n}
    <3>1. ASSUME NEW p \in Open' PROVE p \in {<<b, 0>> : b \in 1..n}
      <4>1. p \in (1..n) \X (0..NumShards) /\ p[2] = 0
        BY <1>2, <3>1 DEF Open
      <4> QED BY <4>1
    <3>2. ASSUME NEW b \in 1..n PROVE <<b, 0>> \in Open'
      BY <2>1, Sizes DEF Open
    <3> QED BY <3>1, <3>2
  <2>7. f \in Bijection(1..n, Open')
    <3>1. f \in Injection(1..n, Open')
      BY <2>6 DEF Injection, IsInjective
    <3>2. f \in Surjection(1..n, Open')
      BY <2>6 DEF Surjection
    <3> QED BY <3>1, <3>2 DEF Bijection
  <2>8. IsFiniteSet(1..n) /\ Cardinality(1..n) = n
    <3>1. 1 \in Int /\ n \in Int
      OBVIOUS
    <3>2. IsFiniteSet(1..n) /\ Cardinality(1..n) = IF 1 > n THEN 0 ELSE n - 1 + 1
      BY <3>1, FS_Interval
    <3> QED BY <3>2
  <2>9. Cardinality(Open') = n
    BY <2>7, <2>8, FS_Bijection DEF ExistsBijection
  <2>10. n = 0 => Open' = {}
    BY <2>6
  <2> QED BY <2>4, <2>5, <2>9, <2>10
<1> QED BY <1>3, <1>4

LEMMA FreshStep ==
    ASSUME IInv, NEW n \in Nat, searches' = Append(Cancel, NewState(n)),
           symbols' \in Seq(Range(symbols')), Len(symbols') = n,
           query' \in Texts, seenQuery' \in Texts, sched' \in Nat \ {0}, UNCHANGED <<queue, running>>,
           \/ n = 0 /\ phase' \in {"poll", "results"}
           \/ n # 0 /\ phase' = "schedule" /\ sched' = 1,
           ShownMatch'
    PROVE  IInv'
<1>1. Cur \in Nat \ {0} /\ Len(symbols) \in Nat
  BY SearchesFacts DEF IInv
<1>2. /\ searches' \in Seq(State) /\ searches' # <<>>
      /\ Cur' = Cur + 1
      /\ searches'[Cur + 1] = NewState(n)
      /\ searches'[Cur].cancel /\ searches'[Cur].done = 0 /\ searches'[Cur].total = 0
      /\ \A h \in 1..(Cur - 1) : searches'[h] = searches[h]
  BY SearchesAppend DEF IInv
<1>new. searches'[Cur'] = NewState(n)
  BY <1>2
<1>3. phase' \in {"poll", "schedule", "results"}
  OBVIOUS
<1>4. TypeInv'
  BY <1>2, <1>3 DEF IInv, TypeInv
<1>5. OldCancelled'
  <2>1. ~searches'[Cur'].cancel
    BY <1>new, NewStateFacts
  <2>2. ASSUME NEW g \in 1..(Cur' - 1)
        PROVE  searches'[g].cancel /\ searches'[g].done = 0 /\ searches'[g].total = 0
    <3>1. g = Cur \/ g \in 1..(Cur - 1)
      BY <1>1, <1>2
    <3> QED BY <1>2, <3>1 DEF IInv, OldCancelled
  <2> QED BY <2>1, <2>2 DEF OldCancelled
<1>6. \A t \in queue' \cup DOMAIN running' : t.gen < Cur'
  BY <1>1, <1>2 DEF IInv, TypeInv, TasksKnown, Task
<1>7. TasksKnown'
  <2>1. \A t \in queue' \cup DOMAIN running' : t.gen <= Cur' /\ t.gen # Cur'
    BY <1>1, <1>2, <1>6, <1>4 DEF TypeInv, Task
  <2>2. phase' = "schedule" => sched' <= Len(symbols')
    OBVIOUS
  <2> QED BY <2>1, <2>2 DEF IInv, TasksKnown
<1>8. \A t \in queue' \cup DOMAIN running' : t.gen # Cur'
  BY <1>1, <1>2, <1>6, <1>4 DEF TypeInv, Task
<1>9. /\ Started' = {} /\ Searched' = {} /\ Found' = {}
      /\ Cardinality(Open') = n /\ (n = 0 => Open' = {})
  BY <1>8, FreshCounts
<1>10. Counted'
  <2>1. {} \in Best(seenQuery', {})
    BY BestOfNone
  <2>2. {} \in Best(seenQuery, Found)'
    BY <1>9, <2>1 DEF Best
  <2>3. /\ searches'[Cur'].remaining = n /\ searches'[Cur'].total = 0 /\ searches'[Cur'].done = 0
        /\ searches'[Cur'].count = 0 /\ searches'[Cur'].results = {}
    BY <1>new, NewStateFacts
  <2> QED BY <1>9, <2>2, <2>3, FS_EmptySet DEF Counted
<1>11. LastIsLast'
  <2>1. searches'[Cur'].complete <=> n = 0
    BY <1>new, NewStateFacts
  <2> QED BY <1>8, <1>9, <2>1 DEF LastIsLast
<1> QED BY <1>4, <1>5, <1>7, <1>10, <1>11 DEF IInv

LEMMA InitInv ==
    ASSUME SearchInit PROVE IInv
<1>1. NewState(0) \in State /\ searches = <<NewState(0)>> /\ Cur = 1 /\ searches[1] = NewState(0)
  BY DEF SearchInit, NewState, State, Cur
<1>2. running = <<>> /\ queue = {} /\ symbols = <<>>
  BY DEF SearchInit
<1>none. DOMAIN running = {} /\ Len(symbols) = 0
  BY <1>2
<1>3. TypeInv
  <2>1. symbols \in Seq(Range(symbols))
    BY <1>2
  <2>2. searches \in Seq(State) /\ searches # <<>>
    BY <1>1
  <2>3. running \in [DOMAIN running -> Progress]
    <3>1. running = [u \in {} |-> running[u]]
      BY <1>2
    <3> QED BY <1>none, <3>1
  <2>4. phase = "poll" /\ sched = 1 /\ query = "" /\ seenQuery = ""
    BY DEF SearchInit
  <2>5. 1 \in Nat \ {0} /\ "" \in Texts /\ {} \in SUBSET Task
    BY DEF Texts
  <2> QED BY <1>2, <1>none, <2>1, <2>2, <2>3, <2>4, <2>5 DEF TypeInv
<1>4. Open = {} /\ All = {}
  BY <1>none DEF Open, All
<1>5. Started = {} /\ Searched = {} /\ Found = {}
  BY <1>4 DEF Started, Searched, Found
<1>6. Counted
  <2>1. {} \in Best(seenQuery, Found)
    BY <1>5, BestOfNone
  <2>2. /\ searches[1].remaining = 0 /\ searches[1].total = 0 /\ searches[1].done = 0
        /\ searches[1].count = 0 /\ searches[1].results = {}
    BY <1>1, NewStateFacts
  <2> QED BY <1>1, <1>4, <1>5, <2>1, <2>2, FS_EmptySet DEF Counted
<1>7. OldCancelled
  <2>1. ~searches[1].cancel
    BY <1>1, NewStateFacts
  <2> QED BY <1>1, <2>1 DEF OldCancelled
<1>8. TasksKnown
  BY <1>2, <1>none DEF TasksKnown, SearchInit
<1>9. LastIsLast
  BY <1>none, <1>4 DEF LastIsLast
<1>10. ShownMatch
  BY DEF ShownMatch, SearchInit
<1> QED BY <1>3, <1>6, <1>7, <1>8, <1>9, <1>10 DEF IInv

-----------------------------------------------------------------------------
(* The main thread and its surroundings.                                     *)

LEMMA UpdateInv ==
    ASSUME IInv, Update PROVE IInv'
<1>1. ShownMatch'
  BY DEF IInv, ShownMatch, Update
<1>2. query' \in Texts /\ seenQuery' \in Texts
  BY DEF IInv, TypeInv, Update
<1> DEFINE S == {b \in Bins : bins[b] = "loaded" /\ ~InSymbols(b)}
<1>3. symbols' = symbols \o InOrder(S)
  BY DEF Update
<1>4. IsFiniteSet(S)
  BY Sizes, FS_Subset
<1> HIDE DEF S
<1>5. symbols' \in Seq(Range(symbols')) /\ Len(symbols') \in Nat
  BY <1>3, <1>4, Registered DEF IInv
<1>6. CASE seenQuery = query /\ symbols' = symbols
  BY <1>1, <1>2, <1>6, QuietStep DEF Update
<1>7. CASE ~(seenQuery = query /\ symbols' = symbols)
  <2>1. StartSearch(symbols') /\ UNCHANGED <<queue, running>>
    BY <1>7 DEF Update
  <2>2. symbols' = <<>> <=> Len(symbols') = 0
    BY <1>5
  <2>3. searches' = Append(Cancel, NewState(Len(symbols'))) /\ sched' = 1
    BY <2>1 DEF StartSearch
  <2>4. \/ Len(symbols') = 0 /\ phase' \in {"poll", "results"}
        \/ Len(symbols') # 0 /\ phase' = "schedule" /\ sched' = 1
    BY <2>1, <2>2 DEF StartSearch
  <2> DEFINE n == Len(symbols')
  <2>5. n \in Nat /\ sched' \in Nat \ {0}
    BY <1>5, <2>3
  <2> QED BY <1>1, <1>2, <1>5, <2>1, <2>3, <2>4, <2>5, FreshStep
<1> QED BY <1>6, <1>7

LEMMA DrawInv ==
    ASSUME IInv, Draw PROVE IInv'
<1>1. searches[Cur].results \subseteq Found
  BY DEF IInv, Counted, Best
<1>2. \A r \in searches[Cur].results : ScoreOf[seenQuery][r.id] # NoMatch
  BY <1>1 DEF Found
<1>3. ShownMatch'
  BY <1>2 DEF Draw, ShownMatch
<1> QED BY <1>3, QuietStep DEF Draw, IInv, TypeInv

LEMMA EnvironmentInv ==
    ASSUME IInv, Environment PROVE IInv'
<1>1. ASSUME NEW q \in Queries, Type(q) PROVE IInv'
  <2>1. ShownMatch' /\ query' \in Texts
    BY <1>1 DEF Type, IInv, ShownMatch, Texts
  <2> QED BY <1>1, <2>1, QuietStep DEF Type
<1>2. ASSUME NEW b \in Bins, SymbolsEnd(b) PROVE IInv'
  <2>1. ShownMatch' /\ query' \in Texts
    BY <1>2 DEF SymbolsEnd, IInv, ShownMatch, TypeInv
  <2> QED BY <1>2, <2>1, QuietStep DEF SymbolsEnd
<1>3. ASSUME Reopen PROVE IInv'
  <2>1. ShownMatch'
    BY <1>3 DEF Reopen, ShownMatch
  <2>2. symbols' = <<>> /\ query' \in Texts /\ seenQuery' \in Texts
    BY <1>3 DEF Reopen, Texts
  <2>3. symbols' \in Seq(Range(symbols')) /\ Len(symbols') = 0
    BY <2>2
  <2>4. phase' = "poll" /\ sched' \in Nat \ {0} /\ UNCHANGED <<queue, running>>
        /\ searches' = Append(Cancel, NewState(0))
    BY <1>3 DEF Reopen, IInv, TypeInv
  <2> QED BY <2>1, <2>2, <2>3, <2>4, FreshStep, 0 \in Nat
<1> QED BY <1>1, <1>2, <1>3 DEF Environment

-----------------------------------------------------------------------------
(* Binaries are split into shards.                                           *)

LEMMA CurrentTask ==
    ASSUME IInv, NEW t \in queue \cup DOMAIN running, t.gen = Cur
    PROVE  /\ t \in Task /\ t = TaskOf(Cur, seenQuery, t.idx, t.shard)
           /\ t.idx \in 1..Len(symbols) /\ t.shard \in 0..NumShards
           /\ t.shard > 0 => t.shard \in 1..NumShards /\ ~Unsplit(t.idx)
           /\ t.shard = 0 => Unsplit(t.idx) /\ t \in queue
           /\ phase = "schedule" => t.idx < sched
<1>1. t \in Task /\ Current(t)
  BY DEF IInv, TypeInv, TasksKnown
<1>2. t = TaskOf(Cur, seenQuery, t.idx, t.shard)
  BY <1>1, TaskIs DEF Current
<1>3. Len(symbols) \in Nat /\ NumShards \in Nat /\ t.idx \in Nat \ {0} /\ t.shard \in 0..NumShards
  BY <1>1, SearchesFacts, Sizes DEF IInv, Task
<1>4. t.idx \in 1..Len(symbols)
  BY <1>1, <1>3 DEF Current
<1>5. phase = "schedule" => t.idx < sched
  BY <1>1 DEF Current
<1>6. sched \in Nat
  BY DEF IInv, TypeInv
<1>7. t.shard > 0 => t.shard \in 1..NumShards /\ ~Unsplit(t.idx)
  BY <1>1, <1>3, <1>5, <1>6 DEF Current, Unsplit
<1>8. t.shard = 0 => Unsplit(t.idx) /\ t \in queue
  <2> SUFFICES ASSUME t.shard = 0 PROVE Unsplit(t.idx) /\ t \in queue
    OBVIOUS
  <2>1. t \notin DOMAIN running
    BY DEF IInv, TasksKnown
  <2>2. TaskOf(Cur, seenQuery, t.idx, 0) \in queue
    BY <1>2, <2>1
  <2> QED BY <2>1, <2>2 DEF Unsplit
<1> QED BY <1>1, <1>2, <1>3, <1>4, <1>5, <1>7, <1>8

\* An unsplit binary has no tasks for its shards.
LEMMA UnsplitAlone ==
    ASSUME IInv, NEW b \in 1..Len(symbols), Unsplit(b), NEW s \in 1..NumShards
    PROVE  TaskOf(Cur, seenQuery, b, s) \notin queue \cup DOMAIN running
<1> DEFINE t == TaskOf(Cur, seenQuery, b, s)
<1> SUFFICES ASSUME t \in queue \cup DOMAIN running PROVE FALSE
  OBVIOUS
<1>1. t.gen = Cur /\ t.idx = b /\ t.shard = s /\ s > 0
  BY TaskFacts, Sizes
<1> HIDE DEF t
<1> QED BY <1>1, CurrentTask

LEMMA SplitCounts ==
    ASSUME IInv, NEW c \in 1..Len(symbols), Unsplit(c), ~(Unsplit(c)'),
           Cur' = Cur, UNCHANGED <<seenQuery, symbols, running>>,
           \A b \in 1..Len(symbols) : b # c => (Unsplit(b)' <=> Unsplit(b)),
           \A b \in 1..Len(symbols), s \in 1..NumShards :
               TaskOf(Cur, seenQuery, b, s) \in queue'
                   <=> (TaskOf(Cur, seenQuery, b, s) \in queue \/ b = c)
    PROVE  /\ Started' = Started /\ Searched' = Searched /\ Found' = Found
           /\ Cardinality(Open') = Cardinality(Open) + NumShards - 1
           /\ Open # {}
<1>1. \A r \in All : r.idx \in 1..Len(symbols) /\ ShardOf(r.id) \in 1..NumShards
  BY ShardFacts DEF All
<1>2. ASSUME NEW b \in 1..Len(symbols), NEW s \in 1..NumShards, NEW i
      PROVE  (Begun(b, s)' <=> Begun(b, s)) /\ (Passed(b, s, i)' <=> Passed(b, s, i))
  <2>1. TaskOf(Cur', seenQuery', b, s) = TaskOf(Cur, seenQuery, b, s)
    OBVIOUS
  <2>2. CASE b = c
    <3>1. TaskOf(Cur, seenQuery, b, s) \in queue'
      BY <2>2
    <3>2. ~Begun(b, s) /\ ~(Begun(b, s)')
      BY <2>1, <2>2, <3>1 DEF Begun
    <3> QED BY <3>2 DEF Passed
  <2>3. CASE b # c
    <3>1. TaskOf(Cur, seenQuery, b, s) \in queue' <=> TaskOf(Cur, seenQuery, b, s) \in queue
      BY <2>3
    <3>2. Unsplit(b)' <=> Unsplit(b)
      BY <2>3
    <3>3. Begun(b, s)' <=> Begun(b, s)
      BY <2>1, <3>1, <3>2 DEF Begun
    <3> QED BY <2>1, <3>3 DEF Passed, Running
  <2> QED BY <2>2, <2>3
<1>3. All' = All
  BY DEF All
<1>4. Started' = Started
  BY <1>1, <1>2, <1>3 DEF Started
<1>5. Searched' = Searched
  BY <1>1, <1>2, <1>3 DEF Searched
<1>6. Found' = Found
  BY <1>5 DEF Found
<1>7. Len(symbols) \in Nat /\ NumShards \in Nat /\ NumShards # 0 /\ IsFiniteSet(Open)
      /\ Cardinality(Open) \in Nat
  BY Sizes, SearchesFacts, CountedFinite DEF IInv
<1> DEFINE new == {<<c, s>> : s \in 1..NumShards}
           rest == Open \ {<<c, 0>>}
<1>8. <<c, 0>> \in Open
  BY <1>7 DEF Open
<1>9. ASSUME NEW p \in (1..Len(symbols)) \X (0..NumShards)
      PROVE  p \in Open' <=> p \in rest \cup new
  <2>1. /\ p[1] \in 1..Len(symbols) /\ p[2] \in 0..NumShards /\ (p[2] # 0 => p[2] \in 1..NumShards)
        /\ p = <<p[1], p[2]>>
    BY <1>7
  <2>2. CASE p[2] = 0
    <3>1. p \in Open' <=> Unsplit(p[1])'
      BY <2>2 DEF Open
    <3>2. p \in Open <=> Unsplit(p[1])
      BY <2>2 DEF Open
    <3>3. p \notin new
      BY <1>7, <2>2
    <3>4. CASE p[1] = c
      <4>1. p = <<c, 0>>
        BY <2>1, <2>2, <3>4
      <4> QED BY <3>1, <3>3, <3>4, <4>1
    <3>5. CASE p[1] # c
      <4>1. p # <<c, 0>>
        BY <2>1, <3>5
      <4> QED BY <2>1, <3>1, <3>2, <3>3, <3>5, <4>1
    <3> QED BY <3>4, <3>5
  <2>3. CASE p[2] # 0
    <3> DEFINE u == TaskOf(Cur, seenQuery, p[1], p[2])
    <3>1. p \in Open' <=> (u \in queue' \/ (u \in DOMAIN running /\ running[u].pc \in {"search", "merged"}))
      BY <2>3 DEF Open, Ends
    <3>2. p \in Open <=> (u \in queue \/ (u \in DOMAIN running /\ running[u].pc \in {"search", "merged"}))
      BY <2>3 DEF Open, Ends
    <3>3. p \in rest <=> p \in Open
      BY <2>3
    <3>4. u \in queue' <=> (u \in queue \/ p[1] = c)
      BY <2>1, <2>3
    <3>5. p \in new <=> p[1] = c
      BY <2>1, <2>3
    <3> QED BY <3>1, <3>2, <3>3, <3>4, <3>5
  <2> QED BY <2>2, <2>3
<1>10. Open' = rest \cup new
  <2>1. Open' \subseteq (1..Len(symbols)) \X (0..NumShards)
    BY DEF Open
  <2>2. rest \cup new \subseteq (1..Len(symbols)) \X (0..NumShards)
    BY <1>7 DEF Open
  <2> HIDE DEF rest, new
  <2> QED BY <1>9, <2>1, <2>2
<1>11. rest \cap new = {}
  <2> SUFFICES ASSUME NEW s \in 1..NumShards, <<c, s>> \in Open PROVE FALSE
    BY DEF new, rest
  <2>1. Ends(TaskOf(Cur, seenQuery, c, s))
    BY <1>7 DEF Open
  <2> QED BY <2>1, UnsplitAlone DEF Ends
<1>12. IsFiniteSet(rest) /\ Cardinality(rest) = Cardinality(Open) - 1
  BY <1>7, <1>8, FS_RemoveElement
<1>13. IsFiniteSet(new) /\ Cardinality(new) = NumShards
  <2> DEFINE f == [s \in 1..NumShards |-> <<c, s>>]
  <2>1. f \in Injection(1..NumShards, new)
    BY DEF Injection, IsInjective
  <2>2. f \in Surjection(1..NumShards, new)
    BY DEF Surjection
  <2>3. ExistsBijection(1..NumShards, new)
    BY <2>1, <2>2 DEF Bijection, ExistsBijection
  <2>4. 1 \in Int /\ NumShards \in Int
    BY <1>7
  <2>5. IsFiniteSet(1..NumShards)
        /\ Cardinality(1..NumShards) = IF 1 > NumShards THEN 0 ELSE NumShards - 1 + 1
    BY <2>4, FS_Interval
  <2>6. Cardinality(1..NumShards) = NumShards
    BY <1>7, <2>5
  <2> QED BY <2>3, <2>5, <2>6, FS_Bijection
<1> HIDE DEF rest, new
<1>14. Cardinality(rest \cup new) = Cardinality(rest) + Cardinality(new) - Cardinality({})
  BY <1>11, <1>12, <1>13, FS_Union
<1>15. Cardinality(Open') = Cardinality(Open) + NumShards - 1
  BY <1>7, <1>10, <1>12, <1>13, <1>14, FS_EmptySet
<1> QED BY <1>4, <1>5, <1>6, <1>8, <1>15

LEMMA ShardTasksFacts ==
    ASSUME NEW g, NEW q, NEW c, NEW t
    PROVE  t \in ShardTasks(g, q, c) <=> \E s \in 1..NumShards : t = TaskOf(g, q, c, s)
BY DEF ShardTasks

\* The end of file_search_task(), of the current search.
LEMMA SplitStep ==
    ASSUME IInv, NEW c \in 1..Len(symbols), Unsplit(c),
           UNCHANGED <<query, seenQuery, symbols, shown, running>>,
           searches' = [searches EXCEPT ![Cur].remaining = @ + NumShards - 1],
           queue' = (queue \ {TaskOf(Cur, seenQuery, c, 0)}) \cup ShardTasks(Cur, seenQuery, c),
           phase' \in {"poll", "schedule", "results"}, sched' \in Nat \ {0},
           phase' = "schedule" => sched' <= Len(symbols),
           \A b \in 1..Len(symbols) :
               (phase' = "schedule" /\ sched' <= b) <=> (phase = "schedule" /\ sched <= b /\ b # c)
    PROVE  IInv'
<1>1. Cur \in Nat \ {0} /\ Cur \in 1..Cur /\ Len(symbols) \in Nat /\ NumShards \in Nat /\ NumShards # 0
      /\ seenQuery \in Texts /\ searches[Cur] \in State /\ 0 \in 0..NumShards
  BY SearchesFacts, Sizes DEF IInv, TypeInv
<1> DEFINE st == [searches[Cur] EXCEPT !.remaining = @ + NumShards - 1]
<1>2. /\ st \in State /\ st.remaining = searches[Cur].remaining + NumShards - 1
      /\ st.cancel = searches[Cur].cancel /\ st.total = searches[Cur].total
      /\ st.done = searches[Cur].done /\ st.count = searches[Cur].count
      /\ st.results = searches[Cur].results /\ st.complete = searches[Cur].complete
  <2>1. searches[Cur].remaining \in Nat
    BY <1>1, StateCounts
  <2>2. searches[Cur].remaining + NumShards - 1 \in Nat
    BY <1>1, <2>1
  <2> QED BY <1>1, <2>2, WithRemaining
<1>3. searches' = [searches EXCEPT ![Cur] = st]
  OBVIOUS
<1> HIDE DEF st
<1>4. /\ searches' \in Seq(State) /\ searches' # <<>> /\ Cur' = Cur /\ searches'[Cur] = st
      /\ \A h \in 1..Cur : h # Cur => searches'[h] = searches[h]
  <2>1. TypeInv /\ Cur \in 1..Cur /\ st \in State
    BY <1>1, <1>2 DEF IInv
  <2> QED BY <1>3, <2>1, SearchesUpdate
<1>5. ASSUME NEW t \in ShardTasks(Cur, seenQuery, c)
      PROVE  t \in Task /\ t.gen = Cur /\ t.q = seenQuery /\ t.idx = c /\ t.shard > 0
             /\ t \notin queue \cup DOMAIN running
  <2>1. PICK s \in 1..NumShards : t = TaskOf(Cur, seenQuery, c, s)
    BY <1>5, ShardTasksFacts
  <2>2. s \in 0..NumShards /\ s > 0 /\ c \in Nat \ {0}
    BY <1>1
  <2> QED BY <1>1, <2>1, <2>2, TaskFacts, UnsplitAlone
<1>6. TypeInv'
  <2>1. queue' \in SUBSET Task
    BY <1>5 DEF IInv, TypeInv
  <2> QED BY <1>4, <2>1 DEF IInv, TypeInv
<1>7. OldCancelled'
  <2>1. \A h \in 1..(Cur - 1) : h \in 1..Cur /\ h # Cur
    BY <1>1
  <2> QED BY <1>2, <1>4, <2>1 DEF IInv, OldCancelled
<1>8. ASSUME NEW b \in 1..Len(symbols), NEW s \in 0..NumShards
      PROVE  TaskOf(Cur, seenQuery, b, s) \in queue'
               <=> \/ TaskOf(Cur, seenQuery, b, s) \in queue /\ ~(b = c /\ s = 0)
                   \/ b = c /\ s # 0
  <2> DEFINE t == TaskOf(Cur, seenQuery, b, s)
  <2>1. t.idx = b /\ t.shard = s
    BY TaskFacts
  <2>2. t = TaskOf(Cur, seenQuery, c, 0) <=> b = c /\ s = 0
    BY <2>1, TaskFacts
  <2>3. t \in ShardTasks(Cur, seenQuery, c) <=> b = c /\ s # 0
    <3>1. ASSUME t \in ShardTasks(Cur, seenQuery, c) PROVE b = c /\ s # 0
      BY <1>5, <2>1, <3>1
    <3>2. ASSUME b = c, s # 0 PROVE t \in ShardTasks(Cur, seenQuery, c)
      BY <1>1, <3>2, ShardTasksFacts, s \in 1..NumShards
    <3> QED BY <3>1, <3>2
  <2> HIDE DEF t
  <2>4. t \in queue' <=> (t \in queue /\ t # TaskOf(Cur, seenQuery, c, 0)) \/ t \in ShardTasks(Cur, seenQuery, c)
    OBVIOUS
  <2>5. t \in queue' <=> (t \in queue /\ ~(b = c /\ s = 0)) \/ (b = c /\ s # 0)
    BY <2>2, <2>3, <2>4
  <2> QED BY <2>5 DEF t
<1>9. ~(Unsplit(c)')
  <2>1. TaskOf(Cur, seenQuery, c, 0) \notin queue'
    BY <1>1, <1>8
  <2>2. TaskOf(Cur', seenQuery', c, 0) = TaskOf(Cur, seenQuery, c, 0)
    BY <1>4
  <2> QED BY <2>1, <2>2 DEF Unsplit
<1>10. \A b \in 1..Len(symbols) : b # c => (Unsplit(b)' <=> Unsplit(b))
  <2> SUFFICES ASSUME NEW b \in 1..Len(symbols), b # c PROVE Unsplit(b)' <=> Unsplit(b)
    OBVIOUS
  <2>1. TaskOf(Cur, seenQuery, b, 0) \in queue' <=> TaskOf(Cur, seenQuery, b, 0) \in queue
    BY <1>1, <1>8
  <2>2. TaskOf(Cur', seenQuery', b, 0) = TaskOf(Cur, seenQuery, b, 0)
    BY <1>4
  <2> QED BY <2>1, <2>2 DEF Unsplit
<1>11. \A b \in 1..Len(symbols), s \in 1..NumShards :
           TaskOf(Cur, seenQuery, b, s) \in queue'
               <=> (TaskOf(Cur, seenQuery, b, s) \in queue \/ b = c)
  <2> SUFFICES ASSUME NEW b \in 1..Len(symbols), NEW s \in 1..NumShards
               PROVE  TaskOf(Cur, seenQuery, b, s) \in queue'
                        <=> (TaskOf(Cur, seenQuery, b, s) \in queue \/ b = c)
    OBVIOUS
  <2>1. s \in 0..NumShards /\ s # 0
    BY <1>1
  <2> QED BY <1>8, <2>1
<1>12. /\ Started' = Started /\ Searched' = Searched /\ Found' = Found
       /\ Cardinality(Open') = Cardinality(Open) + NumShards - 1
       /\ Open # {}
  BY <1>4, <1>9, <1>10, <1>11, SplitCounts
<1>13. Counted'
  <2>1. searches'[Cur'] = st /\ seenQuery' = seenQuery
    BY <1>4
  <2>2. Best(seenQuery, Found)' = Best(seenQuery, Found)
    BY <1>12 DEF Best
  <2>3. st.remaining = Cardinality(Open')
    BY <1>2, <1>12 DEF IInv, Counted
  <2> QED BY <1>2, <1>12, <2>1, <2>2, <2>3 DEF IInv, Counted
<1>14. LastIsLast'
  <2>1. ~searches'[Cur'].complete
    BY <1>2, <1>4, <1>12 DEF IInv, LastIsLast
  <2>2. ASSUME NEW t \in DOMAIN running', t.gen = Cur' PROVE TasksAt(t)'
    <3>1. t \in DOMAIN running /\ t.gen = Cur /\ running' = running
      BY <1>4, <2>2
    <3>2. TasksAt(t)
      BY <3>1 DEF IInv, LastIsLast
    <3>3. running[t].pc \notin {"last", "completing"}
      BY <1>12, <3>2 DEF TasksAt
    <3> QED BY <3>1, <3>2, <3>3 DEF TasksAt
  <2> QED BY <2>1, <2>2 DEF LastIsLast
<1>15. TasksKnown'
  <2>1. ASSUME NEW t \in queue' \cup DOMAIN running'
        PROVE  t.gen <= Cur' /\ (t.gen = Cur' => Current(t)')
    <3>1. CASE t \in ShardTasks(Cur, seenQuery, c)
      <4>1. TaskOf(Cur', seenQuery', c, 0) \notin queue'
        BY <1>1, <1>4, <1>8
      <4>2. phase' = "schedule" => c < sched'
        BY <1>1
      <4>3. t.gen = Cur /\ t.q = seenQuery /\ t.idx = c
        BY <1>5, <3>1
      <4> QED BY <1>1, <1>4, <4>1, <4>2, <4>3 DEF Current
    <3>2. CASE t \notin ShardTasks(Cur, seenQuery, c)
      <4>1. t \in queue \cup DOMAIN running
        BY <2>1, <3>2
      <4>2. t.gen <= Cur
        BY <4>1 DEF IInv, TasksKnown
      <4>3. ASSUME t.gen = Cur PROVE Current(t)'
        <5>1. Current(t) /\ t.idx \in 1..Len(symbols)
          BY <4>1, <4>3, CurrentTask DEF IInv, TasksKnown
        <5>2. phase' = "schedule" => t.idx < sched'
          <6> SUFFICES ASSUME phase' = "schedule", sched' <= t.idx PROVE FALSE
            BY <1>1, <5>1
          <6>1. phase = "schedule" /\ sched <= t.idx
            BY <5>1
          <6>2. t.idx < sched /\ sched \in Nat
            BY <5>1, <6>1 DEF Current, IInv, TypeInv
          <6> QED BY <1>1, <5>1, <6>1, <6>2
        <5>3. t.shard > 0 => TaskOf(Cur', seenQuery', t.idx, 0) \notin queue'
          BY <1>1, <1>4, <1>8, <5>1 DEF Current
        <5> QED BY <5>1, <5>2, <5>3 DEF Current
      <4> QED BY <1>4, <4>2, <4>3
    <3> QED BY <3>1, <3>2
  <2>2. queue' \cap DOMAIN running' = {}
    BY <1>5 DEF IInv, TasksKnown
  <2>3. \A t \in DOMAIN running' : t.shard > 0
    BY DEF IInv, TasksKnown
  <2> QED BY <2>1, <2>2, <2>3 DEF TasksKnown
<1>16. ShownMatch'
  BY DEF IInv, ShownMatch
<1> QED BY <1>6, <1>7, <1>13, <1>14, <1>15, <1>16 DEF IInv

\* The loop of update() gives a binary to the Executor.
LEMMA FileTaskAdded ==
    ASSUME IInv, Schedule, seenQuery \in WithFile PROVE IInv'
<1>1. /\ phase = "schedule" /\ queue' = queue \cup {TaskOf(Cur, seenQuery, sched, 0)}
      /\ sched' = sched + 1 /\ phase' = IF sched = Len(symbols) THEN "results" ELSE phase
      /\ UNCHANGED <<query, seenQuery, symbols, shown, running, searches>>
  BY DEF Schedule
<1>2. Cur \in Nat \ {0} /\ Cur \in 1..Cur /\ Len(symbols) \in Nat /\ NumShards \in Nat /\ NumShards # 0
      /\ seenQuery \in Texts /\ sched \in Nat \ {0} /\ sched <= Len(symbols) /\ 0 \in 0..NumShards
  BY <1>1, SearchesFacts, Sizes DEF IInv, TypeInv, TasksKnown
<1> DEFINE t == TaskOf(Cur, seenQuery, sched, 0)
<1>3. t \in Task /\ t.gen = Cur /\ t.q = seenQuery /\ t.idx = sched /\ t.shard = 0
  BY <1>2, TaskFacts
<1>4. Cur' = Cur
  BY <1>1 DEF Cur
<1>5. TypeInv'
  BY <1>1, <1>2, <1>3 DEF IInv, TypeInv
<1>6. OldCancelled' /\ ShownMatch'
  BY <1>1, <1>4 DEF IInv, OldCancelled, ShownMatch
<1>7. \A b, s : TaskOf(Cur, seenQuery, b, s) = t <=> b = sched /\ s = 0
  BY <1>3, TaskFacts
<1> HIDE DEF t
<1>8. queue' = queue \cup {t}
  BY <1>1 DEF t
<1>9. \A b : TaskOf(Cur', seenQuery', b, 0) = TaskOf(Cur, seenQuery, b, 0)
  BY <1>1, <1>4
<1>10. SameSearch
  <2>1. ASSUME NEW b \in 1..Len(symbols) PROVE Unsplit(b)' <=> Unsplit(b)
    <3>1. CASE b = sched
      BY <1>1, <1>2, <1>7, <1>8, <1>9, <3>1 DEF Unsplit
    <3>2. CASE b # sched
      <4>1. TaskOf(Cur, seenQuery, b, 0) \in queue' <=> TaskOf(Cur, seenQuery, b, 0) \in queue
        BY <1>7, <1>8, <3>2
      <4>2. (phase' = "schedule" /\ sched' <= b) <=> (phase = "schedule" /\ sched <= b)
        BY <1>1, <1>2, <3>2
      <4> QED BY <1>9, <4>1, <4>2 DEF Unsplit
    <3> QED BY <3>1, <3>2
  <2>2. ASSUME NEW b \in 1..Len(symbols), NEW s \in 1..NumShards
        PROVE  SameTask(TaskOf(Cur, seenQuery, b, s))
    BY <1>1, <1>2, <1>7, <1>8 DEF SameTask
  <2> QED BY <1>1, <1>4, <2>1, <2>2 DEF SameSearch
<1>11. TasksKnown'
  <2>1. ASSUME NEW u \in queue' \cup DOMAIN running'
        PROVE  u.gen <= Cur' /\ (u.gen = Cur' => Current(u)')
    <3>1. CASE u = t
      BY <1>1, <1>2, <1>3, <1>4, <3>1 DEF Current
    <3>2. CASE u # t
      <4>1. u \in queue \cup DOMAIN running
        BY <1>1, <1>8, <2>1, <3>2
      <4>2. u.gen <= Cur
        BY <4>1 DEF IInv, TasksKnown
      <4>3. ASSUME u.gen = Cur PROVE Current(u)'
        <5>1. Current(u) /\ u.idx \in 1..Len(symbols) /\ u.idx < sched
          BY <1>1, <4>1, <4>3, CurrentTask DEF IInv, TasksKnown
        <5>2. TaskOf(Cur, seenQuery, u.idx, 0) # t
          BY <1>2, <1>7, <5>1
        <5> QED BY <1>1, <1>2, <1>4, <1>8, <1>9, <5>1, <5>2 DEF Current
      <4> QED BY <1>4, <4>2, <4>3
    <3> QED BY <3>1, <3>2
  <2>2. queue' \cap DOMAIN running' = {}
    BY <1>1, <1>3, <1>8 DEF IInv, TasksKnown
  <2>3. phase' = "schedule" => sched' <= Len(symbols')
    BY <1>1, <1>2
  <2> QED BY <1>1, <2>1, <2>2, <2>3 DEF IInv, TasksKnown
<1>12. Counted'
  BY <1>1, <1>10, KeepCounted DEF IInv
<1>13. LastIsLast'
  BY <1>1, <1>5, <1>10, <1>11, KeepLast DEF IInv, LastIsLast
<1> QED BY <1>5, <1>6, <1>11, <1>12, <1>13 DEF IInv

LEMMA ScheduleInv ==
    ASSUME IInv, Schedule PROVE IInv'
<1>1. CASE seenQuery \in WithFile
  BY <1>1, FileTaskAdded
<1>2. CASE seenQuery \notin WithFile
  <2>1. /\ phase = "schedule" /\ AddShards(Cur, seenQuery, sched, queue)
        /\ sched' = sched + 1 /\ phase' = IF sched = Len(symbols) THEN "results" ELSE phase
        /\ UNCHANGED <<query, seenQuery, symbols, shown, running>>
    BY <1>2 DEF Schedule
  <2>2. Len(symbols) \in Nat /\ sched \in Nat \ {0} /\ sched <= Len(symbols)
    BY <2>1, SearchesFacts DEF IInv, TypeInv, TasksKnown
  <2>3. sched \in 1..Len(symbols) /\ Unsplit(sched)
    BY <2>1, <2>2 DEF Unsplit
  <2>4. TaskOf(Cur, seenQuery, sched, 0) \notin queue
    <3> DEFINE t == TaskOf(Cur, seenQuery, sched, 0)
    <3>1. t.gen = Cur /\ t.idx = sched
      BY TaskFacts
    <3> HIDE DEF t
    <3>2. t \notin queue
      BY <2>1, <2>2, <3>1, CurrentTask
    <3> QED BY <3>2 DEF t
  <2>5. /\ searches' = [searches EXCEPT ![Cur].remaining = @ + NumShards - 1]
        /\ queue' = (queue \ {TaskOf(Cur, seenQuery, sched, 0)}) \cup ShardTasks(Cur, seenQuery, sched)
    BY <2>1, <2>4 DEF AddShards
  <2>6. phase' \in {"poll", "schedule", "results"} /\ sched' \in Nat \ {0}
        /\ (phase' = "schedule" => sched' <= Len(symbols))
    BY <2>1, <2>2
  <2>7. \A b \in 1..Len(symbols) :
           (phase' = "schedule" /\ sched' <= b) <=> (phase = "schedule" /\ sched <= b /\ b # sched)
    BY <2>1, <2>2
  <2> QED BY <2>1, <2>3, <2>5, <2>6, <2>7, SplitStep
<1> QED BY <1>1, <1>2

LEMMA FileSearchTaskInv ==
    ASSUME IInv, NEW t \in queue, FileSearchTask(t) PROVE IInv'
<1>1. /\ t.shard = 0 /\ t \in Task /\ t.gen <= Cur
      /\ UNCHANGED <<phase, sched, query, seenQuery, symbols, shown, running>>
  BY DEF FileSearchTask, IInv, TypeInv, TasksKnown
<1>2. Cur \in Nat \ {0} /\ t.gen \in Nat \ {0} /\ Len(symbols) \in Nat
  BY <1>1, SearchesFacts DEF IInv, Task
<1>3. CASE t.gen = Cur
  <2>1. t = TaskOf(Cur, seenQuery, t.idx, 0) /\ t.idx \in 1..Len(symbols) /\ Unsplit(t.idx)
        /\ (phase = "schedule" => t.idx < sched)
    BY <1>1, <1>3, CurrentTask
  <2>2. ~Cancelled(t)
    BY <1>3 DEF Cancelled, IInv, OldCancelled
  <2>3. AddShards(Cur, t.q, t.idx, queue \ {t}) /\ t.q = seenQuery
    BY <1>3, <2>1, <2>2, TaskFacts DEF FileSearchTask
  <2>4. /\ searches' = [searches EXCEPT ![Cur].remaining = @ + NumShards - 1]
        /\ queue' = (queue \ {TaskOf(Cur, seenQuery, t.idx, 0)}) \cup ShardTasks(Cur, seenQuery, t.idx)
    BY <2>1, <2>3 DEF AddShards
  <2>5. phase' \in {"poll", "schedule", "results"} /\ sched' \in Nat \ {0} /\ sched \in Nat
        /\ (phase' = "schedule" => sched' <= Len(symbols))
    BY <1>1 DEF IInv, TypeInv, TasksKnown
  <2>6. \A b \in 1..Len(symbols) :
           (phase' = "schedule" /\ sched' <= b) <=> (phase = "schedule" /\ sched <= b /\ b # t.idx)
    BY <1>1, <1>2, <2>1, <2>5
  <2> QED BY <1>1, <2>1, <2>4, <2>5, <2>6, SplitStep
<1>4. CASE t.gen # Cur
  <2>1. t.gen \in 1..(Cur - 1)
    BY <1>1, <1>2, <1>4
  <2>2. Cancelled(t)
    BY <2>1 DEF Cancelled, IInv, OldCancelled
  <2>3. queue' = queue \ {t} /\ searches' = searches /\ running' = running
    BY <2>2 DEF FileSearchTask
  <2>4. TypeInv' /\ Cur' = Cur
    BY <1>1, <2>3 DEF IInv, TypeInv, Cur
  <2>5. \A u \in Task : u # t => SameTask(u)
    BY <2>3 DEF SameTask
  <2>6. t \notin DOMAIN running'
    BY <1>1, <2>3 DEF IInv, TasksKnown
  <2> QED BY <1>1, <2>1, <2>3, <2>4, <2>5, <2>6, OldStep
<1> QED BY <1>3, <1>4

-----------------------------------------------------------------------------
(* Search tasks.                                                             *)

\* Only task t, of a shard, moves.
OnlyTask(t) ==
    /\ t.shard > 0 /\ t \notin queue'
    /\ UNCHANGED <<phase, sched, query, seenQuery, symbols, shown>>
    /\ Cur' = Cur
    /\ \A u \in Task : u # t => SameTask(u)

\* An item that is in the part of task t.
Its(t, r) == r.idx = t.idx /\ ShardOf(r.id) = t.shard

LEMMA OneTask ==
    ASSUME IInv, TypeInv', NEW t \in queue \cup DOMAIN running, t.gen = Cur, OnlyTask(t)
    PROVE  /\ TasksKnown' /\ ShownMatch'
           /\ \A p \in Open \cup Open' : p # <<t.idx, t.shard>> => (p \in Open' <=> p \in Open)
           /\ <<t.idx, t.shard>> \in Open <=> Ends(t)
           /\ <<t.idx, t.shard>> \in Open' <=> Ends(t)'
           /\ All' = All
           /\ \A r \in All : ~Its(t, r) => /\ r \in Started' <=> r \in Started
                                           /\ r \in Searched' <=> r \in Searched
           /\ \A r \in All : Its(t, r) => /\ r \in Started'
                                          /\ r \in Started <=> t \notin queue
                                          /\ r \in Searched' <=> (Running(t)' => r.id < running'[t].item)
                                          /\ r \in Searched <=> (t \notin queue /\ (Running(t) => r.id < running[t].item))
<1>1. /\ Cur \in Nat \ {0} /\ Len(symbols) \in Nat /\ NumShards \in Nat /\ seenQuery \in Texts
      /\ 0 \in 0..NumShards
  BY SearchesFacts, Sizes DEF IInv, TypeInv
<1>2. /\ t \in Task /\ t = TaskOf(Cur, seenQuery, t.idx, t.shard)
      /\ t.idx \in 1..Len(symbols) /\ t.shard \in 1..NumShards /\ ~Unsplit(t.idx)
  BY CurrentTask DEF OnlyTask
<1>3. Cur' = Cur /\ UNCHANGED <<phase, sched, query, seenQuery, symbols, shown>> /\ All' = All
  BY DEF OnlyTask, All
<1>4. ASSUME NEW b \in 1..Len(symbols), NEW s \in 0..NumShards
      PROVE  /\ TaskOf(Cur', seenQuery', b, s) = TaskOf(Cur, seenQuery, b, s)
             /\ TaskOf(Cur, seenQuery, b, s) \in Task
             /\ ~(b = t.idx /\ s = t.shard) => SameTask(TaskOf(Cur, seenQuery, b, s))
  <2>1. TaskOf(Cur, seenQuery, b, s) \in Task
    BY <1>1, TaskFacts
  <2>2. ~(b = t.idx /\ s = t.shard) => TaskOf(Cur, seenQuery, b, s) # t
    BY TaskFacts
  <2> QED BY <1>3, <2>1, <2>2 DEF OnlyTask
<1>5. ASSUME NEW b \in 1..Len(symbols) PROVE Unsplit(b)' <=> Unsplit(b)
  <2>1. 0 # t.shard
    BY <1>1, <1>2
  <2>2. TaskOf(Cur', seenQuery', b, 0) \in queue' <=> TaskOf(Cur, seenQuery, b, 0) \in queue
    BY <1>1, <1>4, <2>1 DEF SameTask
  <2> QED BY <1>3, <2>2 DEF Unsplit
<1>6. TasksKnown'
  <2>1. ASSUME NEW u \in queue' \cup DOMAIN running'
        PROVE  u \in Task /\ u \in queue \cup DOMAIN running
    <3>1. u \in Task
      BY DEF TypeInv
    <3> QED BY <2>1, <3>1 DEF OnlyTask, SameTask
  <2>2. ASSUME NEW u \in queue' \cup DOMAIN running', u.gen = Cur
        PROVE  Current(u)'
    <3>1. Current(u) /\ u.idx \in 1..Len(symbols)
      BY <2>1, <2>2, CurrentTask DEF IInv, TasksKnown
    <3>2. TaskOf(Cur', seenQuery', u.idx, 0) \in queue' <=> TaskOf(Cur, seenQuery, u.idx, 0) \in queue
      BY <1>1, <1>2, <1>4, <3>1, 0 # t.shard DEF SameTask
    <3> QED BY <1>3, <3>1, <3>2 DEF Current
  <2>3. queue' \cap DOMAIN running' = {}
    <3> SUFFICES ASSUME NEW u \in queue' \cap DOMAIN running' PROVE FALSE
      OBVIOUS
    <3>1. u \in Task /\ u # t
      BY <2>1 DEF OnlyTask
    <3>2. u \in queue \cap DOMAIN running
      BY <3>1 DEF OnlyTask, SameTask
    <3> QED BY <3>2 DEF IInv, TasksKnown
  <2>4. \A u \in DOMAIN running' : u.shard > 0
    <3> SUFFICES ASSUME NEW u \in DOMAIN running' PROVE u.shard > 0
      OBVIOUS
    <3>1. CASE u = t
      BY <3>1 DEF OnlyTask
    <3>2. CASE u # t
      <4>1. u \in DOMAIN running
        BY <2>1, <3>2 DEF OnlyTask, SameTask
      <4> QED BY <4>1 DEF IInv, TasksKnown
    <3> QED BY <3>1, <3>2
  <2>5. \A u \in queue' \cup DOMAIN running' : u.gen <= Cur
    BY <2>1 DEF IInv, TasksKnown
  <2>6. phase' = "schedule" => sched' <= Len(symbols')
    BY <1>3 DEF IInv, TasksKnown
  <2> QED BY <1>3, <2>2, <2>3, <2>4, <2>5, <2>6 DEF TasksKnown
<1>7. ShownMatch'
  BY <1>3 DEF IInv, ShownMatch
<1>8. Open \subseteq (1..Len(symbols)) \X (0..NumShards) /\ Open' \subseteq (1..Len(symbols)) \X (0..NumShards)
  BY <1>3 DEF Open
<1>9. ASSUME NEW p \in (1..Len(symbols)) \X (0..NumShards), p # <<t.idx, t.shard>>
      PROVE  p \in Open' <=> p \in Open
  <2>1. p[1] \in 1..Len(symbols) /\ p[2] \in 0..NumShards /\ ~(p[1] = t.idx /\ p[2] = t.shard)
    BY <1>9
  <2>2. CASE p[2] = 0
    BY <1>3, <1>5, <2>1, <2>2 DEF Open
  <2>3. CASE p[2] # 0
    <3> DEFINE u == TaskOf(Cur, seenQuery, p[1], p[2])
    <3>1. u = TaskOf(Cur', seenQuery', p[1], p[2]) /\ SameTask(u)
      BY <1>4, <2>1
    <3> HIDE DEF u
    <3>2. Ends(u)' <=> Ends(u)
      BY <1>3, <3>1 DEF Ends, SameTask, u
    <3>3. p \in Open' <=> Ends(TaskOf(Cur, seenQuery, p[1], p[2]))'
      BY <1>3, <2>3 DEF Open
    <3>4. p \in Open <=> Ends(u)
      BY <2>3 DEF Open, u
    <3> QED BY <3>2, <3>3, <3>4 DEF u
  <2> QED BY <2>2, <2>3
<1>10. <<t.idx, t.shard>> \in (1..Len(symbols)) \X (0..NumShards) /\ t.shard # 0
  BY <1>1, <1>2
<1>11. <<t.idx, t.shard>> \in Open <=> Ends(t)
  BY <1>2, <1>10 DEF Open
<1>12. <<t.idx, t.shard>> \in Open' <=> Ends(t)'
  <2>1. TaskOf(Cur', seenQuery', t.idx, t.shard) = t
    BY <1>2, <1>3
  <2> QED BY <1>3, <1>10, <2>1 DEF Open, Ends
<1>13. ASSUME NEW r \in All
       PROVE  /\ ~Its(t, r) => /\ r \in Started' <=> r \in Started
                               /\ r \in Searched' <=> r \in Searched
              /\ Its(t, r) => /\ r \in Started'
                              /\ r \in Started <=> t \notin queue
                              /\ r \in Searched' <=> (Running(t)' => r.id < running'[t].item)
                              /\ r \in Searched <=> (t \notin queue /\ (Running(t) => r.id < running[t].item))
  <2> DEFINE s == ShardOf(r.id)
             u == TaskOf(Cur, seenQuery, r.idx, s)
  <2>1. r.idx \in 1..Len(symbols) /\ s \in 1..NumShards /\ s \in 0..NumShards
    BY <1>1, ShardFacts DEF All
  <2>2. u = TaskOf(Cur', seenQuery', r.idx, s) /\ (~Its(t, r) => SameTask(u))
    BY <1>4, <2>1 DEF Its
  <2>3. Unsplit(r.idx)' <=> Unsplit(r.idx)
    BY <1>5, <2>1
  <2>4. Its(t, r) => u = t /\ ~Unsplit(r.idx)
    BY <1>2 DEF Its
  <2>5. /\ r \in Started <=> ~Unsplit(r.idx) /\ u \notin queue
        /\ r \in Searched <=> ~Unsplit(r.idx) /\ u \notin queue /\ (Running(u) => r.id < running[u].item)
    BY DEF Started, Searched, Begun, Passed
  <2>6. /\ r \in Started' <=> ~(Unsplit(r.idx)') /\ u \notin queue'
        /\ r \in Searched' <=> ~(Unsplit(r.idx)') /\ u \notin queue'
                               /\ ((u \in DOMAIN running' /\ running'[u].pc = "search") => r.id < running'[u].item)
    BY <1>3, <2>2 DEF Started, Searched, Begun, Passed, Running
  <2> HIDE DEF u, s
  <2>7. CASE Its(t, r)
    <3>1. Running(t)' <=> (t \in DOMAIN running' /\ running'[t].pc = "search")
      BY DEF Running
    <3>2. t \notin queue'
      BY DEF OnlyTask
    <3> QED BY <2>3, <2>4, <2>5, <2>6, <2>7, <3>1, <3>2
  <2>8. CASE ~Its(t, r)
    BY <2>2, <2>3, <2>5, <2>6, <2>8 DEF SameTask, Running
  <2> QED BY <2>7, <2>8
<1> QED BY <1>3, <1>6, <1>7, <1>8, <1>9, <1>11, <1>12, <1>13

\* A step of a task of an earlier search.
LEMMA OldTask ==
    ASSUME IInv, NEW t \in queue \cup DOMAIN running, t.gen # Cur
    PROVE  t.gen \in 1..(Cur - 1) /\ t \in Task /\ Cancelled(t) /\ Cur \in Nat \ {0}
<1>1. t \in Task /\ t.gen <= Cur /\ Cur \in Nat \ {0}
  BY SearchesFacts DEF IInv, TypeInv, TasksKnown
<1>2. t.gen \in 1..(Cur - 1)
  BY <1>1 DEF Task
<1> QED BY <1>1, <1>2 DEF Cancelled, IInv, OldCancelled

LEMMA OneTaskLast ==
    ASSUME IInv, TypeInv', NEW t \in queue \cup DOMAIN running, t.gen = Cur, OnlyTask(t),
           t \in DOMAIN running' => TasksAt(t)', Open = {} => Open' = {},
           searches'[Cur].complete => Open' = {}
    PROVE  LastIsLast'
<1>1. Cur' = Cur
  BY DEF OnlyTask
<1>2. ASSUME NEW u \in DOMAIN running', u.gen = Cur PROVE TasksAt(u)'
  <2>1. CASE u = t
    BY <1>2, <2>1
  <2>2. CASE u # t
    <3>1. u \in DOMAIN running /\ running'[u] = running[u]
      BY <1>2, <2>2 DEF OnlyTask, SameTask, TypeInv
    <3>2. TasksAt(u)
      BY <1>2, <3>1 DEF IInv, LastIsLast
    <3> QED BY <3>1, <3>2 DEF TasksAt
  <2> QED BY <2>1, <2>2
<1> QED BY <1>1, <1>2 DEF LastIsLast

\* Counts of the current search are changed, and of no other.
LEMMA KeepOld ==
    ASSUME IInv, NEW st \in State, searches' = [searches EXCEPT ![Cur] = st], ~st.cancel
    PROVE  /\ searches' \in Seq(State) /\ searches' # <<>> /\ Cur' = Cur /\ searches'[Cur] = st
           /\ OldCancelled'
<1>1. Cur \in Nat \ {0} /\ Cur \in 1..Cur
  BY SearchesFacts DEF IInv
<1>2. /\ searches' \in Seq(State) /\ searches' # <<>> /\ Cur' = Cur /\ searches'[Cur] = st
      /\ \A h \in 1..Cur : h # Cur => searches'[h] = searches[h]
  BY <1>1, SearchesUpdate DEF IInv
<1>3. \A h \in 1..(Cur - 1) : h \in 1..Cur /\ h # Cur
  BY <1>1
<1> QED BY <1>2, <1>3 DEF IInv, OldCancelled

\* The items of an interval of a task's shard.
LEMMA ItsItems ==
    ASSUME IInv, NEW t \in Task, t.idx \in 1..Len(symbols), t.shard \in 1..NumShards,
           NEW from \in Nat, NEW to \in Nat, First(t.shard) <= from, from <= to, to <= Past(t.shard)
    PROVE  /\ ItemsOf(t.idx, from, to) \subseteq All
           /\ \A r \in All : r \in ItemsOf(t.idx, from, to) <=> (Its(t, r) /\ from <= r.id /\ r.id < to)
           /\ IsFiniteSet(ItemsOf(t.idx, from, to))
           /\ Cardinality(ItemsOf(t.idx, from, to)) = to - from
<1>1. First(t.shard) \in Nat /\ Past(t.shard) \in Nat /\ Past(t.shard) <= NumItems /\ NumItems \in Nat
  BY ShardBounds, Sizes
<1>2. ASSUME NEW i \in from..(to - 1) PROVE i \in Items /\ ShardOf(i) = t.shard
  <2>1. i \in Nat /\ First(t.shard) <= i /\ i < Past(t.shard)
    BY <1>1
  <2>2. i \in Items
    BY <1>1, <2>1 DEF Items
  <2> QED BY <2>1, <2>2, ShardFacts
<1>3. ItemsOf(t.idx, from, to) \subseteq All
  BY <1>2 DEF ItemsOf, All
<1>4. ASSUME NEW r \in All
      PROVE  r \in ItemsOf(t.idx, from, to) <=> (Its(t, r) /\ from <= r.id /\ r.id < to)
  <2>1. r.id \in Nat /\ r = [idx |-> r.idx, id |-> r.id]
    BY <1>1 DEF All, Items
  <2>2. ASSUME r \in ItemsOf(t.idx, from, to) PROVE Its(t, r) /\ from <= r.id /\ r.id < to
    <3>1. r.idx = t.idx /\ r.id \in from..(to - 1)
      BY <2>2 DEF ItemsOf
    <3> QED BY <1>2, <3>1 DEF Its
  <2>3. ASSUME Its(t, r), from <= r.id, r.id < to PROVE r \in ItemsOf(t.idx, from, to)
    <3>1. r.id \in from..(to - 1) /\ r.idx = t.idx
      BY <2>1, <2>3 DEF Its
    <3> QED BY <2>1, <3>1 DEF ItemsOf
  <2> QED BY <2>2, <2>3
<1> QED BY <1>3, <1>4, ItemsCount

LEMMA SearchTaskInv ==
    ASSUME IInv, NEW t \in queue, SearchTask(t) PROVE IInv'
<1>1. /\ t.shard > 0 /\ t \in Task /\ queue' = queue \ {t} /\ running' = At(t, "search", First(t.shard))
      /\ UNCHANGED <<phase, sched, query, seenQuery, symbols, shown>>
  BY DEF SearchTask, IInv, TypeInv
<1>2. t.shard \in 1..NumShards
  BY <1>1, Sizes DEF Task
<1>3. First(t.shard) \in Nat /\ Past(t.shard) \in Nat /\ First(t.shard) <= Past(t.shard)
  BY <1>2, ShardBounds
<1>4. /\ DOMAIN running' = DOMAIN running \cup {t} /\ DOMAIN running' \in SUBSET Task
      /\ running' \in [DOMAIN running' -> Progress]
      /\ running'[t].pc = "search" /\ running'[t].item = First(t.shard)
      /\ \A u \in DOMAIN running : u # t => running'[u] = running[u]
  BY <1>1, <1>3, AtFacts DEF IInv
<1>5. \A u \in Task : u # t => SameTask(u)
  BY <1>1, <1>4 DEF SameTask
<1>6. t \notin queue'
  BY <1>1
<1>7. CASE t.gen = Cur
  <2>1. ~Cancelled(t) /\ searches[Cur] \in State /\ t.idx \in 1..Len(symbols)
    BY <1>7, SearchesFacts, CurrentTask DEF Cancelled, IInv, OldCancelled
  <2> DEFINE st == [searches[Cur] EXCEPT !.total = @ + Past(t.shard) - First(t.shard)]
  <2>2. /\ st \in State /\ st.total = searches[Cur].total + Past(t.shard) - First(t.shard)
        /\ st.cancel = searches[Cur].cancel /\ st.remaining = searches[Cur].remaining
        /\ st.done = searches[Cur].done /\ st.count = searches[Cur].count
        /\ st.results = searches[Cur].results /\ st.complete = searches[Cur].complete
    <3>1. searches[Cur].total \in Nat
      BY <2>1, StateCounts
    <3>2. searches[Cur].total + Past(t.shard) - First(t.shard) \in Nat
      BY <1>3, <3>1
    <3> QED BY <2>1, <3>2, WithTotal
  <2>3. searches' = [searches EXCEPT ![Cur] = st]
    BY <1>7, <2>1 DEF SearchTask
  <2> HIDE DEF st
  <2>4. /\ searches' \in Seq(State) /\ searches' # <<>> /\ Cur' = Cur /\ searches'[Cur] = st
        /\ OldCancelled'
    BY <2>2, <2>3, KeepOld DEF IInv, OldCancelled
  <2>5. TypeInv'
    BY <1>1, <1>4, <2>4 DEF IInv, TypeInv
  <2>6. OnlyTask(t)
    BY <1>1, <1>5, <1>6, <2>4 DEF OnlyTask
  <2>7. Ends(t) /\ Ends(t)' /\ Running(t)'
    BY <1>4 DEF Ends, Running
  <2>8. Open' = Open
    <3>1. /\ \A p \in Open \cup Open' : p # <<t.idx, t.shard>> => (p \in Open' <=> p \in Open)
          /\ <<t.idx, t.shard>> \in Open <=> Ends(t)
          /\ <<t.idx, t.shard>> \in Open' <=> Ends(t)'
      BY <1>7, <2>5, <2>6, OneTask
    <3>2. <<t.idx, t.shard>> \in Open /\ <<t.idx, t.shard>> \in Open'
      BY <2>7, <3>1
    <3>3. \A p \in Open \cup Open' : p \in Open' <=> p \in Open
      BY <3>1, <3>2
    <3> QED BY <3>3
  <2> DEFINE new == ItemsOf(t.idx, First(t.shard), Past(t.shard))
  <2>9. /\ new \subseteq All /\ IsFiniteSet(new) /\ Cardinality(new) = Past(t.shard) - First(t.shard)
        /\ \A r \in All : r \in new <=> (Its(t, r) /\ First(t.shard) <= r.id /\ r.id < Past(t.shard))
    BY <1>1, <1>2, <1>3, <2>1, ItsItems
  <2>10. \A r \in All : Its(t, r) => (First(t.shard) <= r.id /\ r.id < Past(t.shard))
    BY ShardFacts DEF Its, All
  <2> HIDE DEF new
  <2>11. \A r \in All : r \in new <=> Its(t, r)
    BY <2>9, <2>10
  <2>12. All' = All /\ Started \subseteq All /\ Started' \subseteq All /\ Searched \subseteq All /\ Searched' \subseteq All
    BY <1>7, <2>5, <2>6, OneTask DEF Started, Searched
  <2>13. Started' = Started \cup new /\ Started \cap new = {}
    <3>1. \A r \in All : r \in Started' <=> r \in Started \cup new
      BY <1>7, <2>5, <2>6, <2>11, OneTask
    <3>2. \A r \in All : r \in new => r \notin Started
      BY <1>7, <2>5, <2>6, <2>11, OneTask
    <3> QED BY <2>9, <2>12, <3>1, <3>2
  <2>14. Searched' = Searched
    <3>1. \A r \in All : r.id \in Nat
      BY DEF All, Items
    <3>2. \A r \in All : r \in Searched' <=> r \in Searched
      <4> SUFFICES ASSUME NEW r \in All PROVE r \in Searched' <=> r \in Searched
        OBVIOUS
      <4>1. CASE Its(t, r)
        <5>1. r \in Searched' <=> (Running(t)' => r.id < running'[t].item)
          BY <1>7, <2>5, <2>6, <4>1, OneTask
        <5>2. r \notin Searched
          BY <1>7, <2>5, <2>6, <4>1, OneTask
        <5>3. ~(r.id < First(t.shard))
          BY <1>3, <2>10, <3>1, <4>1
        <5> QED BY <1>4, <2>7, <5>1, <5>2, <5>3
      <4>2. CASE ~Its(t, r)
        BY <1>7, <2>5, <2>6, <4>2, OneTask
      <4> QED BY <4>1, <4>2
    <3> QED BY <2>12, <3>2
  <2>15. Cardinality(Started') = Cardinality(Started) + Past(t.shard) - First(t.shard)
    <3>1. IsFiniteSet(Started) /\ Cardinality(Started) \in Nat
      BY CountedFinite DEF IInv
    <3>2. Cardinality(Started \cup new) = Cardinality(Started) + Cardinality(new) - Cardinality({})
      BY <2>9, <2>13, <3>1, FS_Union
    <3> QED BY <1>3, <2>9, <2>13, <3>1, <3>2, FS_EmptySet
  <2>16. Counted'
    <3>1. seenQuery' = seenQuery /\ searches'[Cur'] = st
      BY <1>1, <2>4
    <3>2. Found' = Found
      BY <2>14, <3>1 DEF Found
    <3>3. Best(seenQuery, Found)' = Best(seenQuery, Found)
      BY <3>1, <3>2 DEF Best
    <3> QED BY <2>2, <2>8, <2>14, <2>15, <3>1, <3>2, <3>3 DEF IInv, Counted
  <2>17. TasksAt(t)'
    BY <1>3, <1>4 DEF TasksAt
  <2>18. LastIsLast'
    BY <1>7, <2>2, <2>4, <2>5, <2>6, <2>8, <2>17, OneTaskLast DEF IInv, LastIsLast
  <2>19. TasksKnown' /\ ShownMatch'
    BY <1>7, <2>5, <2>6, OneTask
  <2> QED BY <2>4, <2>5, <2>16, <2>18, <2>19 DEF IInv
<1>8. CASE t.gen # Cur
  <2>1. t.gen \in 1..(Cur - 1) /\ Cancelled(t)
    BY <1>8, OldTask
  <2>2. searches' = searches
    BY <2>1 DEF SearchTask
  <2>3. TypeInv' /\ Cur' = Cur
    BY <1>1, <1>4, <2>2 DEF IInv, TypeInv, Cur
  <2> QED BY <1>1, <1>5, <1>6, <2>1, <2>2, <2>3, OldStep
<1> QED BY <1>7, <1>8

\* A chunk of the current search: its items are searched, and the best of them kept.
LEMMA CurrentChunk ==
    ASSUME IInv, NEW t \in DOMAIN running, t.gen = Cur, SearchChunk(t) PROVE IInv'
<1> DEFINE from == running[t].item
           to == IF from + Chunk < Past(t.shard) THEN from + Chunk ELSE Past(t.shard)
           found == {[idx |-> t.idx, id |-> i] : i \in {j \in from..(to - 1) : ScoreOf[t.q][j] # NoMatch}}
<1>1. /\ ~Cancelled(t) /\ searches[Cur] \in State /\ seenQuery \in Texts
      /\ t \in Task /\ t.idx \in 1..Len(symbols) /\ t.shard \in 1..NumShards
      /\ t.q = seenQuery /\ t.shard > 0 /\ t \notin queue
  <2>1. t \in Task /\ t.shard > 0 /\ t \notin queue /\ Current(t)
    BY DEF IInv, TypeInv, TasksKnown
  <2>2. t.idx \in 1..Len(symbols) /\ t.shard \in 1..NumShards
    BY <2>1, CurrentTask
  <2> QED BY <2>1, <2>2, SearchesFacts DEF Cancelled, IInv, OldCancelled, TypeInv, Current
<1>2. running[t].pc = "search" /\ UNCHANGED <<phase, sched, query, seenQuery, symbols, shown, queue>>
  BY DEF SearchChunk
<1>3. /\ First(t.shard) \in Nat /\ Past(t.shard) \in Nat /\ First(t.shard) <= Past(t.shard)
      /\ Chunk \in Nat
  BY <1>1, ShardBounds, Sizes
<1>4. from \in Nat /\ First(t.shard) <= from /\ from <= Past(t.shard)
  BY <1>2 DEF IInv, TypeInv, Progress, LastIsLast, TasksAt
<1>5. to \in Nat /\ from <= to /\ to <= Past(t.shard)
  BY <1>3, <1>4
<1>6. running' = At(t, IF to = Past(t.shard) THEN "merged" ELSE "search", to)
  BY <1>1 DEF SearchChunk
<1>7. PICK best \in Best(t.q, searches[t.gen].results \cup found) :
           searches' = [searches EXCEPT ![t.gen] =
               [searches[t.gen] EXCEPT !.results = best, !.count = @ + Cardinality(found),
                                       !.done = @ + to - from]]
  BY <1>1 DEF SearchChunk
<1>8. best \in Best(seenQuery, searches[Cur].results \cup found)
  BY <1>1, <1>7
<1> HIDE DEF from, to
<1> DEFINE new == ItemsOf(t.idx, from, to)
<1>9. /\ new \subseteq All /\ IsFiniteSet(new) /\ Cardinality(new) = to - from
      /\ \A r \in All : r \in new <=> (Its(t, r) /\ from <= r.id /\ r.id < to)
  BY <1>1, <1>4, <1>5, ItsItems
<1>10. found = {r \in new : ScoreOf[seenQuery][r.id] # NoMatch}
  BY <1>1 DEF ItemsOf
<1>11. IsFiniteSet(found) /\ Cardinality(found) \in Nat /\ found \subseteq new
  BY <1>9, <1>10, FS_Subset, FS_CardinalityType
<1>12. /\ IsFiniteSet(Searched) /\ IsFiniteSet(Found) /\ Cardinality(Searched) \in Nat
       /\ Cardinality(Found) \in Nat
  BY CountedFinite DEF IInv
<1>13. All \subseteq Result /\ Found \subseteq Result /\ found \subseteq Result
  <2>1. All \subseteq Result
    BY SearchesFacts DEF All, Result, IInv
  <2> QED BY <1>9, <1>11, <2>1 DEF Found, Searched
<1> HIDE DEF found, new
<1>14. best \in Best(seenQuery, Found \cup found)
  BY <1>1, <1>8, <1>11, <1>12, <1>13, BestMerge DEF IInv, Counted
<1> DEFINE st == [searches[Cur] EXCEPT !.results = best, !.count = @ + Cardinality(found),
                                       !.done = @ + to - from]
<1>15. best \in SUBSET Result
  BY <1>13, <1>14 DEF Best
<1>16. /\ st \in State /\ st.results = best /\ st.count = searches[Cur].count + Cardinality(found)
       /\ st.done = searches[Cur].done + to - from
       /\ st.cancel = searches[Cur].cancel /\ st.remaining = searches[Cur].remaining
       /\ st.total = searches[Cur].total /\ st.complete = searches[Cur].complete
  <2>1. searches[Cur].count + Cardinality(found) \in Nat /\ searches[Cur].done + to - from \in Nat
    <3>1. searches[Cur].count \in Nat /\ searches[Cur].done \in Nat
      BY <1>1, StateCounts
    <3>2. searches[Cur].count + Cardinality(found) \in Nat
      BY <1>11, <3>1
    <3>3. searches[Cur].done + to - from \in Nat
      BY <1>4, <1>5, <3>1
    <3> QED BY <3>2, <3>3
  <2>2. /\ st.results = best /\ st.count = searches[Cur].count + Cardinality(found)
        /\ st.done = searches[Cur].done + to - from
        /\ st.cancel = searches[Cur].cancel /\ st.remaining = searches[Cur].remaining
        /\ st.total = searches[Cur].total /\ st.complete = searches[Cur].complete
    BY <1>1 DEF State
  <2>3. st \in State
    BY <1>1, <1>15, <2>1 DEF State
  <2> QED BY <2>2, <2>3
<1>17. searches' = [searches EXCEPT ![Cur] = st]
  BY <1>7
<1> HIDE DEF st
<1>18. /\ searches' \in Seq(State) /\ searches' # <<>> /\ Cur' = Cur /\ searches'[Cur] = st
       /\ OldCancelled'
  BY <1>16, <1>17, KeepOld DEF IInv, OldCancelled
<1> DEFINE pc == IF to = Past(t.shard) THEN "merged" ELSE "search"
<1>19. pc \in {"search", "merged", "last", "completing"} /\ pc \in {"search", "merged"}
       /\ (pc # "search" => to = Past(t.shard))
  OBVIOUS
<1>20. running' = At(t, pc, to)
  BY <1>6
<1> HIDE DEF pc
<1>21. /\ DOMAIN running' = DOMAIN running \cup {t} /\ DOMAIN running' \in SUBSET Task
       /\ running' \in [DOMAIN running' -> Progress]
       /\ running'[t].pc = pc /\ running'[t].item = to
       /\ \A u \in DOMAIN running : u # t => running'[u] = running[u]
  BY <1>1, <1>5, <1>19, <1>20, AtFacts DEF IInv
<1>22. TypeInv'
  BY <1>2, <1>18, <1>21 DEF IInv, TypeInv
<1>23. OnlyTask(t)
  <2>1. \A u \in Task : u # t => SameTask(u)
    BY <1>2, <1>21 DEF SameTask
  <2> QED BY <1>1, <1>2, <1>18, <2>1 DEF OnlyTask
<1>24. Ends(t) /\ Ends(t)' /\ Running(t) /\ (Running(t)' <=> pc = "search")
  BY <1>2, <1>19, <1>21 DEF Ends, Running
<1>25. Open' = Open
  <2>1. /\ \A p \in Open \cup Open' : p # <<t.idx, t.shard>> => (p \in Open' <=> p \in Open)
        /\ <<t.idx, t.shard>> \in Open <=> Ends(t)
        /\ <<t.idx, t.shard>> \in Open' <=> Ends(t)'
    BY <1>22, <1>23, OneTask
  <2>2. <<t.idx, t.shard>> \in Open /\ <<t.idx, t.shard>> \in Open'
    BY <1>24, <2>1
  <2>3. \A p \in Open \cup Open' : p \in Open' <=> p \in Open
    BY <2>1, <2>2
  <2> QED BY <2>3
<1>26. All' = All /\ Started \subseteq All /\ Started' \subseteq All /\ Searched \subseteq All /\ Searched' \subseteq All
  BY <1>22, <1>23, OneTask DEF Started, Searched
<1>27. Started' = Started
  <2>1. \A r \in All : r \in Started' <=> r \in Started
    BY <1>1, <1>22, <1>23, OneTask
  <2> QED BY <1>26, <2>1
<1>28. ASSUME NEW r \in All
       PROVE  (r \in Searched' <=> r \in Searched \cup new) /\ (r \in new => r \notin Searched)
  <2>1. r.id \in Nat
    BY DEF All, Items
  <2>2. CASE Its(t, r)
    <3>1. r \in Searched' <=> (Running(t)' => r.id < running'[t].item)
      BY <1>22, <1>23, <2>2, OneTask
    <3>2. r \in Searched <=> (t \notin queue /\ (Running(t) => r.id < running[t].item))
      BY <1>22, <1>23, <2>2, OneTask
    <3>3. r.id < Past(t.shard)
      BY <2>2, ShardFacts DEF Its, All
    <3>4. r \in Searched' <=> r.id < to
      BY <1>19, <1>21, <1>24, <3>1, <3>3
    <3>5. r \in Searched <=> r.id < from
      BY <1>1, <1>24, <3>2 DEF from
    <3>6. r \in new <=> from <= r.id /\ r.id < to
      BY <1>9, <2>2
    <3> QED BY <1>4, <1>5, <2>1, <3>4, <3>5, <3>6
  <2>3. CASE ~Its(t, r)
    <3>1. r \in Searched' <=> r \in Searched
      BY <1>22, <1>23, <2>3, OneTask
    <3>2. r \notin new
      BY <1>9, <2>3
    <3> QED BY <3>1, <3>2
  <2> QED BY <2>2, <2>3
<1>29. Searched' = Searched \cup new /\ Searched \cap new = {}
  BY <1>9, <1>26, <1>28
<1>30. Found' = Found \cup found /\ Found \cap found = {}
  <2>1. seenQuery' = seenQuery
    BY <1>2
  <2> QED BY <1>10, <1>29, <2>1 DEF Found
<1>31. /\ Cardinality(Searched') = Cardinality(Searched) + (to - from)
       /\ Cardinality(Found') = Cardinality(Found) + Cardinality(found)
  <2>1. Cardinality(Searched \cup new) = Cardinality(Searched) + Cardinality(new) - Cardinality({})
    BY <1>9, <1>12, <1>29, FS_Union
  <2>2. Cardinality(Found \cup found) = Cardinality(Found) + Cardinality(found) - Cardinality({})
    BY <1>11, <1>12, <1>30, FS_Union
  <2> QED BY <1>4, <1>5, <1>9, <1>11, <1>12, <1>29, <1>30, <2>1, <2>2, FS_EmptySet
<1>32. Counted'
  <2>1. seenQuery' = seenQuery /\ searches'[Cur'] = st
    BY <1>2, <1>18
  <2>2. best \in Best(seenQuery, Found)'
    BY <1>14, <1>30, <2>1 DEF Best
  <2>3. st.done = Cardinality(Searched') /\ st.count = Cardinality(Found')
    BY <1>4, <1>5, <1>12, <1>16, <1>31 DEF IInv, Counted
  <2> QED BY <1>16, <1>25, <1>27, <2>1, <2>2, <2>3 DEF IInv, Counted
<1>33. TasksAt(t)'
  <2>1. First(t.shard) <= to
    BY <1>3, <1>4, <1>5
  <2> QED BY <1>5, <1>19, <1>21, <2>1 DEF TasksAt
<1>34. LastIsLast'
  BY <1>16, <1>18, <1>22, <1>23, <1>25, <1>33, OneTaskLast DEF IInv, LastIsLast
<1>35. TasksKnown' /\ ShownMatch'
  BY <1>22, <1>23, OneTask
<1> QED BY <1>18, <1>22, <1>32, <1>34, <1>35 DEF IInv

LEMMA SearchChunkInv ==
    ASSUME IInv, NEW t \in DOMAIN running, SearchChunk(t) PROVE IInv'
<1>1. CASE t.gen = Cur
  BY <1>1, CurrentChunk
<1>2. CASE t.gen # Cur
  <2>1. t.gen \in 1..(Cur - 1) /\ t \in Task /\ Cancelled(t)
    BY <1>2, OldTask
  <2>2. /\ running' = At(t, "merged", running[t].item) /\ searches' = searches
        /\ UNCHANGED <<phase, sched, query, seenQuery, symbols, shown, queue>>
    BY <2>1 DEF SearchChunk
  <2>3. running[t].item \in Nat /\ t.shard > 0 /\ t \notin queue
    BY DEF IInv, TypeInv, Progress, TasksKnown
  <2>4. /\ DOMAIN running' = DOMAIN running \cup {t} /\ DOMAIN running' \in SUBSET Task
        /\ running' \in [DOMAIN running' -> Progress]
        /\ \A u \in DOMAIN running : u # t => running'[u] = running[u]
    BY <2>1, <2>2, <2>3, AtFacts DEF IInv
  <2>5. TypeInv' /\ Cur' = Cur
    BY <2>2, <2>4 DEF IInv, TypeInv, Cur
  <2>6. \A u \in Task : u # t => SameTask(u)
    BY <2>2, <2>4 DEF SameTask
  <2> QED BY <2>1, <2>2, <2>3, <2>5, <2>6, OldStep
<1> QED BY <1>1, <1>2


-----------------------------------------------------------------------------
(* A task ends.                                                              *)

LEMMA EndMoves ==
    ASSUME IInv, NEW t \in DOMAIN running,
           \/ running' = Without(t)
           \/ \E pc \in {"last", "completing"} : running' = At(t, pc, running[t].item)
    PROVE  /\ DOMAIN running' \in SUBSET Task /\ running' \in [DOMAIN running' -> Progress]
           /\ \A u \in Task : u # t => /\ u \in DOMAIN running' <=> u \in DOMAIN running
                                       /\ u \in DOMAIN running => running'[u] = running[u]
           /\ t \in DOMAIN running' => running'[t].pc \in {"last", "completing"}
           /\ t \in Task /\ t.shard > 0 /\ t \notin queue
<1>1. t \in Task /\ t.shard > 0 /\ t \notin queue /\ running[t].item \in Nat
  BY DEF IInv, TypeInv, TasksKnown, Progress
<1>2. CASE running' = Without(t)
  BY <1>1, <1>2, WithoutFacts DEF IInv
<1>3. ASSUME NEW pc \in {"last", "completing"}, running' = At(t, pc, running[t].item)
      PROVE  /\ DOMAIN running' = DOMAIN running \cup {t} /\ DOMAIN running' \in SUBSET Task
             /\ running' \in [DOMAIN running' -> Progress]
             /\ running'[t].pc \in {"last", "completing"}
             /\ \A u \in DOMAIN running : u # t => running'[u] = running[u]
  <2>1. pc \in {"search", "merged", "last", "completing"}
    OBVIOUS
  <2> QED BY <1>1, <1>3, <2>1, AtFacts DEF IInv
<1> QED BY <1>1, <1>2, <1>3

\* No item is begun or searched by it.
LEMMA EndCounts ==
    ASSUME IInv, TypeInv', NEW t \in DOMAIN running, t.gen = Cur, OnlyTask(t),
           t \notin queue, running[t].pc # "search", t \in DOMAIN running' => running'[t].pc # "search"
    PROVE  Started' = Started /\ Searched' = Searched /\ Found' = Found
<1>1. ~Running(t) /\ ~(Running(t)')
  BY DEF Running
<1>2. All' = All /\ seenQuery' = seenQuery
  BY OneTask DEF OnlyTask
<1>3. ASSUME NEW r \in All
      PROVE  (r \in Started' <=> r \in Started) /\ (r \in Searched' <=> r \in Searched)
  <2>1. CASE Its(t, r)
    <3>1. r \in Started' /\ r \in Started
      BY <2>1, OneTask
    <3>2. r \in Searched' <=> (Running(t)' => r.id < running'[t].item)
      BY <2>1, OneTask
    <3>3. r \in Searched <=> (t \notin queue /\ (Running(t) => r.id < running[t].item))
      BY <2>1, OneTask
    <3> QED BY <1>1, <3>1, <3>2, <3>3
  <2>2. CASE ~Its(t, r)
    BY <2>2, OneTask
  <2> QED BY <2>1, <2>2
<1>4. Started' \subseteq All /\ Started \subseteq All /\ Searched' \subseteq All /\ Searched \subseteq All
  BY <1>2 DEF Started, Searched
<1>5. Started' = Started /\ Searched' = Searched
  BY <1>3, <1>4
<1> QED BY <1>2, <1>5 DEF Found

\* The current search's state becomes st, and its task t moves on.
LEMMA EndStep ==
    ASSUME IInv, NEW t \in DOMAIN running, t.gen = Cur,
           UNCHANGED <<phase, sched, query, seenQuery, symbols, shown, queue>>,
           running[t].pc \in {"merged", "last", "completing"},
           \/ running' = Without(t)
           \/ \E pc \in {"last", "completing"} : running' = At(t, pc, running[t].item),
           NEW st \in State, searches' = [searches EXCEPT ![Cur] = st], ~st.cancel,
           st.done = searches[Cur].done, st.total = searches[Cur].total,
           st.count = searches[Cur].count, st.results = searches[Cur].results,
           st.remaining = IF running[t].pc = "merged" THEN searches[Cur].remaining - 1
                          ELSE searches[Cur].remaining,
           t \in DOMAIN running' => st.remaining = 0,
           st.complete => searches[Cur].complete \/ st.remaining = 0
    PROVE  IInv'
<1>1. /\ DOMAIN running' \in SUBSET Task /\ running' \in [DOMAIN running' -> Progress]
      /\ \A u \in Task : u # t => /\ u \in DOMAIN running' <=> u \in DOMAIN running
                                  /\ u \in DOMAIN running => running'[u] = running[u]
      /\ t \in DOMAIN running' => running'[t].pc \in {"last", "completing"}
      /\ t \in Task /\ t.shard > 0 /\ t \notin queue
  BY EndMoves
<1>2. /\ searches' \in Seq(State) /\ searches' # <<>> /\ Cur' = Cur /\ searches'[Cur] = st
      /\ OldCancelled'
  BY KeepOld
<1>3. TypeInv'
  BY <1>1, <1>2 DEF IInv, TypeInv
<1>4. OnlyTask(t)
  BY <1>1, <1>2 DEF OnlyTask, SameTask
<1>5. Started' = Started /\ Searched' = Searched /\ Found' = Found
  BY <1>1, <1>3, <1>4, EndCounts
<1>6. ~(Ends(t)') /\ (Ends(t) <=> running[t].pc = "merged")
  BY <1>1 DEF Ends
<1> DEFINE k == <<t.idx, t.shard>>
<1>7. /\ \A p \in Open \cup Open' : p # k => (p \in Open' <=> p \in Open)
      /\ k \in Open <=> running[t].pc = "merged"
      /\ k \notin Open'
  BY <1>3, <1>4, <1>6, OneTask
<1>8. TasksKnown' /\ ShownMatch'
  BY <1>3, <1>4, OneTask
<1> HIDE DEF k
<1>9. Open' = Open \ {k}
  BY <1>7
<1>10. IsFiniteSet(Open) /\ Cardinality(Open) \in Nat /\ searches[Cur].remaining = Cardinality(Open)
  BY CountedFinite DEF IInv, Counted
<1>11. IsFiniteSet(Open') /\ st.remaining = Cardinality(Open')
  <2>1. CASE running[t].pc = "merged"
    <3>1. IsFiniteSet(Open \ {k}) /\ Cardinality(Open \ {k}) = Cardinality(Open) - 1
      BY <1>7, <1>10, <2>1, FS_RemoveElement
    <3> QED BY <1>9, <1>10, <2>1, <3>1
  <2>2. CASE running[t].pc # "merged"
    <3>1. Open' = Open
      BY <1>7, <1>9, <2>2
    <3> QED BY <1>10, <2>2, <3>1
  <2> QED BY <2>1, <2>2
<1>12. st.remaining = 0 => Open' = {}
  BY <1>11, FS_EmptySet
<1>13. Counted'
  <2>1. seenQuery' = seenQuery /\ searches'[Cur'] = st
    BY <1>2
  <2>2. Best(seenQuery, Found)' = Best(seenQuery, Found)
    BY <1>5, <2>1 DEF Best
  <2> QED BY <1>5, <1>11, <2>1, <2>2 DEF IInv, Counted
<1>14. Open = {} => Open' = {}
  BY <1>9
<1>15. LastIsLast'
  <2>1. t \in DOMAIN running' => TasksAt(t)'
    BY <1>1, <1>12 DEF TasksAt
  <2>2. searches'[Cur].complete => Open' = {}
    BY <1>2, <1>12, <1>14 DEF IInv, LastIsLast
  <2> QED BY <1>3, <1>4, <1>14, <2>1, <2>2, OneTaskLast
<1> QED BY <1>2, <1>3, <1>8, <1>13, <1>15 DEF IInv

LEMMA CurrentEnds ==
    ASSUME IInv, NEW t \in DOMAIN running, t.gen = Cur, TaskEnds(t),
           UNCHANGED <<phase, sched, query, seenQuery, symbols, shown, queue>>
    PROVE  IInv'
<1>1. searches[Cur] \in State /\ ~Cancelled(t) /\ ~searches[Cur].cancel
  BY SearchesFacts DEF IInv, OldCancelled, Cancelled
<1>2. CASE running[t].pc = "merged"
  <2>1. /\ searches' = [searches EXCEPT ![Cur].remaining = @ - 1]
        /\ running' = IF searches[Cur].remaining = 1 THEN At(t, "last", running[t].item) ELSE Without(t)
    BY <1>1, <1>2 DEF TaskEnds
  <2>2. searches[Cur].remaining \in Nat /\ searches[Cur].remaining # 0
    <3>1. Ends(t) /\ t.shard > 0 /\ t.shard # 0
      BY <1>2 DEF Ends, IInv, TypeInv, Task, TasksKnown
    <3>2. /\ t = TaskOf(Cur, seenQuery, t.idx, t.shard)
          /\ t.idx \in 1..Len(symbols) /\ t.shard \in 0..NumShards
      BY CurrentTask
    <3>3. <<t.idx, t.shard>> \in Open
      BY <3>1, <3>2 DEF Open
    <3>4. IsFiniteSet(Open) /\ Cardinality(Open) \in Nat
      BY CountedFinite DEF IInv
    <3>5. Cardinality(Open) # 0
      BY <3>3, <3>4, FS_EmptySet
    <3> QED BY <3>4, <3>5 DEF IInv, Counted
  <2> DEFINE st == [searches[Cur] EXCEPT !.remaining = @ - 1]
  <2>3. /\ st.remaining = searches[Cur].remaining - 1 /\ st.cancel = searches[Cur].cancel
        /\ st.done = searches[Cur].done /\ st.total = searches[Cur].total
        /\ st.count = searches[Cur].count /\ st.results = searches[Cur].results
        /\ st.complete = searches[Cur].complete
    BY <1>1 DEF State
  <2>4. st \in State
    BY <1>1, <2>2 DEF State
  <2>5. searches' = [searches EXCEPT ![Cur] = st]
    BY <2>1
  <2> HIDE DEF st
  <2>6. t \in DOMAIN running' => st.remaining = 0
    <3>1. searches[Cur].remaining # 1 => running' = Without(t)
      BY <2>1
    <3>2. searches[Cur].remaining # 1 => t \notin DOMAIN running'
      BY <3>1 DEF Without
    <3> QED BY <2>2, <2>3, <3>2
  <2>7. \/ running' = Without(t)
        \/ \E pc \in {"last", "completing"} : running' = At(t, pc, running[t].item)
    BY <2>1
  <2> QED BY <1>1, <1>2, <2>3, <2>4, <2>5, <2>6, <2>7, EndStep
<1>none. ASSUME running[t].pc \in {"last", "completing"} PROVE searches[Cur].remaining = 0
  <2>1. Open = {}
    BY <1>none DEF IInv, LastIsLast, TasksAt
  <2> QED BY <2>1, FS_EmptySet DEF IInv, Counted
<1>3. CASE running[t].pc = "last"
  <2>1. searches' = [searches EXCEPT ![Cur].complete = TRUE] /\ running' = At(t, "completing", running[t].item)
    BY <1>3 DEF TaskEnds
  <2> DEFINE st == [searches[Cur] EXCEPT !.complete = TRUE]
  <2>2. /\ st.remaining = searches[Cur].remaining /\ st.cancel = searches[Cur].cancel
        /\ st.done = searches[Cur].done /\ st.total = searches[Cur].total
        /\ st.count = searches[Cur].count /\ st.results = searches[Cur].results
    BY <1>1 DEF State
  <2>3. st \in State
    BY <1>1 DEF State
  <2>4. searches' = [searches EXCEPT ![Cur] = st]
    BY <2>1
  <2> HIDE DEF st
  <2>5. st.remaining = 0 /\ running[t].pc # "merged"
    BY <1>3, <1>none, <2>2
  <2>6. \E pc \in {"last", "completing"} : running' = At(t, pc, running[t].item)
    BY <2>1
  <2> QED BY <1>1, <1>3, <2>2, <2>3, <2>4, <2>5, <2>6, EndStep
<1>4. CASE running[t].pc = "completing"
  <2>1. searches' = searches /\ running' = Without(t)
    BY <1>4 DEF TaskEnds
  <2> DEFINE st == searches[Cur]
  <2>2. searches' = [searches EXCEPT ![Cur] = st] /\ st \in State
    BY <1>1, <2>1 DEF IInv, TypeInv
  <2>3. st.remaining = 0 /\ running[t].pc # "merged" /\ ~st.cancel
    BY <1>1, <1>4, <1>none
  <2> QED BY <1>4, <2>1, <2>2, <2>3, EndStep
<1> QED BY <1>2, <1>3, <1>4 DEF TaskEnds

LEMMA TaskEndsInv ==
    ASSUME IInv, NEW t \in DOMAIN running, TaskEnds(t),
           UNCHANGED <<phase, sched, query, seenQuery, symbols, shown, queue>>
    PROVE  IInv'
<1>1. CASE t.gen = Cur
  BY <1>1, CurrentEnds
<1>2. CASE t.gen # Cur
  <2>1. t.gen \in 1..(Cur - 1) /\ t \in Task /\ Cancelled(t) /\ Cur \in Nat \ {0}
    BY <1>2, OldTask
  <2>2. \/ running' = Without(t)
        \/ \E pc \in {"last", "completing"} : running' = At(t, pc, running[t].item)
    BY <2>1 DEF TaskEnds
  <2>3. /\ DOMAIN running' \in SUBSET Task /\ running' \in [DOMAIN running' -> Progress]
        /\ \A u \in Task : u # t => /\ u \in DOMAIN running' <=> u \in DOMAIN running
                                    /\ u \in DOMAIN running => running'[u] = running[u]
        /\ t.shard > 0 /\ t \notin queue
    BY <2>2, EndMoves
  <2>4. searches' = searches \/ searches' = [searches EXCEPT ![t.gen].complete = TRUE]
    BY <2>1 DEF TaskEnds
  <2>5. t.gen \in 1..Cur /\ Cur \in 1..Cur /\ t.gen # Cur /\ searches[t.gen] \in State
    BY <2>1, SearchesFacts DEF IInv
  <2>6. /\ searches' \in Seq(State) /\ searches' # <<>> /\ Cur' = Cur /\ searches'[Cur] = searches[Cur]
        /\ \A g \in 1..(Cur - 1) : searches'[g].cancel = searches[g].cancel
               /\ searches'[g].done = searches[g].done /\ searches'[g].total = searches[g].total
    <3>1. CASE searches' = searches
      BY <3>1 DEF IInv, TypeInv, Cur
    <3>2. CASE searches' = [searches EXCEPT ![t.gen].complete = TRUE]
      <4> DEFINE st == [searches[t.gen] EXCEPT !.complete = TRUE]
      <4>1. /\ st.cancel = searches[t.gen].cancel /\ st.done = searches[t.gen].done
            /\ st.total = searches[t.gen].total
        BY <2>5 DEF State
      <4>2. st \in State
        BY <2>5 DEF State
      <4>3. searches' = [searches EXCEPT ![t.gen] = st]
        BY <3>2
      <4> HIDE DEF st
      <4>4. /\ searches' \in Seq(State) /\ searches' # <<>> /\ Cur' = Cur
            /\ searches'[t.gen] = st
            /\ \A h \in 1..Cur : h # t.gen => searches'[h] = searches[h]
        BY <2>5, <4>2, <4>3, SearchesUpdate DEF IInv
      <4>5. \A g \in 1..(Cur - 1) : g \in 1..Cur
        BY <2>1
      <4> QED BY <2>5, <4>1, <4>4, <4>5
    <3> QED BY <2>4, <3>1, <3>2
  <2>7. TypeInv'
    BY <2>3, <2>6 DEF IInv, TypeInv
  <2>8. \A u \in Task : u # t => SameTask(u)
    BY <2>3 DEF SameTask
  <2> QED BY <2>1, <2>3, <2>6, <2>7, <2>8, OldStep
<1> QED BY <1>1, <1>2

-----------------------------------------------------------------------------
(* The theorem.                                                              *)

LEMMA NextInv ==
    ASSUME IInv, [SearchNext]_searchVars PROVE IInv'
<1>1. CASE Main
  BY <1>1, UpdateInv, ScheduleInv, DrawInv DEF Main
<1>2. CASE Work
  <2>1. ASSUME NEW t \in queue, FileSearchTask(t) \/ SearchTask(t) PROVE IInv'
    BY <2>1, FileSearchTaskInv, SearchTaskInv
  <2>2. ASSUME NEW t \in DOMAIN running, SearchChunk(t) PROVE IInv'
    BY <2>2, SearchChunkInv
  <2>3. ASSUME NEW t \in DOMAIN running, TaskEnds(t),
               UNCHANGED <<phase, sched, query, seenQuery, symbols, inspected, shown, bins, queue>>
        PROVE  IInv'
    BY <2>3, TaskEndsInv
  <2> QED BY <1>2, <2>1, <2>2, <2>3 DEF Work
<1>3. CASE Environment
  BY <1>3, EnvironmentInv
<1>4. CASE UNCHANGED searchVars
  <2>1. ShownMatch' /\ query' \in Texts
    BY <1>4 DEF searchVars, IInv, ShownMatch, TypeInv
  <2> QED BY <1>4, <2>1, QuietStep DEF searchVars
<1> QED BY <1>1, <1>2, <1>3, <1>4 DEF SearchNext

LEMMA InvGivesExact ==
    ASSUME IInv PROVE SearchExact
<1>1. ASSUME searches[Cur].complete
      PROVE  /\ searches[Cur].results \in Best(seenQuery, Matches(seenQuery, Len(symbols)))
             /\ searches[Cur].count = Cardinality(Matches(seenQuery, Len(symbols)))
             /\ searches[Cur].done = searches[Cur].total
  <2>1. Open = {}
    BY <1>1 DEF IInv, LastIsLast
  <2>2. Started = All /\ Searched = All /\ Found = Matches(seenQuery, Len(symbols))
    BY <2>1, ClosedIsAll DEF IInv
  <2> QED BY <2>2 DEF IInv, Counted
<1>2. ASSUME NEW g \in 1..Cur PROVE searches[g].done <= searches[g].total
  <2>1. Cur \in Nat \ {0}
    BY SearchesFacts DEF IInv
  <2>2. CASE g = Cur
    <3>1. IsFiniteSet(Started) /\ Searched \subseteq Started
      BY CountedFinite, SearchedStarted DEF IInv
    <3>2. Cardinality(Searched) <= Cardinality(Started)
      BY <3>1, FS_Subset
    <3> QED BY <2>2, <3>2 DEF IInv, Counted
  <2>3. CASE g # Cur
    <3>1. g \in 1..(Cur - 1)
      BY <2>1, <2>3
    <3>2. searches[g].done = 0 /\ searches[g].total = 0
      BY <3>1 DEF IInv, OldCancelled
    <3> QED BY <3>2
  <2> QED BY <2>2, <2>3
<1> QED BY <1>1, <1>2 DEF SearchExact, IInv, ShownMatch

\* A search that says it is complete has gone through every function of every
\* binary exactly once, and shows the best of all that match and their number;
\* before that it counts no item as done that it has not counted in the total;
\* and the list on the screen has no item that does not match its query.  The
\* tasks may run in any order, on any number of threads, while the query
\* changes, binaries appear and dialogs are closed (search.rs, SearchState).
THEOREM SearchCorrect == SearchSpec => []SearchExact
<1>1. SearchInit => IInv
  BY InitInv
<1>2. IInv /\ [SearchNext]_searchVars => IInv'
  BY NextInv
<1>3. IInv => SearchExact
  BY InvGivesExact
<1> QED BY <1>1, <1>2, <1>3, PTL DEF SearchSpec

=============================================================================
