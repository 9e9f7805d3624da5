------------------------- MODULE GdbRemote_proofs -------------------------
(***************************************************************************)
(* What the debugger believes of a remote target is so, for any number of  *)
(* vCPUs and addresses: BeliefSound and RemoteAgrees, as long as nothing   *)
(* resumes a guest that runs, breakpoints that wait for symbols keep the   *)
(* guest from being resumed, and the stub does not speak first.            *)
(***************************************************************************)
EXTENDS GdbRemote, FiniteSetTheorems, TLAPS

\* What a handler does without the stub.
Locals == {"handle", "cont", "connected", "retry", "stopped", "wait_stop"}
Ops_ == Requests \cup Locals \cup {"T", "vCont;c", "vCont;s", "0x03"}

\* Requests, and what handlers have to do, name threads and breakpoints that exist.
Items ==
    {q \in [op : Ops_, arg : Nat, val : Nat] :
        /\ q.op \in {"g", "T", "stopped"} => q.arg \in Tids
        /\ q.op \in {"Z", "z"} => q.arg \in Points}
Replies ==
    {p \in Items : p.op \in Requests \cup {"T"} /\ (p.op = "g" => p.val \in Addrs \cup {0})}

\* The type invariant, one part for each group of variables.
StubType == run \in BOOLEAN /\ guest \in [Tids -> Addrs \cup {0}] /\ ins \subseteq Points
NetType == alive \in BOOLEAN /\ c2s \in Seq(Items) /\ s2c \in Seq(Replies)
ConnType == orphans \in Seq(Replies) /\ inFlight \in BOOLEAN
StepType ==
    /\ stepping \in [tid : Tids \cup {0}, single : BOOLEAN, keep : BOOLEAN, cursor : BOOLEAN]
    /\ stepping = NoStep \/ stepping.tid \in Tids
    /\ pending = NoPending \/ pending \in [tid : Tids, addr : Addrs]
BpType ==
    /\ bp \in [Addrs -> {"none", "new", "active"}]
    /\ refs \in [Addrs -> SUBSET {"user", "step"}]
    /\ armed \in [Addrs -> {"gone", "no", "yes", "err"}]
    /\ slot \in {"free", "active", "pushed"}
DbgType ==
    /\ target \in {"Connecting", "Running", "Stepping", "Suspended", "Exited"}
    /\ tstate \in [Tids -> {"Running", "Suspended"}]
    /\ regs \in [Tids -> Addrs \cup {0}]
    /\ stopBps \in BOOLEAN /\ waitSyms \in BOOLEAN /\ loaded \in BOOLEAN
RunType ==
    /\ todo \in Seq(Items)
    /\ await \in BOOLEAN /\ late \in BOOLEAN
    /\ await => todo # <<>> /\ Head(todo).op \in Requests

TypeInv == StubType /\ NetType /\ ConnType /\ StepType /\ BpType /\ DbgType /\ RunType

\* What is on a list of packets.
Has(s, op, arg) == \E i \in DOMAIN s : s[i].op = op /\ s[i].arg = arg
HasOp(s, op) == \E i \in DOMAIN s : s[i].op = op
Only(s, ops) == \A i \in DOMAIN s : s[i].op \in ops

\* A handler ends in one local step or in the detach, or is "handle" and "cont".
LocalsLast(s) ==
    \A i \in DOMAIN s : s[i].op \in Locals \cup {"D"} =>
        \/ i = Len(s)
        \/ i = 1 /\ Len(s) = 2 /\ s[1].op = "handle" /\ s[2].op = "cont"

\* Handlers in progress, and what their last steps rely on.
HandlersInOrder ==
    /\ LocalsLast(todo)
    /\ target = "Exited" => Only(todo, {"z", "D"})
    /\ HasOp(todo, "D") => target = "Exited"
    /\ target = "Connecting" => HasOp(todo, "connected")
    /\ HasOp(todo, "stopped") => target = "Suspended"
    /\ HasOp(todo, "retry") => loaded
    /\ HasOp(todo, "cont") => ~waitSyms /\ (target = "Stepping" => stepping.tid \in Tids)
    /\ target = "Stepping" => stepping.tid \in Tids \/ pending # NoPending

\* The wires.  Interrupts may be under way at any time.
Interrupts(s) == Only(s, {"0x03"})
OneResume(s) ==
    \E i \in DOMAIN s : /\ s[i].op \in {"vCont;c", "vCont;s"}
                        /\ \A j \in DOMAIN s \ {i} : s[j].op = "0x03"
Asking(s, q) ==
    /\ s # <<>> /\ s[Len(s)] = q
    /\ \A i \in DOMAIN s \ {Len(s)} : s[i].op = "0x03"
Matches(p, q) == IF q.op = "?" THEN IsStop(p) ELSE p.op = q.op /\ p.arg = q.arg

\* After a vCont one stop reply comes back, and nothing else is asked before it.
ResumeUnderWay ==
    /\ ~await
    /\ \/ run /\ s2c = <<>> /\ Interrupts(c2s)
       \/ ~run /\ Len(s2c) = 1 /\ IsStop(s2c[1]) /\ Interrupts(c2s)
       \/ ~run /\ s2c = <<>> /\ OneResume(c2s)

\* A request is answered before anything else happens.
RequestUnderWay ==
    \/ ~run /\ s2c = <<>> /\ Asking(c2s, Head(todo))
    \/ /\ c2s = <<>> /\ Len(s2c) = 1 /\ Matches(s2c[1], Head(todo))
       /\ run => Head(todo).op = "D"
       /\ Head(todo).op = "g" => s2c[1].val = guest[Head(todo).arg]

NothingUnderWay ==
    s2c = <<>> /\ Interrupts(c2s) /\ (run => target = "Exited" /\ todo = <<>> /\ c2s = <<>>)

WiresInOrder ==
    /\ orphans = <<>>
    /\ inFlight => ResumeUnderWay
    /\ ~inFlight /\ await => RequestUnderWay
    /\ ~inFlight /\ ~await => NothingUnderWay

\* A guest that may run is one that some thread is shown as running for.
WhileRunning(s) ==
    \A i \in DOMAIN s : s[i].op \in {"m", "wait_stop"} \/ (s[i].op = "z" /\ s[i].arg = Data)
ResumesKnown ==
    /\ inFlight <=> AnyRunning
    /\ stopBps => inFlight \/ HasOp(todo, "stopped")
    /\ inFlight /\ target # "Exited" => WhileRunning(todo)
    /\ target = "Running" => inFlight \/ HasOp(todo, "cont")
    /\ target = "Stepping" => inFlight \/ HasOp(todo, "cont") \/ waitSyms
    /\ target = "Suspended" /\ inFlight => HasOp(todo, "wait_stop")

\* The registers of a stopped guest are known or will be asked for.
RegsFollow ==
    ~inFlight => \A t \in Tids : regs[t] = guest[t] \/ Has(todo, "g", t)

\* A location is active exactly while it is inserted, but for the answer under way.
Asked(op, a) == await /\ Head(todo).op = op /\ Head(todo).arg = a /\ c2s = <<>>
Once(s) ==
    \A i, j \in DOMAIN s : s[i].op = "Z" /\ s[j].op = "Z" /\ s[i].arg = s[j].arg => i = j

InsertedKnown ==
    target # "Exited" =>
        /\ \A a \in Addrs : a \in ins => armed[a] = "yes" \/ Asked("Z", a)
        /\ \A a \in Addrs : armed[a] = "yes" => a \in ins \/ Asked("z", a)
        /\ \A a \in Addrs : Has(todo, "Z", a) => armed[a] # "yes"
        /\ \A a \in Addrs : Has(todo, "z", a) => refs[a] = {}
        /\ Once(todo)
        /\ \A a \in Addrs : Asked("Z", a) => (s2c[1].val = 1 <=> a \in ins)
        /\ \A a \in Addrs : Asked("z", a) => a \notin ins

\* Before the guest runs, every location in use is inserted or refused.
UsedInserted ==
    target = "Running" /\ ~stopBps =>
        \A a \in Addrs : refs[a] # {} =>
            armed[a] \in {"yes", "err"} \/ Has(todo, "Z", a) \/ HasOp(todo, "handle")

StepInv == WiresInOrder /\ ResumesKnown /\ RegsFollow /\ InsertedKnown /\ UsedInserted
IInv == TypeInv /\ HandlersInOrder /\ (InStep => StepInv)


(***************************************************************************)
(* Packets and sequences of them.                                          *)
(***************************************************************************)
LEMMA PacketFields ==
    /\ \A op, arg, val : /\ Packet(op, arg, val).op = op
                         /\ Packet(op, arg, val).arg = arg
                         /\ Packet(op, arg, val).val = val
    /\ \A op, arg : Req(op, arg) = Packet(op, arg, 0)
    /\ \A op, arg : Req(op, arg).op = op /\ Req(op, arg).arg = arg /\ Req(op, arg).val = 0
BY DEF Packet, Req

LEMMA PacketItem ==
    ASSUME NEW op \in Ops_, NEW arg \in Nat, NEW val \in Nat,
           op \in {"g", "T", "stopped"} => arg \in Tids,
           op \in {"Z", "z"} => arg \in Points
    PROVE  Packet(op, arg, val) \in Items
BY DEF Packet, Items, Ops_

LEMMA ReqItem ==
    ASSUME NEW op \in Ops_, NEW arg \in Nat,
           op \in {"g", "T", "stopped"} => arg \in Tids,
           op \in {"Z", "z"} => arg \in Points
    PROVE  Req(op, arg) \in Items
BY PacketItem DEF Req

LEMMA PacketReply ==
    ASSUME NEW op \in Requests \cup {"T"}, NEW arg \in Nat, NEW val \in Nat,
           op \in {"g", "T", "stopped"} => arg \in Tids,
           op \in {"Z", "z"} => arg \in Points,
           op = "g" => val \in Addrs \cup {0}
    PROVE  Packet(op, arg, val) \in Replies
<1>1. op \in Ops_
  BY DEF Ops_
<1>2. Packet(op, arg, val) \in Items
  BY <1>1, PacketItem
<1> QED BY <1>2, PacketFields DEF Replies

LEMMA ItemFields ==
    ASSUME NEW q \in Items
    PROVE  /\ q.op \in Ops_ /\ q.arg \in Nat /\ q.val \in Nat
           /\ q = Packet(q.op, q.arg, q.val)
           /\ q.op \in {"g", "T", "stopped"} => q.arg \in Tids
           /\ q.op \in {"Z", "z"} => q.arg \in Points
BY DEF Items, Ops_, Packet

LEMMA ReplyFields ==
    ASSUME NEW p \in Replies
    PROVE  /\ p \in Items /\ p.op \in Requests \cup {"T"}
           /\ p.op = "g" => p.val \in Addrs \cup {0}
BY DEF Replies

LEMMA TailFacts ==
    ASSUME NEW S, NEW s \in Seq(S), s # <<>>
    PROVE  /\ Head(s) \in S /\ Head(s) = s[1] /\ 1 \in DOMAIN s
           /\ Tail(s) \in Seq(S) /\ Len(Tail(s)) = Len(s) - 1 /\ Len(s) \in Nat /\ Len(s) > 0
           /\ DOMAIN s = 1 .. Len(s) /\ DOMAIN Tail(s) = 1 .. Len(s) - 1
           /\ \A i \in DOMAIN Tail(s) : Tail(s)[i] = s[i + 1] /\ i + 1 \in DOMAIN s
           /\ \A i \in DOMAIN s : i # 1 => i - 1 \in DOMAIN Tail(s) /\ Tail(s)[i - 1] = s[i]
OBVIOUS

LEMMA CatFacts ==
    ASSUME NEW S, NEW s \in Seq(S), NEW t \in Seq(S)
    PROVE  /\ s \o t \in Seq(S) /\ Len(s \o t) = Len(s) + Len(t)
           /\ DOMAIN (s \o t) = 1 .. Len(s) + Len(t)
           /\ \A i \in DOMAIN s : i \in DOMAIN (s \o t) /\ (s \o t)[i] = s[i]
           /\ \A i \in DOMAIN t : i + Len(s) \in DOMAIN (s \o t) /\ (s \o t)[i + Len(s)] = t[i]
           /\ \A i \in DOMAIN (s \o t) : i \notin DOMAIN s =>
                 i - Len(s) \in DOMAIN t /\ (s \o t)[i] = t[i - Len(s)]
OBVIOUS

LEMMA AppendFacts ==
    ASSUME NEW S, NEW s \in Seq(S), NEW x \in S
    PROVE  /\ Append(s, x) \in Seq(S) /\ Len(Append(s, x)) = Len(s) + 1
           /\ DOMAIN Append(s, x) = 1 .. Len(s) + 1
           /\ \A i \in DOMAIN s : i \in DOMAIN Append(s, x) /\ Append(s, x)[i] = s[i]
           /\ Append(s, x)[Len(s) + 1] = x
OBVIOUS

\* Each(S, op) has one request for each member of S.
LEMMA EachFacts ==
    ASSUME NEW S, IsFiniteSet(S), NEW op
    PROVE  /\ \A T : (\A x \in S : Req(op, x) \in T) => Each(S, op) \in Seq(T)
           /\ DOMAIN Each(S, op) = 1 .. Len(Each(S, op)) /\ Len(Each(S, op)) \in Nat
           /\ \A i \in DOMAIN Each(S, op) : \E x \in S : Each(S, op)[i] = Req(op, x)
           /\ \A x \in S : \E i \in DOMAIN Each(S, op) : Each(S, op)[i] = Req(op, x)
           /\ \A i, j \in DOMAIN Each(S, op) : Each(S, op)[i] = Each(S, op)[j] => i = j
<1> DEFINE n == Cardinality(S)
           s == SetToSeq(S)
<1>1. n \in Nat /\ ExistsBijection(1 .. n, S)
  BY FS_CardinalityType
<1>2. \E f \in [1 .. n -> S] : IsInjective(f)
  BY <1>1 DEF ExistsBijection, Bijection, Injection
<1>3. s \in [1 .. n -> S] /\ IsInjective(s)
  BY <1>2 DEF SetToSeq
<1>4. s \in Injection(1 .. n, S)
  BY <1>3 DEF Injection
<1>5. IsFiniteSet(1 .. n) /\ Cardinality(1 .. n) = n
  BY <1>1, FS_Interval
<1>6. s \in Surjection(1 .. n, S)
  BY <1>4, <1>5, FS_Injection
<1>7. \A x \in S : \E i \in 1 .. n : s[i] = x
  BY <1>6 DEF Surjection
<1>8. \A i, j \in 1 .. n : s[i] = s[j] => i = j
  BY <1>3 DEF IsInjective
<1> HIDE DEF s, n
<1>9. Len(s) = n /\ s \in Seq(S)
  BY <1>1, <1>3
<1>10. Each(S, op) = [i \in 1 .. n |-> Req(op, s[i])]
  BY <1>9 DEF Each, s
<1>11. DOMAIN Each(S, op) = 1 .. n /\ Len(Each(S, op)) = n
  BY <1>10, <1>1
<1>12. \A i \in 1 .. n : Each(S, op)[i] = Req(op, s[i])
  BY <1>10
<1>13. ASSUME NEW T, \A x \in S : Req(op, x) \in T PROVE Each(S, op) \in Seq(T)
  <2>1. \A i \in 1 .. n : Req(op, s[i]) \in T
    BY <1>3, <1>13
  <2> QED BY <1>1, <1>10, <2>1
<1>14. \A i, j \in 1 .. n : Each(S, op)[i] = Each(S, op)[j] => i = j
  <2> SUFFICES ASSUME NEW i \in 1 .. n, NEW j \in 1 .. n, Each(S, op)[i] = Each(S, op)[j] PROVE i = j
    OBVIOUS
  <2>1. Req(op, s[i]) = Req(op, s[j])
    BY <1>12
  <2>2. s[i] = s[j]
    BY <2>1, PacketFields
  <2> QED BY <2>2, <1>8
<1> QED BY <1>1, <1>3, <1>7, <1>11, <1>12, <1>13, <1>14

LEMMA FiniteAddrs ==
    /\ IsFiniteSet(Tids) /\ IsFiniteSet(Addrs) /\ Tids \subseteq Nat /\ Addrs \subseteq Nat
    /\ 0 \notin Tids /\ 0 \notin Addrs /\ Data = 0 /\ Points = Addrs \cup {0} /\ Points \subseteq Nat
    /\ \A S \in SUBSET Addrs : IsFiniteSet(S)
<1>1. ASSUME NEW S \in SUBSET Addrs PROVE IsFiniteSet(S)
  BY RemoteAssumption, FS_Subset
<1> QED BY <1>1, RemoteAssumption DEF Points, Data
LEMMA OneElement ==
    ASSUME NEW S, NEW s \in Seq(S), Len(s) = 1 PROVE s = <<s[1]>>
OBVIOUS

\* What is on the rest of a list, on two lists one after the other, on one of one packet.
LEMMA HasTail ==
    ASSUME NEW S, NEW s \in Seq(S), s # <<>>
    PROVE  /\ \A op, arg : Has(s, op, arg) <=>
                             (Head(s).op = op /\ Head(s).arg = arg) \/ Has(Tail(s), op, arg)
           /\ \A op : HasOp(s, op) <=> Head(s).op = op \/ HasOp(Tail(s), op)
           /\ \A ops : Only(s, ops) <=> Head(s).op \in ops /\ Only(Tail(s), ops)
<1>1. /\ Head(s) = s[1] /\ 1 \in DOMAIN s
      /\ \A i \in DOMAIN Tail(s) : Tail(s)[i] = s[i + 1] /\ i + 1 \in DOMAIN s
      /\ \A i \in DOMAIN s : i # 1 => i - 1 \in DOMAIN Tail(s) /\ Tail(s)[i - 1] = s[i]
  BY TailFacts
<1>2. ASSUME NEW op, NEW arg
      PROVE  Has(s, op, arg) <=> (Head(s).op = op /\ Head(s).arg = arg) \/ Has(Tail(s), op, arg)
  <2>1. ASSUME Has(s, op, arg) PROVE (Head(s).op = op /\ Head(s).arg = arg) \/ Has(Tail(s), op, arg)
    <3>1. PICK i \in DOMAIN s : s[i].op = op /\ s[i].arg = arg
      BY <2>1 DEF Has
    <3> QED BY <1>1, <3>1 DEF Has
  <2>2. ASSUME Has(Tail(s), op, arg) PROVE Has(s, op, arg)
    <3>1. PICK i \in DOMAIN Tail(s) : Tail(s)[i].op = op /\ Tail(s)[i].arg = arg
      BY <2>2 DEF Has
    <3>2. s[i + 1].op = op /\ s[i + 1].arg = arg /\ i + 1 \in DOMAIN s
      BY <1>1, <3>1
    <3> QED BY <3>2 DEF Has
  <2>3. ASSUME Head(s).op = op, Head(s).arg = arg PROVE Has(s, op, arg)
    BY <1>1, <2>3 DEF Has
  <2> QED BY <2>1, <2>2, <2>3
<1>3. ASSUME NEW op PROVE HasOp(s, op) <=> Head(s).op = op \/ HasOp(Tail(s), op)
  <2>1. ASSUME HasOp(s, op) PROVE Head(s).op = op \/ HasOp(Tail(s), op)
    <3>1. PICK i \in DOMAIN s : s[i].op = op
      BY <2>1 DEF HasOp
    <3> QED BY <1>1, <3>1 DEF HasOp
  <2>2. ASSUME HasOp(Tail(s), op) PROVE HasOp(s, op)
    <3>1. PICK i \in DOMAIN Tail(s) : Tail(s)[i].op = op
      BY <2>2 DEF HasOp
    <3>2. s[i + 1].op = op /\ i + 1 \in DOMAIN s
      BY <1>1, <3>1
    <3> QED BY <3>2 DEF HasOp
  <2>3. ASSUME Head(s).op = op PROVE HasOp(s, op)
    BY <1>1, <2>3 DEF HasOp
  <2> QED BY <2>1, <2>2, <2>3
<1>4. ASSUME NEW ops PROVE Only(s, ops) <=> Head(s).op \in ops /\ Only(Tail(s), ops)
  BY <1>1 DEF Only
<1> QED BY <1>2, <1>3, <1>4

LEMMA HasCat ==
    ASSUME NEW S, NEW s \in Seq(S), NEW t \in Seq(S)
    PROVE  /\ \A op, arg : Has(s \o t, op, arg) <=> Has(s, op, arg) \/ Has(t, op, arg)
           /\ \A op : HasOp(s \o t, op) <=> HasOp(s, op) \/ HasOp(t, op)
           /\ \A ops : Only(s \o t, ops) <=> Only(s, ops) /\ Only(t, ops)
<1> DEFINE u == s \o t
<1>1. /\ \A i \in DOMAIN s : i \in DOMAIN u /\ u[i] = s[i]
      /\ \A i \in DOMAIN t : i + Len(s) \in DOMAIN u /\ u[i + Len(s)] = t[i]
      /\ \A i \in DOMAIN u : i \notin DOMAIN s => i - Len(s) \in DOMAIN t /\ u[i] = t[i - Len(s)]
  BY CatFacts
<1> HIDE DEF u
<1>2. ASSUME NEW op, NEW arg PROVE Has(u, op, arg) <=> Has(s, op, arg) \/ Has(t, op, arg)
  BY <1>1 DEF Has
<1>3. ASSUME NEW op PROVE HasOp(u, op) <=> HasOp(s, op) \/ HasOp(t, op)
  BY <1>1 DEF HasOp
<1>4. ASSUME NEW ops PROVE Only(u, ops) <=> Only(s, ops) /\ Only(t, ops)
  BY <1>1 DEF Only
<1> QED BY <1>2, <1>3, <1>4 DEF u

LEMMA HasOne ==
    ASSUME NEW x
    PROVE  /\ \A op, arg : Has(<<x>>, op, arg) <=> x.op = op /\ x.arg = arg
           /\ \A op : HasOp(<<x>>, op) <=> x.op = op
           /\ \A ops : Only(<<x>>, ops) <=> x.op \in ops
<1>1. DOMAIN <<x>> = {1} /\ <<x>>[1] = x
  OBVIOUS
<1> QED BY <1>1 DEF Has, HasOp, Only

LEMMA HasNone ==
    /\ \A op, arg : ~Has(<<>>, op, arg)
    /\ \A op : ~HasOp(<<>>, op)
    /\ \A ops : Only(<<>>, ops)
    /\ LocalsLast(<<>>) /\ Once(<<>>) /\ WhileRunning(<<>>)
BY DEF Has, HasOp, Only, LocalsLast, Once, WhileRunning

LEMMA HasEach ==
    ASSUME NEW S, IsFiniteSet(S), NEW op
    PROVE  /\ \A o, x : Has(Each(S, op), o, x) <=> o = op /\ x \in S
           /\ \A o : HasOp(Each(S, op), o) => o = op
           /\ \A ops : op \in ops => Only(Each(S, op), ops)
<1> DEFINE e == Each(S, op)
<1>1. /\ \A i \in DOMAIN e : \E x \in S : e[i] = Req(op, x)
      /\ \A x \in S : \E i \in DOMAIN e : e[i] = Req(op, x)
  BY EachFacts
<1>2. \A x : Req(op, x).op = op /\ Req(op, x).arg = x
  BY PacketFields
<1> HIDE DEF e
<1>3. ASSUME NEW o, NEW x PROVE Has(e, o, x) <=> o = op /\ x \in S
  BY <1>1, <1>2 DEF Has
<1>4. ASSUME NEW o PROVE HasOp(e, o) => o = op
  BY <1>1, <1>2 DEF HasOp
<1>5. ASSUME NEW ops, op \in ops PROVE Only(e, ops)
  BY <1>1, <1>2, <1>5 DEF Only
<1> QED BY <1>3, <1>4, <1>5 DEF e

LEMMA OnlyHas ==
    /\ \A s, ops : Only(s, ops) <=> \A op : HasOp(s, op) => op \in ops
    /\ \A s, op, arg : Has(s, op, arg) => HasOp(s, op)
BY DEF Only, HasOp, Has

\* The order of a handler.
LEMMA LocalsLastTail ==
    ASSUME NEW s \in Seq(Items), s # <<>>, LocalsLast(s)
    PROVE  /\ LocalsLast(Tail(s))
           /\ Head(s).op \in (Locals \ {"handle"}) \cup {"D"} => Tail(s) = <<>>
           /\ Head(s).op = "handle" => Tail(s) = <<>> \/ \E x \in Items : x.op = "cont" /\ Tail(s) = <<x>>
<1>1. /\ Head(s) = s[1] /\ 1 \in DOMAIN s /\ Tail(s) \in Seq(Items) /\ Len(Tail(s)) = Len(s) - 1
      /\ Len(s) \in Nat /\ DOMAIN s = 1 .. Len(s)
      /\ DOMAIN Tail(s) = 1 .. Len(s) - 1
      /\ \A i \in DOMAIN Tail(s) : Tail(s)[i] = s[i + 1] /\ i + 1 \in DOMAIN s
  BY TailFacts
<1>2. LocalsLast(Tail(s))
  BY <1>1 DEF LocalsLast
<1>3. ASSUME Head(s).op \in Locals \cup {"D"}, Len(s) # 1
      PROVE  Head(s).op = "handle" /\ Len(s) = 2 /\ s[2].op = "cont"
  BY <1>1, <1>3 DEF LocalsLast
<1>4. Len(s) = 1 => Tail(s) = <<>>
  BY <1>1
<1>5. ASSUME Len(s) = 2, s[2].op = "cont"
      PROVE  \E x \in Items : x.op = "cont" /\ Tail(s) = <<x>>
  <2>0. Len(Tail(s)) = 1 /\ Tail(s)[1] = s[2] /\ s[2] \in Items
    BY <1>1, <1>5
  <2>1. Tail(s) = <<s[2]>> /\ s[2] \in Items
    BY <1>1, <2>0, OneElement
  <2> QED BY <2>1, <1>5
<1>6. CASE Len(s) = 1
  BY <1>2, <1>4, <1>6
<1>7. CASE Len(s) # 1
  BY <1>2, <1>3, <1>5, <1>7 DEF Locals
<1> QED BY <1>6, <1>7

LEMMA LocalsLastCat ==
    ASSUME NEW s \in Seq(Items), NEW t \in Seq(Items), Len(t) <= 1,
           \A i \in DOMAIN s : s[i].op \notin Locals \cup {"D"}
    PROVE  LocalsLast(s \o t)
<1>1. /\ Len(s \o t) = Len(s) + Len(t) /\ DOMAIN (s \o t) = 1 .. Len(s) + Len(t)
      /\ \A i \in DOMAIN s : i \in DOMAIN (s \o t) /\ (s \o t)[i] = s[i]
      /\ DOMAIN s = 1 .. Len(s) /\ Len(s) \in Nat /\ Len(t) \in Nat
  BY CatFacts
<1> QED BY <1>1 DEF LocalsLast

\* Lists of one local step, and the two that end in "cont".
LEMMA LocalsLastShort ==
    /\ \A x : LocalsLast(<<x>>)
    /\ LocalsLast(Handle) /\ LocalsLast(Cont) /\ LocalsLast(Handle \o Cont)
<1>1. ASSUME NEW x PROVE LocalsLast(<<x>>)
  BY DEF LocalsLast
<1> DEFINE x == Req("handle", 0)
           y == Req("cont", 0)
<1>2. x.op = "handle" /\ y.op = "cont"
  BY PacketFields
<1> HIDE DEF x, y
<1>3. /\ <<x>> \in Seq({x, y}) /\ <<y>> \in Seq({x, y})
      /\ Len(<<x>>) = 1 /\ Len(<<y>>) = 1 /\ <<x>>[1] = x /\ <<y>>[1] = y
  OBVIOUS
<1>4. /\ Len(<<x>> \o <<y>>) = 2 /\ DOMAIN (<<x>> \o <<y>>) = 1 .. 2
      /\ (<<x>> \o <<y>>)[1] = x /\ (<<x>> \o <<y>>)[2] = y
  BY <1>3
<1>5. LocalsLast(<<x>> \o <<y>>)
  BY <1>2, <1>4 DEF LocalsLast
<1> QED BY <1>1, <1>5 DEF Handle, Cont, x, y

\* No breakpoint is inserted twice by one handler.
LEMMA OnceTail ==
    ASSUME NEW S, NEW s \in Seq(S), s # <<>>, Once(s)
    PROVE  Once(Tail(s)) /\ (Head(s).op = "Z" => ~Has(Tail(s), "Z", Head(s).arg))
<1>1. /\ Head(s) = s[1] /\ 1 \in DOMAIN s /\ DOMAIN Tail(s) \subseteq Nat \ {0}
      /\ \A i \in DOMAIN Tail(s) : Tail(s)[i] = s[i + 1] /\ i + 1 \in DOMAIN s
  BY TailFacts
<1>2. Once(Tail(s))
  BY <1>1 DEF Once
<1>3. ASSUME Head(s).op = "Z", Has(Tail(s), "Z", Head(s).arg) PROVE FALSE
  <2>1. PICK i \in DOMAIN Tail(s) : Tail(s)[i].op = "Z" /\ Tail(s)[i].arg = Head(s).arg
    BY <1>3 DEF Has
  <2>2. s[i + 1].op = "Z" /\ s[i + 1].arg = s[1].arg /\ i + 1 \in DOMAIN s /\ i \in Nat \ {0}
    BY <1>1, <2>1
  <2>3. i + 1 = 1
    BY <1>1, <1>3, <2>2 DEF Once
  <2> QED BY <2>2, <2>3
<1> QED BY <1>2, <1>3

LEMMA OnceNoZ ==
    ASSUME NEW s, ~HasOp(s, "Z") PROVE Once(s)
BY DEF Once, HasOp

LEMMA OnceCat ==
    ASSUME NEW S, NEW s \in Seq(S), NEW t \in Seq(S), Once(s), Once(t),
           \A x : ~(Has(s, "Z", x) /\ Has(t, "Z", x))
    PROVE  Once(s \o t)
<1> DEFINE u == s \o t
<1>1. /\ \A i \in DOMAIN u : i \in DOMAIN s => u[i] = s[i]
      /\ \A i \in DOMAIN u : i \notin DOMAIN s => i - Len(s) \in DOMAIN t /\ u[i] = t[i - Len(s)]
      /\ DOMAIN u \subseteq Nat /\ Len(s) \in Nat
  BY CatFacts
<1> HIDE DEF u
<1>2. SUFFICES ASSUME NEW i \in DOMAIN u, NEW j \in DOMAIN u,
                      u[i].op = "Z", u[j].op = "Z", u[i].arg = u[j].arg
               PROVE  i = j
  BY DEF Once, u
<1>3. CASE i \in DOMAIN s /\ j \in DOMAIN s
  BY <1>1, <1>2, <1>3 DEF Once
<1>4. CASE i \notin DOMAIN s /\ j \notin DOMAIN s
  <2>1. /\ i - Len(s) \in DOMAIN t /\ u[i] = t[i - Len(s)]
        /\ j - Len(s) \in DOMAIN t /\ u[j] = t[j - Len(s)]
    BY <1>1, <1>4
  <2>2. i - Len(s) = j - Len(s)
    BY <1>2, <2>1 DEF Once
  <2> QED BY <1>1, <2>2
<1>5. CASE i \in DOMAIN s /\ j \notin DOMAIN s
  <2>1. u[i] = s[i] /\ j - Len(s) \in DOMAIN t /\ u[j] = t[j - Len(s)]
    BY <1>1, <1>5
  <2>2. Has(s, "Z", u[i].arg) /\ Has(t, "Z", u[i].arg)
    BY <1>2, <1>5, <2>1 DEF Has
  <2> QED BY <2>2
<1>6. CASE i \notin DOMAIN s /\ j \in DOMAIN s
  <2>1. u[j] = s[j] /\ i - Len(s) \in DOMAIN t /\ u[i] = t[i - Len(s)]
    BY <1>1, <1>6
  <2>2. Has(s, "Z", u[i].arg) /\ Has(t, "Z", u[i].arg)
    BY <1>2, <1>6, <2>1 DEF Has
  <2> QED BY <2>2
<1> QED BY <1>3, <1>4, <1>5, <1>6

LEMMA OnceEach ==
    ASSUME NEW S, IsFiniteSet(S), NEW op PROVE Once(Each(S, op))
<1> DEFINE e == Each(S, op)
<1>1. /\ \A i \in DOMAIN e : \E x \in S : e[i] = Req(op, x)
      /\ \A i, j \in DOMAIN e : e[i] = e[j] => i = j
  BY EachFacts
<1>2. \A x : Req(op, x).op = op /\ Req(op, x).arg = x
  BY PacketFields
<1> HIDE DEF e
<1>3. SUFFICES ASSUME NEW i \in DOMAIN e, NEW j \in DOMAIN e, e[i].arg = e[j].arg PROVE i = j
  BY DEF Once, e
<1>4. PICK x \in S : e[i] = Req(op, x)
  BY <1>1
<1>5. PICK y \in S : e[j] = Req(op, y)
  BY <1>1
<1>6. x = y
  BY <1>2, <1>3, <1>4, <1>5
<1> QED BY <1>1, <1>4, <1>5, <1>6

\* The wire to the stub: what is written to it, and what the stub takes from it.
LEMMA WireWrite ==
    ASSUME NEW s \in Seq(Items), NEW q \in Items
    PROVE  /\ Interrupts(s) /\ q.op = "0x03" => Interrupts(s \o <<q>>)
           /\ Interrupts(s) /\ q.op \in {"vCont;c", "vCont;s"} => OneResume(s \o <<q>>)
           /\ OneResume(s) /\ q.op = "0x03" => OneResume(s \o <<q>>)
           /\ Interrupts(s) => Asking(s \o <<q>>, q)
<1> DEFINE u == s \o <<q>>
<1>1. <<q>> \in Seq(Items) /\ Len(<<q>>) = 1 /\ <<q>>[1] = q /\ DOMAIN <<q>> = {1}
  OBVIOUS
<1>2. /\ u \in Seq(Items) /\ Len(u) = Len(s) + 1 /\ DOMAIN u = 1 .. Len(s) + 1 /\ Len(s) \in Nat
      /\ DOMAIN s = 1 .. Len(s)
      /\ \A i \in DOMAIN s : u[i] = s[i]
  BY <1>1, CatFacts
<1>3. 1 + Len(s) \in DOMAIN u /\ u[1 + Len(s)] = q
  BY <1>1, CatFacts
<1> HIDE DEF u
<1>4. Interrupts(s) /\ q.op = "0x03" => Interrupts(u)
  BY <1>2, <1>3 DEF Interrupts, Only
<1>5. Interrupts(s) => \A i \in DOMAIN u \ {1 + Len(s)} : u[i].op = "0x03"
  BY <1>2 DEF Interrupts, Only
<1>6. Interrupts(s) /\ q.op \in {"vCont;c", "vCont;s"} => OneResume(u)
  BY <1>3, <1>5 DEF OneResume
<1>9. Len(s) \in Nat /\ DOMAIN u = 1 .. Len(s) + 1 /\ \A k \in 1 .. Len(s) : u[k] = s[k]
  BY <1>2
<1>7. ASSUME OneResume(s), q.op = "0x03" PROVE OneResume(u)
  <2>0. PICK i \in 1 .. Len(s) : s[i].op \in {"vCont;c", "vCont;s"} /\ \A j \in DOMAIN s \ {i} : s[j].op = "0x03"
    BY <1>2, <1>7 DEF OneResume
  <2>1. /\ i \in 1 .. Len(s) /\ s[i].op \in {"vCont;c", "vCont;s"}
        /\ \A j \in 1 .. Len(s) : j # i => s[j].op = "0x03"
    BY <2>0, <1>2
  <2>2. i \in DOMAIN u /\ u[i].op \in {"vCont;c", "vCont;s"}
    <3>1. i \in 1 .. Len(s) + 1
      BY <1>9
    <3> QED BY <1>9, <2>1, <3>1
  <2>3. \A j \in DOMAIN u \ {i} : u[j].op = "0x03"
    <3> SUFFICES ASSUME NEW j \in 1 .. Len(s) + 1, j # i PROVE u[j].op = "0x03"
      BY <1>9
    <3>1. CASE j = 1 + Len(s)
      BY <1>3, <1>7, <3>1
    <3>2. CASE j # 1 + Len(s)
      <4>1. j \in 1 .. Len(s)
        BY <1>9, <3>2
      <4> QED BY <1>9, <2>1, <4>1
    <3> QED BY <3>1, <3>2
  <2> QED BY <2>2, <2>3 DEF OneResume
<1>8. Interrupts(s) => Asking(u, q)
  BY <1>2, <1>3, <1>5 DEF Asking
<1> QED BY <1>4, <1>6, <1>7, <1>8 DEF u

LEMMA WireRead ==
    ASSUME NEW s \in Seq(Items), s # <<>>
    PROVE  /\ Interrupts(s) => Head(s).op = "0x03" /\ Interrupts(Tail(s))
           /\ OneResume(s) /\ Head(s).op = "0x03" => OneResume(Tail(s))
           /\ OneResume(s) /\ Head(s).op # "0x03" =>
                 Head(s).op \in {"vCont;c", "vCont;s"} /\ Interrupts(Tail(s))
           /\ \A q : Asking(s, q) /\ Head(s).op = "0x03" /\ q.op # "0x03" => Asking(Tail(s), q)
           /\ \A q : Asking(s, q) /\ Head(s).op # "0x03" => Head(s) = q /\ Tail(s) = <<>>
<1>1. /\ Head(s) = s[1] /\ 1 \in DOMAIN s /\ Tail(s) \in Seq(Items) /\ Len(Tail(s)) = Len(s) - 1
      /\ Len(s) \in Nat /\ DOMAIN s = 1 .. Len(s) /\ Len(s) > 0
      /\ DOMAIN Tail(s) = 1 .. Len(s) - 1
      /\ \A i \in DOMAIN Tail(s) : Tail(s)[i] = s[i + 1] /\ i + 1 \in DOMAIN s
  BY TailFacts
<1>2. Interrupts(s) => Head(s).op = "0x03" /\ Interrupts(Tail(s))
  BY HasTail DEF Interrupts
<1>5. /\ Len(s) \in Nat /\ DOMAIN Tail(s) = 1 .. Len(s) - 1
      /\ \A k \in 1 .. Len(s) - 1 : Tail(s)[k] = s[k + 1]
  BY <1>1
<1>3. ASSUME OneResume(s)
      PROVE  /\ Head(s).op = "0x03" => OneResume(Tail(s))
             /\ Head(s).op # "0x03" => Head(s).op \in {"vCont;c", "vCont;s"} /\ Interrupts(Tail(s))
  <2>0. PICK i \in 1 .. Len(s) : s[i].op \in {"vCont;c", "vCont;s"} /\ \A j \in DOMAIN s \ {i} : s[j].op = "0x03"
    BY <1>1, <1>3 DEF OneResume
  <2>1. /\ i \in 1 .. Len(s) /\ s[i].op \in {"vCont;c", "vCont;s"}
        /\ \A j \in 1 .. Len(s) : j # i => s[j].op = "0x03"
    BY <2>0, <1>1
  <2>2. CASE i = 1
    <3>1. \A j \in DOMAIN Tail(s) : Tail(s)[j].op = "0x03"
      <4> SUFFICES ASSUME NEW j \in 1 .. Len(s) - 1 PROVE Tail(s)[j].op = "0x03"
        BY <1>5
      <4>1. j + 1 \in 1 .. Len(s) /\ j + 1 # 1
        BY <1>5
      <4> QED BY <1>5, <2>1, <2>2, <4>1
    <3> QED BY <1>1, <2>1, <2>2, <3>1 DEF Interrupts, Only
  <2>3. CASE i # 1
    <3>1. s[1].op = "0x03"
      BY <1>1, <2>1, <2>3
    <3>2. i - 1 \in DOMAIN Tail(s) /\ Tail(s)[i - 1] = s[i]
      BY <1>1, <2>3
    <3>3. \A j \in DOMAIN Tail(s) \ {i - 1} : Tail(s)[j].op = "0x03"
      <4> SUFFICES ASSUME NEW j \in 1 .. Len(s) - 1, j # i - 1 PROVE Tail(s)[j].op = "0x03"
        BY <1>5
      <4>1. j + 1 \in 1 .. Len(s) /\ j + 1 # i
        BY <1>5
      <4> QED BY <1>5, <2>1, <4>1
    <3> QED BY <1>1, <2>1, <3>1, <3>2, <3>3 DEF OneResume
  <2> QED BY <2>2, <2>3
<1>4. ASSUME NEW q, Asking(s, q)
      PROVE  /\ Head(s).op = "0x03" /\ q.op # "0x03" => Asking(Tail(s), q)
             /\ Head(s).op # "0x03" => Head(s) = q /\ Tail(s) = <<>>
  <2>1. s[Len(s)] = q /\ \A i \in DOMAIN s \ {Len(s)} : s[i].op = "0x03"
    BY <1>4 DEF Asking
  <2>2. CASE Len(s) = 1
    <3>1. Tail(s) = <<>>
      BY <1>1, <2>2
    <3> QED BY <1>1, <2>1, <2>2, <3>1
  <2>3. CASE Len(s) # 1
    <3>1. s[1].op = "0x03" /\ Tail(s) # <<>>
      BY <1>1, <2>1, <2>3
    <3>2. Tail(s)[Len(Tail(s))] = q
      BY <1>1, <2>1, <2>3
    <3>3. \A i \in DOMAIN Tail(s) \ {Len(Tail(s))} : Tail(s)[i].op = "0x03"
      BY <1>1, <2>1, <2>3
    <3> QED BY <1>1, <3>1, <3>2, <3>3 DEF Asking
  <2> QED BY <2>2, <2>3
<1> QED BY <1>2, <1>3, <1>4


(***************************************************************************)
(* Types.                                                                  *)
(***************************************************************************)

LEMMA LocalItems ==
    /\ \A op \in Locals \cup {"m", "D", "qSupported", "?", "threads", "0x03", "vCont;c", "vCont;s"} :
          op # "stopped" => Req(op, 0) \in Items
    /\ Handle \in Seq(Items) /\ Cont \in Seq(Items)
    /\ \A t \in Tids : Req("g", t) \in Items
    /\ \A a \in Points : Req("Z", a) \in Items /\ Req("z", a) \in Items
    /\ \A op \in {"vCont;c", "vCont;s"}, t \in Tids \cup {0} : Req(op, t) \in Items
<1>1. ASSUME NEW op \in Locals \cup {"m", "D", "qSupported", "?", "threads", "0x03", "vCont;c", "vCont;s"},
             op # "stopped"
      PROVE  Req(op, 0) \in Items
  <2>1. op \in Ops_ /\ op \notin {"g", "T", "stopped"} /\ op \notin {"Z", "z"}
    BY <1>1 DEF Ops_, Locals, Requests, Handshake
  <2> QED BY <2>1, ReqItem
<1>2. Req("handle", 0) \in Items /\ Req("cont", 0) \in Items
  BY <1>1 DEF Locals
<1>3. Handle \in Seq(Items) /\ Cont \in Seq(Items)
  BY <1>2 DEF Handle, Cont
<1>4. ASSUME NEW t \in Tids PROVE Req("g", t) \in Items
  <2>1. "g" \in Ops_ /\ t \in Nat
    BY FiniteAddrs DEF Ops_, Requests
  <2> QED BY <2>1, ReqItem
<1>5. ASSUME NEW a \in Points PROVE Req("Z", a) \in Items /\ Req("z", a) \in Items
  <2>1. "Z" \in Ops_ /\ "z" \in Ops_ /\ a \in Nat
    BY FiniteAddrs DEF Ops_, Requests
  <2> QED BY <2>1, ReqItem
<1>6. ASSUME NEW op \in {"vCont;c", "vCont;s"}, NEW t \in Tids \cup {0} PROVE Req(op, t) \in Items
  <2>1. op \in Ops_ /\ t \in Nat /\ op \notin {"g", "T", "stopped"} /\ op \notin {"Z", "z"}
    BY FiniteAddrs DEF Ops_
  <2> QED BY <2>1, ReqItem
<1> QED BY <1>1, <1>3, <1>4, <1>5, <1>6

LEMMA EachItems ==
    /\ Each(Tids, "g") \in Seq(Items)
    /\ \A S \in SUBSET Addrs : Each(S, "Z") \in Seq(Items) /\ Each(S, "z") \in Seq(Items)
<1>1. Each(Tids, "g") \in Seq(Items)
  BY LocalItems, FiniteAddrs, EachFacts
<1>2. ASSUME NEW S \in SUBSET Addrs PROVE Each(S, "Z") \in Seq(Items) /\ Each(S, "z") \in Seq(Items)
  <2>1. IsFiniteSet(S) /\ \A x \in S : x \in Points
    BY FiniteAddrs
  <2>2. (\A x \in S : Req("Z", x) \in Items) /\ (\A x \in S : Req("z", x) \in Items)
    BY <2>1, LocalItems
  <2> QED BY <2>1, <2>2, EachFacts
<1> QED BY <1>1, <1>2

LEMMA TypesKept ==
    /\ UNCHANGED stubVars /\ StubType => StubType'
    /\ UNCHANGED netVars /\ NetType => NetType'
    /\ UNCHANGED connVars /\ ConnType => ConnType'
    /\ UNCHANGED stepVars /\ StepType => StepType'
    /\ UNCHANGED bpVars /\ BpType => BpType'
    /\ UNCHANGED dbgVars /\ DbgType => DbgType'
    /\ UNCHANGED runVars /\ RunType => RunType'
<1>1. UNCHANGED stubVars /\ StubType => StubType'
  BY DEF stubVars, StubType
<1>2. UNCHANGED netVars /\ NetType => NetType'
  BY DEF netVars, NetType
<1>3. UNCHANGED connVars /\ ConnType => ConnType'
  BY DEF connVars, ConnType
<1>4. UNCHANGED stepVars /\ StepType => StepType'
  BY DEF stepVars, StepType
<1>5. UNCHANGED bpVars /\ BpType => BpType'
  BY DEF bpVars, BpType
<1>6. UNCHANGED dbgVars /\ DbgType => DbgType'
  BY DEF dbgVars, DbgType
<1>7. UNCHANGED runVars /\ RunType => RunType'
  BY DEF runVars, RunType
<1> QED BY <1>1, <1>2, <1>3, <1>4, <1>5, <1>6, <1>7

LEMMA TypesGiveTypeOK == TypeInv => TypeOK
<1> SUFFICES ASSUME TypeInv PROVE TypeOK
  OBVIOUS
<1>1. pending \in [tid : Tids \cup {0}, addr : Addrs \cup {0}]
  BY DEF TypeInv, StepType, NoPending
<1>2. /\ run \in BOOLEAN /\ alive \in BOOLEAN /\ inFlight \in BOOLEAN
      /\ guest \in [Tids -> Addrs \cup {0}] /\ ins \subseteq Points
  BY DEF TypeInv, StubType, NetType, ConnType
<1>3. /\ regs \in [Tids -> Addrs \cup {0}]
      /\ target \in {"Connecting", "Running", "Stepping", "Suspended", "Exited"}
      /\ tstate \in [Tids -> {"Running", "Suspended"}]
      /\ stopBps \in BOOLEAN /\ waitSyms \in BOOLEAN /\ loaded \in BOOLEAN
  BY DEF TypeInv, DbgType
<1>4. stepping \in [tid : Tids \cup {0}, single : BOOLEAN, keep : BOOLEAN, cursor : BOOLEAN]
  BY DEF TypeInv, StepType
<1>5. /\ bp \in [Addrs -> {"none", "new", "active"}]
      /\ refs \in [Addrs -> SUBSET {"user", "step"}]
      /\ armed \in [Addrs -> {"gone", "no", "yes", "err"}]
      /\ slot \in {"free", "active", "pushed"}
  BY DEF TypeInv, BpType
<1>6. await \in BOOLEAN /\ late \in BOOLEAN /\ (await => ~Idle /\ Head(todo).op \in Requests)
  BY DEF TypeInv, RunType, Idle
<1> QED BY <1>1, <1>2, <1>3, <1>4, <1>5, <1>6 DEF TypeOK

LEMMA WriteType ==
    ASSUME NetType, NEW ps \in Seq(Items), Write(ps)
    PROVE  c2s' \in Seq(Items)
BY CatFacts DEF Write, NetType

\* What a handler does first is a request while an answer is awaited.
LEMMA AwaitHead ==
    ASSUME RunType
    PROVE  /\ Idle => ~await
           /\ ~Idle => /\ todo # <<>> /\ Head(todo) \in Items /\ Head(todo) = todo[1] /\ 1 \in DOMAIN todo
                       /\ Tail(todo) \in Seq(Items)
                       /\ Head(todo).op \in Locals => ~await
           /\ await => ~Idle /\ Head(todo).op \in Requests
<1>1. ~Idle => todo # <<>>
  BY DEF Idle
<1>2. ~Idle => /\ Head(todo) \in Items /\ Head(todo) = todo[1] /\ 1 \in DOMAIN todo
               /\ Tail(todo) \in Seq(Items)
  BY <1>1, TailFacts DEF RunType
<1>3. \A op \in Locals : op \notin Requests
  BY DEF Locals, Requests, Handshake
<1> QED BY <1>1, <1>2, <1>3 DEF RunType, Idle

LEMMA ArrangeType ==
    ASSUME NetType, stopBps \in BOOLEAN, NEW needed \in BOOLEAN, NEW rest \in Seq(Items), Arrange(needed, rest)
    PROVE  todo' \in Seq(Items) /\ c2s' \in Seq(Items) /\ stopBps' \in BOOLEAN
<1>1. CASE needed /\ AnyRunning
  <2>1. Write(<<Req("0x03", 0)>>) /\ todo' = rest /\ stopBps' = TRUE
    BY <1>1 DEF Arrange
  <2>2. Req("0x03", 0) \in Items
    BY LocalItems
  <2>3. <<Req("0x03", 0)>> \in Seq(Items)
    BY <2>2
  <2> QED BY <2>1, <2>3, WriteType
<1>2. CASE ~(needed /\ AnyRunning)
  <2>1. todo' = (IF needed THEN Handle ELSE <<>>) \o rest /\ UNCHANGED <<stopBps, c2s>>
    BY <1>2 DEF Arrange
  <2>2. (IF needed THEN Handle ELSE <<>>) \in Seq(Items)
    <3>1. <<>> \in Seq(Items)
      OBVIOUS
    <3> QED BY <3>1, LocalItems
  <2>3. todo' \in Seq(Items)
    BY <2>1, <2>2, CatFacts
  <2> QED BY <2>1, <2>3 DEF NetType
<1> QED BY <1>1, <1>2

LEMMA LocatedType ==
    ASSUME BpType, Located
    PROVE  armed' \in [Addrs -> {"gone", "no", "yes", "err"}]
BY DEF BpType, Located

LEMMA CancelType ==
    ASSUME refs \in [Addrs -> SUBSET {"user", "step"}], CancelStepping
    PROVE  refs' \in [Addrs -> SUBSET {"user", "step"}] /\ StepType'
<1>1. refs' \in [Addrs -> SUBSET {"user", "step"}]
  BY DEF CancelStepping, NoStepRefs
<1>2. stepping' = NoStep /\ pending' = NoPending
  BY DEF CancelStepping
<1>3. NoStep \in [tid : Tids \cup {0}, single : BOOLEAN, keep : BOOLEAN, cursor : BOOLEAN]
  BY DEF NoStep
<1> QED BY <1>1, <1>2, <1>3 DEF StepType

LEMMA ActivateType ==
    ASSUME BpType, NEW as \in SUBSET Addrs, NEW r \in [Addrs -> SUBSET {"user", "step"}],
           ActivateBreakpoints(as, r)
    PROVE  /\ bp' \in [Addrs -> {"none", "new", "active"}]
           /\ refs' \in [Addrs -> SUBSET {"user", "step"}]
           /\ armed' \in [Addrs -> {"gone", "no", "yes", "err"}]
<1>1. Located
  BY DEF ActivateBreakpoints
<1>2. bp' \in [Addrs -> {"none", "new", "active"}]
  BY DEF ActivateBreakpoints, BpType
<1>3. refs' \in [Addrs -> SUBSET {"user", "step"}]
  BY DEF ActivateBreakpoints, BpType
<1> QED BY <1>1, <1>2, <1>3, LocatedType

\* What the answer to a request changes, apart from the handler itself.
RequestEffect(q, good, val) ==
    /\ await' = FALSE
    /\ todo' = IF q.op \in Handshake /\ ~good THEN <<>> ELSE Tail(todo)
    /\ regs' = IF q.op = "g" /\ good THEN [regs EXCEPT ![q.arg] = val] ELSE regs
    /\ q.op = "Z" /\ q.arg # Data =>
          armed' = [armed EXCEPT ![q.arg] = IF good THEN "yes" ELSE "err"]
    /\ q.op = "z" /\ q.arg # Data => armed' = [armed EXCEPT ![q.arg] = "gone"]
    /\ q.op \notin {"Z", "z"} \/ q.arg = Data => armed' = armed
    /\ slot' = IF q.op = "Z" /\ q.arg = Data
               THEN (IF good THEN "pushed" ELSE "free") ELSE slot
    /\ target' = IF q.op \in Handshake /\ ~good THEN "Exited" ELSE target
    /\ UNCHANGED <<stepVars, bp, refs, tstate, stopBps, waitSyms, loaded, faults>>

LEMMA RequestDoneFacts ==
    ASSUME NEW good, NEW val, RequestDone(good, val)
    PROVE  RequestEffect(Head(todo), good, val)
<1> DEFINE q == Head(todo)
<1>1. CASE q.op = "Z" /\ q.arg # Data
  BY <1>1 DEF RequestDone, RequestEffect
<1>2. CASE q.op = "z" /\ q.arg # Data
  BY <1>2 DEF RequestDone, RequestEffect
<1>3. CASE q.op \notin {"Z", "z"} \/ q.arg = Data
  BY <1>3 DEF RequestDone, RequestEffect
<1> QED BY <1>1, <1>2, <1>3

LEMMA RequestDoneType ==
    ASSUME TypeInv, ~Idle, NEW good \in BOOLEAN, NEW val, RequestDone(good, val),
           Head(todo).op = "g" /\ good => val \in Addrs \cup {0}, late' \in BOOLEAN
    PROVE  StepType' /\ BpType' /\ DbgType' /\ RunType'
<1> DEFINE q == Head(todo)
<1>1. q \in Items /\ Tail(todo) \in Seq(Items)
  BY AwaitHead DEF TypeInv
<1>2. (q.op = "g" => q.arg \in Tids) /\ (q.op \in {"Z", "z"} => q.arg \in Points)
  BY <1>1, ItemFields
<1>0. q = Head(todo)
  OBVIOUS
<1> HIDE DEF q
<1>3. /\ await' = FALSE
      /\ todo' = IF q.op \in Handshake /\ ~good THEN <<>> ELSE Tail(todo)
      /\ regs' = IF q.op = "g" /\ good THEN [regs EXCEPT ![q.arg] = val] ELSE regs
      /\ q.op = "Z" /\ q.arg # Data =>
            armed' = [armed EXCEPT ![q.arg] = IF good THEN "yes" ELSE "err"]
      /\ q.op = "z" /\ q.arg # Data => armed' = [armed EXCEPT ![q.arg] = "gone"]
      /\ q.op \notin {"Z", "z"} \/ q.arg = Data => armed' = armed
      /\ slot' = IF q.op = "Z" /\ q.arg = Data THEN (IF good THEN "pushed" ELSE "free") ELSE slot
      /\ target' = IF q.op \in Handshake /\ ~good THEN "Exited" ELSE target
      /\ UNCHANGED <<stepVars, bp, refs, tstate, stopBps, waitSyms, loaded, faults>>
  <2>1. RequestEffect(q, good, val)
    BY <1>0, RequestDoneFacts
  <2> QED BY <2>1 DEF RequestEffect
<1>4. <<>> \in Seq(Items)
  OBVIOUS
<1>5. todo' \in Seq(Items)
  BY <1>1, <1>3, <1>4
<1>6. RunType'
  BY <1>3, <1>5 DEF RunType
<1>7. armed' \in [Addrs -> {"gone", "no", "yes", "err"}]
  BY <1>2, <1>3, FiniteAddrs DEF TypeInv, BpType
<1>8. slot' \in {"free", "active", "pushed"}
  BY <1>3 DEF TypeInv, BpType
<1>9. BpType'
  BY <1>3, <1>7, <1>8 DEF BpType, TypeInv
<1>10. q.op = "g" /\ good => val \in Addrs \cup {0}
  BY <1>0
<1>11. regs' \in [Tids -> Addrs \cup {0}]
  <2>1. CASE q.op = "g" /\ good
    BY <1>2, <1>3, <1>10, <2>1 DEF DbgType, TypeInv
  <2>2. CASE ~(q.op = "g" /\ good)
    <3>1. regs' = regs
      BY <1>3, <2>2
    <3> QED BY <3>1 DEF DbgType, TypeInv
  <2> QED BY <2>1, <2>2
<1>12. target' \in {"Connecting", "Running", "Stepping", "Suspended", "Exited"}
  BY <1>3 DEF DbgType, TypeInv
<1>13. DbgType'
  BY <1>3, <1>11, <1>12 DEF DbgType, TypeInv
<1>14. StepType'
  BY <1>3, TypesKept DEF TypeInv
<1> QED BY <1>6, <1>9, <1>13, <1>14

\* An answer that looks like the registers holds registers.
LEMMA AnswerLooks ==
    ASSUME NEW q, NEW p \in Replies, q.op = "g", LooksRight(q, p)
    PROVE  p.val \in Addrs \cup {0}
<1>1. p.op = "g"
  BY DEF LooksRight
<1> QED BY <1>1, ReplyFields

LEMMA SendPacketType ==
    ASSUME TypeInv, SendPacket PROVE TypeInv'
<1>1. ~Idle /\ ~await /\ Head(todo).op \in Requests /\ UNCHANGED <<stubVars, s2c, alive, connVars, late>>
  BY DEF SendPacket
<1>2. StubType' /\ ConnType' /\ late' \in BOOLEAN
  BY <1>1, TypesKept DEF TypeInv, RunType
<1>3. CASE inFlight \/ ~alive
  <2>1. RequestDone(FALSE, 0) /\ UNCHANGED c2s
    BY <1>3 DEF SendPacket
  <2>2. NetType'
    BY <1>1, <2>1 DEF NetType, TypeInv
  <2>3. StepType' /\ BpType' /\ DbgType' /\ RunType'
    BY <1>1, <1>2, <2>1, RequestDoneType
  <2> QED BY <1>2, <2>2, <2>3 DEF TypeInv
<1>4. CASE ~(inFlight \/ ~alive)
  <2>1. /\ Write(<<Head(todo)>>) /\ await' = TRUE /\ UNCHANGED <<todo, stepVars, bpVars, dbgVars, faults>>
    BY <1>4 DEF SendPacket
  <2>2. Head(todo) \in Items
    BY <1>1, AwaitHead DEF TypeInv
  <2>3. <<Head(todo)>> \in Seq(Items)
    BY <2>2
  <2>4. NetType'
    BY <1>1, <2>1, <2>3, WriteType DEF TypeInv, NetType
  <2>5. StepType' /\ BpType' /\ DbgType'
    BY <2>1, TypesKept DEF TypeInv
  <2>6. RunType'
    BY <1>1, <2>1 DEF TypeInv, RunType, Idle
  <2> QED BY <1>2, <2>4, <2>5, <2>6 DEF TypeInv
<1> QED BY <1>3, <1>4

LEMMA WaitReplyType ==
    ASSUME TypeInv, WaitReply PROVE TypeInv'
<1>1. await /\ ~Idle /\ UNCHANGED <<stubVars, c2s, alive, inFlight, late>>
  BY AwaitHead DEF WaitReply, TypeInv
<1>2. StubType' /\ late' \in BOOLEAN
  BY <1>1, TypesKept DEF TypeInv, RunType
<1>3. ASSUME NEW p \in Replies, RequestDone(LooksRight(Head(todo), p), p.val),
             s2c' \in Seq(Replies), orphans' \in Seq(Replies)
      PROVE  TypeInv'
  <2>1. LooksRight(Head(todo), p) \in BOOLEAN
    BY DEF LooksRight, IsStop
  <2>2. Head(todo).op = "g" /\ LooksRight(Head(todo), p) => p.val \in Addrs \cup {0}
    BY AnswerLooks
  <2>3. StepType' /\ BpType' /\ DbgType' /\ RunType'
    BY <1>1, <1>2, <1>3, <2>1, <2>2, RequestDoneType
  <2>4. NetType' /\ ConnType'
    BY <1>1, <1>3 DEF NetType, ConnType, TypeInv
  <2> QED BY <1>2, <2>3, <2>4 DEF TypeInv
<1>4. CASE orphans # <<>> /\ RequestDone(LooksRight(Head(todo), Head(orphans)), Head(orphans).val)
           /\ orphans' = Tail(orphans) /\ UNCHANGED s2c
  <2>1. Head(orphans) \in Replies /\ Tail(orphans) \in Seq(Replies) /\ s2c \in Seq(Replies)
    BY <1>4, TailFacts DEF TypeInv, ConnType, NetType
  <2> QED BY <1>3, <1>4, <2>1
<1>5. CASE s2c # <<>> /\ RequestDone(LooksRight(Head(todo), Head(s2c)), Head(s2c).val)
           /\ s2c' = Tail(s2c) /\ UNCHANGED orphans
  <2>1. Head(s2c) \in Replies /\ Tail(s2c) \in Seq(Replies) /\ orphans \in Seq(Replies)
    BY <1>5, TailFacts DEF TypeInv, ConnType, NetType
  <2> QED BY <1>3, <1>5, <2>1
<1> QED BY <1>4, <1>5 DEF WaitReply

LEMMA WaitReplyFailsType ==
    ASSUME TypeInv, WaitReplyFails PROVE TypeInv'
<1>1. await /\ ~Idle /\ UNCHANGED <<stubVars, netVars, connVars>> /\ RequestDone(FALSE, 0)
  BY AwaitHead DEF WaitReplyFails, TypeInv
<1>2. late' \in BOOLEAN
  BY DEF WaitReplyFails, ReadFails, TypeInv, RunType
<1>3. StubType' /\ NetType' /\ ConnType'
  BY <1>1, TypesKept DEF TypeInv
<1>4. StepType' /\ BpType' /\ DbgType' /\ RunType'
  BY <1>1, <1>2, RequestDoneType
<1> QED BY <1>3, <1>4 DEF TypeInv

\* The stub's answers are answers.
LEMMA AnswerType ==
    ASSUME StubType, NEW p \in Items, p.op \in Requests, NEW r \in Answer(p)
    PROVE  /\ r \in Replies
           /\ Matches(r, p)
           /\ p.op = "g" => r.val = guest[p.arg]
<1>1. /\ p.arg \in Nat /\ (p.op = "g" => p.arg \in Tids) /\ (p.op \in {"Z", "z"} => p.arg \in Points)
  BY ItemFields
<1>2. CASE p.op = "g"
  <2>1. r = Packet("g", p.arg, guest[p.arg])
    BY <1>2 DEF Answer
  <2>2. guest[p.arg] \in Addrs \cup {0} /\ guest[p.arg] \in Nat /\ "g" \in Requests \cup {"T"}
    BY <1>1, <1>2, FiniteAddrs DEF StubType, Requests
  <2>3. r \in Replies
    BY <1>1, <1>2, <2>1, <2>2, PacketReply
  <2> QED BY <1>2, <2>1, <2>3, PacketFields DEF Matches
<1>3. CASE p.op = "?"
  <2>1. PICK t \in Tids : r = Packet("T", t, 0)
    BY <1>3 DEF Answer
  <2>2. t \in Nat /\ "T" \in Requests \cup {"T"}
    BY FiniteAddrs
  <2>3. r \in Replies
    BY <2>1, <2>2, PacketReply
  <2> QED BY <1>3, <2>1, <2>3, PacketFields DEF Matches, IsStop
<1>4. CASE p.op \notin {"g", "?"}
  <2>1. \E v \in {0, 1} : r = Packet(p.op, p.arg, v)
    BY <1>4 DEF Answer
  <2>2. PICK v \in {0, 1} : r = Packet(p.op, p.arg, v)
    BY <2>1
  <2>3. p.op \notin {"g", "T", "stopped"} /\ v \in Nat
    BY <1>4 DEF Requests, Handshake
  <2>4. r \in Replies
    BY <1>1, <2>2, <2>3, PacketReply
  <2> QED BY <1>4, <2>2, <2>4, PacketFields DEF Matches
<1> QED BY <1>2, <1>3, <1>4

LEMMA StopReply ==
    ASSUME NEW t \in Tids, NEW why \in {0, 1}
    PROVE  Packet("T", t, why) \in Replies
<1>1. "T" \in Requests \cup {"T"} /\ t \in Nat /\ why \in Nat
  BY FiniteAddrs
<1> QED BY <1>1, PacketReply

LEMMA StubReceivesType ==
    ASSUME TypeInv, StubReceives PROVE TypeInv'
<1>1. c2s # <<>> /\ c2s' = Tail(c2s) /\ UNCHANGED <<alive, connVars, stepVars, bpVars, dbgVars, runVars>>
  BY DEF StubReceives
<1>2. ConnType' /\ StepType' /\ BpType' /\ DbgType' /\ RunType'
  BY <1>1, TypesKept DEF TypeInv
<1>3. Head(c2s) \in Items /\ Tail(c2s) \in Seq(Items) /\ s2c \in Seq(Replies) /\ alive' \in BOOLEAN
  BY <1>1, TailFacts DEF TypeInv, NetType
<1>4. SUFFICES StubType' /\ s2c' \in Seq(Replies)
  BY <1>1, <1>2, <1>3 DEF TypeInv, NetType
<1>5. StubType
  BY DEF TypeInv
<1>6. ASSUME NEW t \in Tids, NEW why \in {0, 1}, StopGuest(t, why)
      PROVE  run' \in BOOLEAN /\ s2c' \in Seq(Replies)
  BY <1>3, <1>6, StopReply, AppendFacts DEF StopGuest
<1>7. CASE StubAnswers
  <2>1. PICK r \in Answer(Head(c2s)) :
           /\ s2c' = Append(s2c, r)
           /\ ins' = CASE Head(c2s).op = "Z" /\ r.val = 1 -> ins \cup {Head(c2s).arg}
                       [] Head(c2s).op = "z" -> ins \ {Head(c2s).arg}
                       [] Head(c2s).op = "D" -> {}
                       [] OTHER      -> ins
    BY <1>7 DEF StubAnswers
  <2>2. Head(c2s).op \in Requests /\ run' \in BOOLEAN /\ guest' = guest
    BY <1>7 DEF StubAnswers
  <2>3. r \in Replies
    BY <1>3, <1>5, <2>2, AnswerType
  <2>4. s2c' \in Seq(Replies)
    BY <1>3, <2>1, <2>3, AppendFacts
  <2>5. Head(c2s).op = "Z" => Head(c2s).arg \in Points
    BY <1>3, ItemFields
  <2>6. ins' \subseteq Points
    <3>1. ins \subseteq Points
      BY <1>5 DEF StubType
    <3>2. \/ ins' = ins \cup {Head(c2s).arg} /\ Head(c2s).op = "Z"
          \/ ins' = ins \ {Head(c2s).arg} \/ ins' = {} \/ ins' = ins
      BY <2>1
    <3> QED BY <2>5, <3>1, <3>2
  <2> QED BY <1>5, <2>2, <2>4, <2>6 DEF StubType
<1>8. CASE StubResumes
  BY <1>3, <1>5, <1>8 DEF StubResumes, StubType
<1>9. CASE StubSteps
  <2>1. PICK t \in Tids, pc \in Addrs \cup {0} : guest' = [guest EXCEPT ![t] = pc] /\ StopGuest(t, 0)
    BY <1>9 DEF StubSteps
  <2>2. run' \in BOOLEAN /\ s2c' \in Seq(Replies)
    BY <1>6, <2>1
  <2>3. guest' \in [Tids -> Addrs \cup {0}] /\ ins' \subseteq Points
    BY <1>5, <1>9, <2>1 DEF StubSteps, StubType
  <2> QED BY <2>2, <2>3 DEF StubType
<1>10. CASE StubInterrupted
  <2>1. CASE UNCHANGED stubVars /\ UNCHANGED s2c
    BY <1>3, <1>5, <2>1, TypesKept
  <2>2. CASE /\ \E t \in Tids, where \in [Tids -> Addrs \cup {0}] : StopGuest(t, 0) /\ guest' = where
             /\ UNCHANGED ins
    <3>1. PICK t \in Tids, where \in [Tids -> Addrs \cup {0}] : StopGuest(t, 0) /\ guest' = where
      BY <2>2
    <3>2. run' \in BOOLEAN /\ s2c' \in Seq(Replies)
      BY <1>6, <3>1
    <3> QED BY <1>5, <2>2, <3>1, <3>2 DEF StubType
  <2> QED BY <1>10, <2>1, <2>2 DEF StubInterrupted
<1>11. CASE StubDisturbed
  <2>1. CASE UNCHANGED stubVars /\ UNCHANGED s2c
    BY <1>3, <1>5, <2>1, TypesKept
  <2>2. CASE \E t \in Tids : StopGuest(t, 0) /\ UNCHANGED <<guest, ins>>
    <3>1. PICK t \in Tids : StopGuest(t, 0) /\ UNCHANGED <<guest, ins>>
      BY <2>2
    <3>2. run' \in BOOLEAN /\ s2c' \in Seq(Replies)
      BY <1>6, <3>1
    <3> QED BY <1>5, <3>1, <3>2 DEF StubType
  <2> QED BY <1>11, <2>1, <2>2 DEF StubDisturbed
<1> QED BY <1>7, <1>8, <1>9, <1>10, <1>11 DEF StubReceives

LEMMA GuestStopsType ==
    ASSUME TypeInv, GuestStops PROVE TypeInv'
<1>1. PICK t \in Tids, where \in [Tids -> Addrs \cup {0}] :
        guest' = where /\ \E why \in {0, 1} : StopGuest(t, why)
  BY DEF GuestStops
<1>2. PICK why \in {0, 1} : StopGuest(t, why)
  BY <1>1
<1>3. UNCHANGED <<ins, c2s, alive, connVars, stepVars, bpVars, dbgVars, runVars>>
  BY DEF GuestStops
<1>4. ConnType' /\ StepType' /\ BpType' /\ DbgType' /\ RunType'
  BY <1>3, TypesKept DEF TypeInv
<1>5. StubType'
  BY <1>1, <1>2, <1>3 DEF TypeInv, StubType, StopGuest
<1>6. s2c' \in Seq(Replies)
  BY <1>2, StopReply, AppendFacts DEF TypeInv, NetType, StopGuest
<1>7. NetType'
  BY <1>3, <1>6 DEF TypeInv, NetType
<1> QED BY <1>4, <1>5, <1>7 DEF TypeInv

LEMMA ConnectionLostType ==
    ASSUME TypeInv, ConnectionLost PROVE TypeInv'
<1>1. UNCHANGED <<stubVars, connVars, stepVars, bpVars, dbgVars, runVars>>
  BY DEF ConnectionLost
<1>2. StubType' /\ ConnType' /\ StepType' /\ BpType' /\ DbgType' /\ RunType'
  BY <1>1, TypesKept DEF TypeInv
<1>3. <<>> \in Seq(Items) /\ <<>> \in Seq(Replies)
  OBVIOUS
<1>4. NetType'
  BY <1>3 DEF ConnectionLost, NetType
<1> QED BY <1>2, <1>4 DEF TypeInv

\* A handler's own steps: no answer is awaited before or after.
LEMMA LocalRunType ==
    ASSUME RunType, Idle \/ Head(todo).op \in Locals, UNCHANGED await, late' \in BOOLEAN,
           todo' \in Seq(Items)
    PROVE  RunType' /\ ~await /\ ~await'
<1>1. ~await
  BY AwaitHead
<1> QED BY <1>1 DEF RunType

LEMMA ShortItems ==
    /\ <<>> \in Seq(Items)
    /\ \A x \in Items : <<x>> \in Seq(Items) /\ Len(<<x>>) = 1
    /\ \A p \in Replies : IsStop(p) => Packet("stopped", p.arg, p.val) \in Items
<1>1. <<>> \in Seq(Items)
  OBVIOUS
<1>2. ASSUME NEW x \in Items PROVE <<x>> \in Seq(Items) /\ Len(<<x>>) = 1
  OBVIOUS
<1>3. ASSUME NEW p \in Replies, IsStop(p) PROVE Packet("stopped", p.arg, p.val) \in Items
  <2>1. p.op = "T" /\ p \in Items
    BY <1>3, ReplyFields DEF IsStop
  <2>2. p.arg \in Tids /\ p.arg \in Nat /\ p.val \in Nat /\ "stopped" \in Ops_
    BY <2>1, ItemFields DEF Ops_, Locals
  <2> QED BY <2>2, PacketItem
<1> QED BY <1>1, <1>2, <1>3

LEMMA HandleBreakpointsType ==
    ASSUME TypeInv, HandleBreakpoints PROVE TypeInv'
<1> DEFINE Zs == {a \in Addrs : refs[a] # {} /\ armed[a] # "yes"}
           zs == {a \in Addrs : refs[a] = {} /\ armed[a] = "yes"}
           w == IF slot = "active" THEN <<Req("Z", Data)>> ELSE <<>>
<1>1. ~Idle /\ Head(todo).op = "handle" /\ todo' = Each(zs, "z") \o Each(Zs, "Z") \o w \o Tail(todo)
  BY DEF HandleBreakpoints
<1>2. UNCHANGED <<stubVars, netVars, connVars, stepVars, bp, refs, slot, dbgVars, await, late, faults>>
  BY DEF HandleBreakpoints
<1>3. StubType' /\ NetType' /\ ConnType' /\ StepType' /\ DbgType'
  BY <1>2, TypesKept DEF TypeInv
<1>4. BpType'
  BY <1>2 DEF HandleBreakpoints, TypeInv, BpType
<1>5. w \in Seq(Items)
  <2>1. Req("Z", Data) \in Items
    BY LocalItems, FiniteAddrs
  <2> QED BY <2>1, ShortItems
<1>6. Each(zs, "z") \in Seq(Items) /\ Each(Zs, "Z") \in Seq(Items) /\ Tail(todo) \in Seq(Items)
  BY <1>1, EachItems, AwaitHead DEF TypeInv
<1> HIDE DEF w, zs, Zs
<1>7. todo' \in Seq(Items)
  BY <1>1, <1>5, <1>6, CatFacts
<1>8. RunType'
  BY <1>1, <1>2, <1>7, LocalRunType DEF Locals, TypeInv, RunType
<1> QED BY <1>3, <1>4, <1>8 DEF TypeInv

LEMMA RemoteSendContType ==
    ASSUME TypeInv, RemoteSendCont PROVE TypeInv'
<1>1. /\ ~Idle /\ Head(todo).op = "cont" /\ todo' = Tail(todo)
      /\ UNCHANGED <<stubVars, s2c, alive, orphans, regs, stopBps, loaded, bp, armed, slot, await, late, faults>>
  BY DEF RemoteSendCont
<1>2. RunType'
  BY <1>1, LocalRunType, AwaitHead DEF Locals, TypeInv, RunType
<1>3. StubType'
  BY <1>1, TypesKept DEF TypeInv
<1>4. CASE UNCHANGED <<c2s, inFlight, tstate, target, waitSyms, stepVars, refs>>
  <2>1. NetType' /\ ConnType'
    BY <1>1, <1>4 DEF TypeInv, NetType, ConnType
  <2>2. StepType' /\ BpType' /\ DbgType'
    BY <1>1, <1>4, TypesKept DEF TypeInv, BpType, DbgType
  <2> QED BY <1>2, <1>3, <2>1, <2>2 DEF TypeInv
<1>5. CASE /\ Write(<<VCont(stepping.tid)>>) /\ inFlight' = TRUE
           /\ tstate' = [t \in Tids |-> IF ShouldRun(t) THEN "Running" ELSE tstate[t]]
           /\ UNCHANGED <<target, waitSyms, stepVars, refs>>
  <2>1. stepping.tid \in Tids \cup {0}
    BY DEF TypeInv, StepType
  <2>2. VCont(stepping.tid) \in Items
    BY <2>1, LocalItems DEF VCont
  <2>3. NetType'
    BY <1>1, <1>5, <2>2, ShortItems, WriteType DEF TypeInv, NetType
  <2>4. ConnType' /\ BpType' /\ StepType'
    BY <1>1, <1>5, TypesKept DEF TypeInv, ConnType, BpType
  <2>5. DbgType'
    BY <1>1, <1>5 DEF TypeInv, DbgType
  <2> QED BY <1>2, <1>3, <2>3, <2>4, <2>5 DEF TypeInv
<1>6. CASE /\ CancelStepping /\ target' = "Suspended" /\ waitSyms' = FALSE
           /\ tstate' = [t \in Tids |-> "Suspended"] /\ UNCHANGED <<c2s, inFlight>>
  <2>1. NetType' /\ ConnType'
    BY <1>1, <1>6 DEF TypeInv, NetType, ConnType
  <2>2. StepType' /\ refs' \in [Addrs -> SUBSET {"user", "step"}]
    BY <1>6, CancelType DEF TypeInv, BpType
  <2>3. BpType'
    BY <1>1, <2>2 DEF TypeInv, BpType
  <2>4. DbgType'
    BY <1>1, <1>6 DEF TypeInv, DbgType
  <2> QED BY <1>2, <1>3, <2>1, <2>2, <2>3, <2>4 DEF TypeInv
<1> QED BY <1>4, <1>5, <1>6 DEF RemoteSendCont

\* The first steps after a stop.
LEMMA RemoteStopType ==
    ASSUME NEW p \in Replies, IsStop(p), HandleRemoteStop(p)
    PROVE  /\ todo' \in Seq(Items)
           /\ target' = "Suspended" /\ waitSyms' = FALSE /\ inFlight' = FALSE
           /\ tstate' = [t \in Tids |-> "Suspended"]
<1>1. <<Packet("stopped", p.arg, p.val)>> \in Seq(Items)
  BY ShortItems
<1> QED BY <1>1, EachItems, CatFacts DEF HandleRemoteStop

LEMMA ProcessEventsRemoteType ==
    ASSUME TypeInv, ProcessEventsRemote PROVE TypeInv'
<1>1. /\ Idle /\ s2c # <<>> /\ s2c' = Tail(s2c)
      /\ UNCHANGED <<stubVars, c2s, alive, stepVars, bpVars, regs, stopBps, loaded, await, late, faults>>
  BY DEF ProcessEventsRemote
<1>2. StubType' /\ StepType' /\ BpType'
  BY <1>1, TypesKept DEF TypeInv
<1>3. Head(s2c) \in Replies /\ Tail(s2c) \in Seq(Replies)
  BY <1>1, TailFacts DEF TypeInv, NetType
<1>4. NetType'
  BY <1>1, <1>3 DEF TypeInv, NetType
<1>5. CASE IsStop(Head(s2c))
  <2>1. HandleRemoteStop(Head(s2c)) /\ UNCHANGED orphans
    BY <1>5 DEF ProcessEventsRemote
  <2>2. /\ todo' \in Seq(Items) /\ target' = "Suspended" /\ waitSyms' = FALSE /\ inFlight' = FALSE
        /\ tstate' = [t \in Tids |-> "Suspended"]
    BY <1>3, <1>5, <2>1, RemoteStopType
  <2>3. ConnType' /\ DbgType'
    BY <1>1, <2>1, <2>2 DEF TypeInv, ConnType, DbgType
  <2>4. RunType'
    BY <1>1, <2>2, LocalRunType DEF TypeInv, RunType
  <2> QED BY <1>2, <1>4, <2>3, <2>4 DEF TypeInv
<1>6. CASE ~IsStop(Head(s2c))
  <2>1. orphans' = Append(orphans, Head(s2c)) /\ UNCHANGED <<inFlight, target, waitSyms, tstate, todo>>
    BY <1>6 DEF ProcessEventsRemote
  <2>2. ConnType'
    BY <1>3, <2>1, AppendFacts DEF TypeInv, ConnType
  <2>3. DbgType'
    BY <1>1, <2>1 DEF TypeInv, DbgType
  <2>4. RunType'
    BY <1>1, <2>1 DEF TypeInv, RunType
  <2> QED BY <1>2, <1>4, <2>2, <2>3, <2>4 DEF TypeInv
<1> QED BY <1>5, <1>6

LEMMA WaitStopType ==
    ASSUME TypeInv, WaitStop PROVE TypeInv'
<1>1. /\ ~Idle /\ Head(todo).op = "wait_stop" /\ s2c # <<>> /\ s2c' = Tail(s2c)
      /\ UNCHANGED <<stubVars, c2s, alive, orphans, stepVars, bpVars, regs, stopBps, loaded, await, late, faults>>
  BY DEF WaitStop
<1>2. StubType' /\ StepType' /\ BpType'
  BY <1>1, TypesKept DEF TypeInv
<1>3. Head(s2c) \in Replies /\ Tail(s2c) \in Seq(Replies)
  BY <1>1, TailFacts DEF TypeInv, NetType
<1>4. NetType'
  BY <1>1, <1>3 DEF TypeInv, NetType
<1>5. CASE IsStop(Head(s2c))
  <2>1. HandleRemoteStop(Head(s2c))
    BY <1>5 DEF WaitStop
  <2>2. /\ todo' \in Seq(Items) /\ target' = "Suspended" /\ waitSyms' = FALSE /\ inFlight' = FALSE
        /\ tstate' = [t \in Tids |-> "Suspended"]
    BY <1>3, <1>5, <2>1, RemoteStopType
  <2>3. ConnType' /\ DbgType'
    BY <1>1, <2>2 DEF TypeInv, ConnType, DbgType
  <2>4. RunType'
    BY <1>1, <2>2, LocalRunType DEF TypeInv, RunType, Locals
  <2> QED BY <1>2, <1>4, <2>3, <2>4 DEF TypeInv
<1>6. CASE ~IsStop(Head(s2c))
  <2>1. UNCHANGED <<inFlight, target, waitSyms, tstate, todo>>
    BY <1>6 DEF WaitStop
  <2>2. ConnType' /\ DbgType'
    BY <1>1, <2>1 DEF TypeInv, ConnType, DbgType
  <2>3. RunType'
    BY <1>1, <2>1 DEF TypeInv, RunType
  <2> QED BY <1>2, <1>4, <2>2, <2>3 DEF TypeInv
<1> QED BY <1>5, <1>6

LEMMA WaitStopFailsType ==
    ASSUME TypeInv, WaitStopFails PROVE TypeInv'
<1>1. /\ ~Idle /\ Head(todo).op = "wait_stop" /\ todo' = <<>>
      /\ UNCHANGED <<stubVars, netVars, connVars, stepVars, bpVars, dbgVars, await, faults>>
  BY DEF WaitStopFails
<1>2. late' \in BOOLEAN
  BY DEF WaitStopFails, ReadFails, TypeInv, RunType
<1>3. RunType'
  BY <1>1, <1>2, LocalRunType, ShortItems DEF TypeInv, Locals
<1> QED BY <1>1, <1>3, TypesKept DEF TypeInv

LEMMA AfterStopType ==
    ASSUME TypeInv, AfterStop PROVE TypeInv'
<1>1. /\ ~Idle /\ Head(todo).op = "stopped" /\ (StopDone \/ StepGoesOn \/ StepWriteFails)
      /\ UNCHANGED <<stubVars, s2c, alive, orphans, regs, waitSyms, loaded, bp, slot, await, late, faults>>
  BY DEF AfterStop
<1>2. StubType' /\ RunType /\ late' \in BOOLEAN /\ UNCHANGED await
  BY <1>1, TypesKept DEF TypeInv, RunType
<1>3. Head(todo).arg \in Tids
  BY <1>1, AwaitHead, ItemFields DEF TypeInv
<1>4. todo' \in Seq(Items)
  BY <1>1, LocalItems, ShortItems DEF StopDone, StepGoesOn, StepWriteFails
<1>5. RunType'
  BY <1>1, <1>2, <1>4, LocalRunType DEF Locals
<1>6. CASE StopDone \/ StepWriteFails
  <2>1. UNCHANGED <<c2s, inFlight, target, tstate, armed>> /\ stopBps' \in BOOLEAN
    BY <1>6 DEF StopDone, StepWriteFails, TypeInv, DbgType
  <2>2. UNCHANGED <<stepVars, refs>> \/ CancelStepping
    BY <1>6 DEF StopDone, StepWriteFails
  <2>3. StepType' /\ refs' \in [Addrs -> SUBSET {"user", "step"}]
    BY <2>2, CancelType, TypesKept DEF TypeInv, BpType
  <2>4. BpType' /\ NetType' /\ ConnType'
    BY <1>1, <2>1, <2>3 DEF TypeInv, BpType, NetType, ConnType
  <2>5. DbgType'
    BY <1>1, <2>1 DEF TypeInv, DbgType
  <2> QED BY <1>2, <1>5, <2>3, <2>4, <2>5 DEF TypeInv
<1>7. CASE StepGoesOn
  <2>1. /\ Write(<<Req("vCont;s", Head(todo).arg)>>) /\ inFlight' = TRUE /\ target' = "Stepping"
        /\ tstate' = [tstate EXCEPT ![Head(todo).arg] = "Running"]
        /\ Located /\ UNCHANGED stepVars
    BY <1>7 DEF StepGoesOn
  <2>2. \/ UNCHANGED <<refs, stopBps>>
        \/ \E a \in Addrs : refs' = [refs EXCEPT ![a] = @ \cup {"step"}] /\ stopBps' = TRUE
    BY <1>7 DEF StepGoesOn
  <2>3. refs' \in [Addrs -> SUBSET {"user", "step"}] /\ stopBps' \in BOOLEAN
    <3>1. refs \in [Addrs -> SUBSET {"user", "step"}] /\ stopBps \in BOOLEAN
      BY DEF TypeInv, BpType, DbgType
    <3>2. CASE UNCHANGED <<refs, stopBps>>
      BY <3>1, <3>2
    <3>3. CASE \E a \in Addrs : refs' = [refs EXCEPT ![a] = @ \cup {"step"}] /\ stopBps' = TRUE
      <4>1. PICK a \in Addrs : refs' = [refs EXCEPT ![a] = @ \cup {"step"}] /\ stopBps' = TRUE
        BY <3>3
      <4> QED BY <3>1, <4>1
    <3> QED BY <2>2, <3>2, <3>3
  <2>4. armed' \in [Addrs -> {"gone", "no", "yes", "err"}]
    BY <2>1, LocatedType DEF TypeInv
  <2>5. BpType'
    BY <1>1, <2>3, <2>4 DEF TypeInv, BpType
  <2>6. Req("vCont;s", Head(todo).arg) \in Items
    BY <1>3, LocalItems
  <2>7. NetType'
    BY <1>1, <2>1, <2>6, ShortItems, WriteType DEF TypeInv, NetType
  <2>8. ConnType' /\ StepType'
    BY <1>1, <2>1, TypesKept DEF TypeInv, ConnType
  <2>9. DbgType'
    BY <1>1, <1>3, <2>1, <2>3 DEF TypeInv, DbgType
  <2> QED BY <1>2, <1>5, <2>5, <2>7, <2>8, <2>9 DEF TypeInv
<1> QED BY <1>1, <1>6, <1>7

LEMMA ConnectedType ==
    ASSUME TypeInv, Connected PROVE TypeInv'
<1>1. /\ ~Idle /\ Head(todo).op = "connected" /\ todo' = <<>> /\ target' = "Suspended"
      /\ UNCHANGED <<stubVars, netVars, connVars, stepVars, bpVars, tstate, regs, stopBps, waitSyms, loaded,
                     await, late, faults>>
  BY DEF Connected
<1>2. RunType'
  BY <1>1, LocalRunType, ShortItems DEF TypeInv, RunType, Locals
<1>3. DbgType'
  BY <1>1 DEF TypeInv, DbgType
<1> QED BY <1>1, <1>2, <1>3, TypesKept DEF TypeInv

LEMMA DetachType ==
    ASSUME TypeInv, Idle, DetachFromStub, UNCHANGED late PROVE TypeInv'
<1>1. /\ target' = "Exited" /\ todo' = Each({a \in Addrs : armed[a] = "yes"}, "z") \o <<Req("D", 0)>>
      /\ UNCHANGED <<stubVars, netVars, connVars, stepVars, bpVars, tstate, regs, stopBps, waitSyms, loaded, await>>
  BY DEF DetachFromStub
<1>2. <<Req("D", 0)>> \in Seq(Items) /\ Each({a \in Addrs : armed[a] = "yes"}, "z") \in Seq(Items)
  BY LocalItems, ShortItems, EachItems
<1>3. todo' \in Seq(Items)
  BY <1>1, <1>2, CatFacts
<1>4. RunType'
  BY <1>1, <1>3, LocalRunType DEF TypeInv, RunType
<1>5. DbgType'
  BY <1>1 DEF TypeInv, DbgType
<1> QED BY <1>1, <1>4, <1>5, TypesKept DEF TypeInv

LEMMA ResumeType ==
    ASSUME TypeInv, Resume PROVE TypeInv'
<1>1. /\ Idle /\ target' = "Running" /\ loaded' = loaded
      /\ UNCHANGED <<stubVars, s2c, alive, connVars, tstate, regs, slot, await, late, faults>>
  BY DEF Resume, UserMayAct
<1>2. StubType' /\ ConnType'
  BY <1>1, TypesKept DEF TypeInv
<1>3. StepType'
  <2>1. UNCHANGED stepVars \/ (stepping' = NoStep /\ pending' = NoPending)
    BY DEF Resume
  <2>2. NoStep \in [tid : Tids \cup {0}, single : BOOLEAN, keep : BOOLEAN, cursor : BOOLEAN]
    BY DEF NoStep
  <2>3. CASE UNCHANGED stepVars
    BY <2>3, TypesKept DEF TypeInv
  <2>4. CASE stepping' = NoStep /\ pending' = NoPending
    BY <2>2, <2>4 DEF StepType
  <2> QED BY <2>1, <2>3, <2>4
<1>4. PICK r \in [Addrs -> SUBSET {"user", "step"}] :
        IF waitSyms
        THEN todo' = Cont /\ refs' = r /\ UNCHANGED <<waitSyms, bp, armed, stopBps, c2s>>
        ELSE ActivateBreakpoints(Addrs, r) /\ waitSyms' = (\E a \in Addrs : bp'[a] = "new") /\ Arrange(TRUE, Cont)
  <2> DEFINE r == IF target = "Stepping" THEN NoStepRefs(refs) ELSE refs
  <2>1. r \in [Addrs -> SUBSET {"user", "step"}]
    BY DEF TypeInv, BpType, NoStepRefs
  <2>2. IF waitSyms
        THEN todo' = Cont /\ refs' = r /\ UNCHANGED <<waitSyms, bp, armed, stopBps, c2s>>
        ELSE ActivateBreakpoints(Addrs, r) /\ waitSyms' = (\E a \in Addrs : bp'[a] = "new") /\ Arrange(TRUE, Cont)
    BY DEF Resume
  <2> QED BY <2>1, <2>2
<1>5. /\ todo' \in Seq(Items) /\ c2s' \in Seq(Items) /\ stopBps' \in BOOLEAN /\ waitSyms' \in BOOLEAN
      /\ bp' \in [Addrs -> {"none", "new", "active"}]
      /\ refs' \in [Addrs -> SUBSET {"user", "step"}]
      /\ armed' \in [Addrs -> {"gone", "no", "yes", "err"}]
  <2>1. CASE waitSyms
    BY <1>4, <2>1, LocalItems DEF TypeInv, DbgType, BpType, NetType
  <2>2. CASE ~waitSyms
    <3>1. todo' \in Seq(Items) /\ c2s' \in Seq(Items) /\ stopBps' \in BOOLEAN
      BY <1>4, <2>2, LocalItems, ArrangeType DEF TypeInv, DbgType
    <3>2. /\ bp' \in [Addrs -> {"none", "new", "active"}]
          /\ refs' \in [Addrs -> SUBSET {"user", "step"}]
          /\ armed' \in [Addrs -> {"gone", "no", "yes", "err"}]
      BY <1>4, <2>2, ActivateType DEF TypeInv
    <3> QED BY <1>4, <2>2, <3>1, <3>2
  <2> QED BY <2>1, <2>2 DEF TypeInv, DbgType
<1>6. RunType'
  BY <1>1, <1>5, LocalRunType DEF TypeInv, RunType
<1>7. NetType'
  BY <1>1, <1>5 DEF TypeInv, NetType
<1>8. BpType'
  BY <1>1, <1>5 DEF TypeInv, BpType
<1>9. DbgType'
  BY <1>1, <1>5 DEF TypeInv, DbgType
<1> QED BY <1>2, <1>3, <1>6, <1>7, <1>8, <1>9 DEF TypeInv

LEMMA SuspendType ==
    ASSUME TypeInv, Suspend PROVE TypeInv'
<1>1. /\ Idle /\ CancelStepping /\ target' = "Suspended" /\ waitSyms' = FALSE /\ Write(<<Req("0x03", 0)>>)
      /\ todo' \in {<<Req("wait_stop", 0)>>, <<>>}
      /\ UNCHANGED <<stubVars, s2c, alive, connVars, tstate, regs, stopBps, loaded, bp, armed, slot, await, late,
                     faults>>
  BY DEF Suspend, UserMayAct
<1>2. StepType' /\ refs' \in [Addrs -> SUBSET {"user", "step"}]
  BY <1>1, CancelType DEF TypeInv, BpType
<1>3. Req("wait_stop", 0) \in Items /\ Req("0x03", 0) \in Items
  BY LocalItems DEF Locals
<1>4. RunType'
  BY <1>1, <1>3, ShortItems, LocalRunType DEF TypeInv, RunType
<1>5. NetType'
  BY <1>1, <1>3, ShortItems, WriteType DEF TypeInv, NetType
<1>6. BpType'
  BY <1>1, <1>2 DEF TypeInv, BpType
<1>7. DbgType'
  BY <1>1 DEF TypeInv, DbgType
<1>8. StubType' /\ ConnType'
  BY <1>1, TypesKept DEF TypeInv
<1> QED BY <1>2, <1>4, <1>5, <1>6, <1>7, <1>8 DEF TypeInv

LEMMA StepActionType ==
    ASSUME TypeInv, NEW t \in Tids, NEW single \in BOOLEAN, NEW keep \in BOOLEAN, NEW as \in SUBSET Addrs,
           Step(t, single, keep, as)
    PROVE  TypeInv'
<1>1. /\ Idle /\ stepping' = [tid |-> t, single |-> single, keep |-> keep, cursor |-> FALSE]
      /\ target' = "Stepping"
      /\ refs' = [a \in Addrs |-> IF a \in as THEN refs[a] \cup {"step"} ELSE refs[a]]
      /\ Located
      /\ UNCHANGED <<stubVars, s2c, alive, connVars, pending, tstate, regs, waitSyms, loaded, bp, slot, await, late,
                     faults>>
  BY DEF Step, UserMayAct
<1>2. PICK needed \in BOOLEAN : Arrange(needed, Cont)
  <2> DEFINE needed == as # {} \/ (regs[t] \in Addrs /\ armed[regs[t]] # "gone")
  <2>1. Arrange(needed, Cont) /\ needed \in BOOLEAN
    BY DEF Step
  <2> QED BY <2>1
<1>3. todo' \in Seq(Items) /\ c2s' \in Seq(Items) /\ stopBps' \in BOOLEAN
  BY <1>2, LocalItems, ArrangeType DEF TypeInv, DbgType
<1>4. StepType'
  BY <1>1 DEF TypeInv, StepType
<1>5. refs' \in [Addrs -> SUBSET {"user", "step"}]
  BY <1>1 DEF TypeInv, BpType
<1>6. BpType'
  BY <1>1, <1>5, LocatedType DEF TypeInv, BpType
<1>7. RunType'
  BY <1>1, <1>3, LocalRunType DEF TypeInv, RunType
<1>8. NetType'
  BY <1>1, <1>3 DEF TypeInv, NetType
<1>9. DbgType'
  BY <1>1, <1>3 DEF TypeInv, DbgType
<1>10. StubType' /\ ConnType'
  BY <1>1, TypesKept DEF TypeInv
<1> QED BY <1>4, <1>6, <1>7, <1>8, <1>9, <1>10 DEF TypeInv

LEMMA TryPendingType ==
    ASSUME TypeInv, NEW p, p = NoPending \/ p \in [tid : Tids, addr : Addrs],
           NEW st \in [tid : Tids \cup {0}, single : BOOLEAN, keep : BOOLEAN, cursor : BOOLEAN],
           st = NoStep \/ st.tid \in Tids,
           NEW r \in [Addrs -> SUBSET {"user", "step"}],
           TryPendingStep(p, st, r)
    PROVE  /\ StepType' /\ waitSyms' \in BOOLEAN
           /\ bp' \in [Addrs -> {"none", "new", "active"}]
           /\ refs' \in [Addrs -> SUBSET {"user", "step"}]
           /\ armed' \in [Addrs -> {"gone", "no", "yes", "err"}]
           /\ todo' \in Seq(Items) /\ c2s' \in Seq(Items) /\ stopBps' \in BOOLEAN
<1> DEFINE starts == p # NoPending /\ loaded'
           r2 == IF starts THEN [r EXCEPT ![p.addr] = @ \cup {"step"}] ELSE r
<1>1. /\ ActivateBreakpoints(Addrs, r2)
      /\ stepping' = IF starts THEN [NoStep EXCEPT !.tid = p.tid, !.cursor = TRUE] ELSE st
      /\ pending' = IF starts THEN NoPending ELSE p
      /\ waitSyms' = (pending' # NoPending \/ \E a \in Addrs : bp'[a] = "new")
      /\ Arrange(starts \/ Activated(Addrs) # {}, IF waitSyms' THEN <<>> ELSE Cont)
  BY DEF TryPendingStep
<1>2. starts => p \in [tid : Tids, addr : Addrs]
  OBVIOUS
<1>3. r2 \in [Addrs -> SUBSET {"user", "step"}]
  BY <1>2
<1>4. /\ bp' \in [Addrs -> {"none", "new", "active"}]
      /\ refs' \in [Addrs -> SUBSET {"user", "step"}]
      /\ armed' \in [Addrs -> {"gone", "no", "yes", "err"}]
  BY <1>1, <1>3, ActivateType DEF TypeInv
<1>5. todo' \in Seq(Items) /\ c2s' \in Seq(Items) /\ stopBps' \in BOOLEAN
  <2>1. (IF waitSyms' THEN <<>> ELSE Cont) \in Seq(Items)
    BY ShortItems, LocalItems
  <2>2. (starts \/ Activated(Addrs) # {}) \in BOOLEAN
    OBVIOUS
  <2> HIDE DEF starts
  <2> QED BY <1>1, <2>1, <2>2, ArrangeType DEF TypeInv, DbgType
<1>6. StepType'
  <2>1. CASE starts
    <3>1. stepping' = [NoStep EXCEPT !.tid = p.tid, !.cursor = TRUE] /\ pending' = NoPending /\ p.tid \in Tids
      BY <1>1, <1>2, <2>1
    <3> HIDE DEF starts
    <3> QED BY <3>1 DEF StepType, NoStep
  <2>2. CASE ~starts
    <3>1. stepping' = st /\ pending' = p
      BY <1>1, <2>2
    <3> HIDE DEF starts
    <3> QED BY <3>1 DEF StepType
  <2> QED BY <2>1, <2>2
<1>7. waitSyms' \in BOOLEAN
  BY <1>1
<1> QED BY <1>4, <1>5, <1>6, <1>7

LEMMA StepToCursorType ==
    ASSUME TypeInv, NEW t \in Tids, NEW a \in Addrs, StepToCursor(t, a) PROVE TypeInv'
<1> DEFINE p == [tid |-> t, addr |-> a]
           r == IF stepping # NoStep THEN NoStepRefs(refs) ELSE refs
<1>1. /\ Idle /\ target' = "Stepping" /\ loaded' = loaded /\ TryPendingStep(p, NoStep, r)
      /\ UNCHANGED <<stubVars, s2c, alive, connVars, tstate, regs, slot, await, late, faults>>
  BY DEF StepToCursor, UserMayAct
<1>2. p \in [tid : Tids, addr : Addrs] /\ r \in [Addrs -> SUBSET {"user", "step"}]
  BY DEF TypeInv, BpType, NoStepRefs
<1>3. NoStep \in [tid : Tids \cup {0}, single : BOOLEAN, keep : BOOLEAN, cursor : BOOLEAN]
  BY DEF NoStep
<1> HIDE DEF p, r
<1>4. /\ StepType' /\ waitSyms' \in BOOLEAN
      /\ bp' \in [Addrs -> {"none", "new", "active"}]
      /\ refs' \in [Addrs -> SUBSET {"user", "step"}]
      /\ armed' \in [Addrs -> {"gone", "no", "yes", "err"}]
      /\ todo' \in Seq(Items) /\ c2s' \in Seq(Items) /\ stopBps' \in BOOLEAN
  BY <1>1, <1>2, <1>3, TryPendingType
<1>5. NetType' /\ BpType'
  BY <1>1, <1>4 DEF TypeInv, NetType, BpType
<1>6. DbgType'
  BY <1>1, <1>4 DEF TypeInv, DbgType
<1>7. RunType'
  BY <1>1, <1>4, LocalRunType DEF TypeInv, RunType
<1> QED BY <1>1, <1>4, <1>5, <1>6, <1>7, TypesKept DEF TypeInv

LEMMA RetryPendingType ==
    ASSUME TypeInv, RetryPending PROVE TypeInv'
<1>1. /\ ~Idle /\ Head(todo).op = "retry" /\ loaded' = loaded /\ TryPendingStep(pending, stepping, refs)
      /\ UNCHANGED <<stubVars, s2c, alive, connVars, target, tstate, regs, slot, await, late, faults>>
  BY DEF RetryPending
<1>2. /\ pending = NoPending \/ pending \in [tid : Tids, addr : Addrs]
      /\ stepping \in [tid : Tids \cup {0}, single : BOOLEAN, keep : BOOLEAN, cursor : BOOLEAN]
      /\ stepping = NoStep \/ stepping.tid \in Tids
      /\ refs \in [Addrs -> SUBSET {"user", "step"}]
  BY DEF TypeInv, StepType, BpType
<1>4. /\ StepType' /\ waitSyms' \in BOOLEAN
      /\ bp' \in [Addrs -> {"none", "new", "active"}]
      /\ refs' \in [Addrs -> SUBSET {"user", "step"}]
      /\ armed' \in [Addrs -> {"gone", "no", "yes", "err"}]
      /\ todo' \in Seq(Items) /\ c2s' \in Seq(Items) /\ stopBps' \in BOOLEAN
  BY <1>1, <1>2, TryPendingType
<1>5. NetType' /\ BpType'
  BY <1>1, <1>4 DEF TypeInv, NetType, BpType
<1>6. DbgType'
  BY <1>1, <1>4 DEF TypeInv, DbgType
<1>7. RunType'
  BY <1>1, <1>4, LocalRunType DEF TypeInv, RunType, Locals
<1> QED BY <1>1, <1>4, <1>5, <1>6, <1>7, TypesKept DEF TypeInv

LEMMA AddBreakpointType ==
    ASSUME TypeInv, NEW a \in Addrs, AddBreakpoint(a) PROVE TypeInv'
<1>1. /\ Idle /\ loaded' = loaded
      /\ bp' = [bp EXCEPT ![a] = IF loaded THEN "active" ELSE "new"]
      /\ refs' = IF loaded THEN [refs EXCEPT ![a] = @ \cup {"user"}] ELSE refs
      /\ Located /\ waitSyms' = (waitSyms \/ ~loaded) /\ Arrange(loaded, <<>>)
      /\ UNCHANGED <<stubVars, s2c, alive, connVars, stepVars, target, tstate, regs, slot, await, late, faults>>
  BY DEF AddBreakpoint, UserMayAct
<1>2. todo' \in Seq(Items) /\ c2s' \in Seq(Items) /\ stopBps' \in BOOLEAN
  BY <1>1, ShortItems, ArrangeType DEF TypeInv, DbgType
<1>3. bp' \in [Addrs -> {"none", "new", "active"}] /\ refs' \in [Addrs -> SUBSET {"user", "step"}]
  BY <1>1 DEF TypeInv, BpType
<1>4. BpType'
  BY <1>1, <1>3, LocatedType DEF TypeInv, BpType
<1>5. NetType'
  BY <1>1, <1>2 DEF TypeInv, NetType
<1>6. DbgType'
  BY <1>1, <1>2 DEF TypeInv, DbgType
<1>7. RunType'
  BY <1>1, <1>2, LocalRunType DEF TypeInv, RunType
<1> QED BY <1>1, <1>4, <1>5, <1>6, <1>7, TypesKept DEF TypeInv

LEMMA RemoveBreakpointType ==
    ASSUME TypeInv, NEW a \in Addrs, RemoveBreakpoint(a) PROVE TypeInv'
<1>1. /\ bp' = [bp EXCEPT ![a] = "none"] /\ refs' = [refs EXCEPT ![a] = @ \ {"user"}]
      /\ UNCHANGED <<stubVars, netVars, connVars, stepVars, armed, slot, dbgVars, runVars>>
  BY DEF RemoveBreakpoint
<1>2. BpType'
  BY <1>1 DEF TypeInv, BpType
<1> QED BY <1>1, <1>2, TypesKept DEF TypeInv

LEMMA AddWatchType ==
    ASSUME TypeInv, AddWatch PROVE TypeInv'
<1>1. /\ Idle /\ slot' = "active" /\ Arrange(TRUE, <<>>)
      /\ UNCHANGED <<stubVars, s2c, alive, connVars, stepVars, bp, refs, armed, target, tstate, regs, waitSyms,
                     loaded, await, late, faults>>
  BY DEF AddWatch, UserMayAct
<1>2. todo' \in Seq(Items) /\ c2s' \in Seq(Items) /\ stopBps' \in BOOLEAN
  BY <1>1, ShortItems, ArrangeType DEF TypeInv, DbgType
<1>3. BpType' /\ NetType'
  BY <1>1, <1>2 DEF TypeInv, BpType, NetType
<1>4. DbgType'
  BY <1>1, <1>2 DEF TypeInv, DbgType
<1>5. RunType'
  BY <1>1, <1>2, LocalRunType DEF TypeInv, RunType
<1> QED BY <1>1, <1>3, <1>4, <1>5, TypesKept DEF TypeInv

LEMMA RemoveWatchType ==
    ASSUME TypeInv, RemoveWatch PROVE TypeInv'
<1>1. /\ Idle /\ slot' = "free" /\ todo' \in {<<Req("z", Data)>>, <<>>}
      /\ UNCHANGED <<stubVars, netVars, connVars, stepVars, bp, refs, armed, dbgVars, await, late, faults>>
  BY DEF RemoveWatch, UserMayAct
<1>2. Req("z", Data) \in Items
  BY LocalItems, FiniteAddrs
<1>3. BpType'
  BY <1>1 DEF TypeInv, BpType
<1>4. RunType'
  BY <1>1, <1>2, ShortItems, LocalRunType DEF TypeInv, RunType
<1> QED BY <1>1, <1>3, <1>4, TypesKept DEF TypeInv

LEMMA SymbolsLoadedType ==
    ASSUME TypeInv, SymbolsLoaded PROVE TypeInv'
<1>1. /\ Idle /\ loaded' = TRUE
      /\ todo' = (IF inFlight THEN <<>> ELSE Each(Tids, "g")) \o <<Req("retry", 0)>>
      /\ UNCHANGED <<stubVars, netVars, connVars, stepVars, bpVars, target, tstate, regs, stopBps, waitSyms,
                     await, late, faults>>
  BY DEF SymbolsLoaded
<1>2. Req("retry", 0) \in Items
  BY LocalItems DEF Locals
<1>3. (IF inFlight THEN <<>> ELSE Each(Tids, "g")) \in Seq(Items)
  BY ShortItems, EachItems
<1>4. todo' \in Seq(Items)
  BY <1>1, <1>2, <1>3, ShortItems, CatFacts
<1>5. DbgType'
  BY <1>1 DEF TypeInv, DbgType
<1>6. RunType'
  BY <1>1, <1>4, LocalRunType DEF TypeInv, RunType
<1> QED BY <1>1, <1>5, <1>6, TypesKept DEF TypeInv

LEMMA ReadMemoryType ==
    ASSUME TypeInv, ReadMemory PROVE TypeInv'
<1>1. /\ Idle /\ todo' = <<Req("m", 0)>>
      /\ UNCHANGED <<stubVars, netVars, connVars, stepVars, bpVars, dbgVars, await, late, faults>>
  BY DEF ReadMemory, UserMayAct
<1>2. RunType'
  BY <1>1, LocalItems, ShortItems, LocalRunType DEF TypeInv, RunType
<1> QED BY <1>1, <1>2, TypesKept DEF TypeInv

LEMMA InitType == Init => TypeInv
<1> SUFFICES ASSUME Init PROVE TypeInv
  OBVIOUS
<1>1. StubType /\ BpType
  BY DEF Init, StubType, BpType
<1>2. s2c \in Seq(Replies)
  <2>1. CASE s2c = <<>>
    BY <2>1
  <2>2. CASE s2c \in {<<Packet("T", t, 0)>> : t \in Tids}
    <3>1. PICK t \in Tids : s2c = <<Packet("T", t, 0)>>
      BY <2>2
    <3>2. Packet("T", t, 0) \in Replies
      BY StopReply
    <3> QED BY <3>1, <3>2
  <2> QED BY <2>1, <2>2 DEF Init
<1>3. NetType /\ ConnType
  <2>1. c2s = <<>> /\ orphans = <<>> /\ alive = TRUE /\ inFlight = FALSE
    BY DEF Init
  <2>2. c2s \in Seq(Items) /\ orphans \in Seq(Replies)
    BY <2>1
  <2> QED BY <1>2, <2>1, <2>2 DEF NetType, ConnType
<1>4. StepType
  BY DEF Init, StepType, NoStep
<1>5. DbgType
  BY DEF Init, DbgType
<1>6. /\ <<Req("qSupported", 0), Req("?", 0), Req("threads", 0)>> \in Seq(Items)
      /\ <<Req("connected", 0)>> \in Seq(Items)
  <2>1. Req("qSupported", 0) \in Items /\ Req("?", 0) \in Items /\ Req("threads", 0) \in Items
        /\ Req("connected", 0) \in Items
    BY LocalItems DEF Locals
  <2> QED BY <2>1
<1>7. todo \in Seq(Items)
  BY <1>6, EachItems, CatFacts DEF Init
<1>8. RunType
  BY <1>7 DEF Init, RunType
<1> QED BY <1>1, <1>3, <1>4, <1>5, <1>8 DEF TypeInv

(***************************************************************************)
(* The order of a handler's steps.                                         *)
(***************************************************************************)
LEMMA HandleCont ==
    /\ Handle \in Seq(Items) /\ Cont \in Seq(Items) /\ Handle \o Cont \in Seq(Items)
    /\ \A op : HasOp(Handle, op) <=> op = "handle"
    /\ \A op : HasOp(Cont, op) <=> op = "cont"
    /\ \A op : HasOp(Handle \o Cont, op) <=> op \in {"handle", "cont"}
    /\ Cont # <<>>
<1>1. Req("handle", 0).op = "handle" /\ Req("cont", 0).op = "cont"
  BY PacketFields
<1>2. Handle \in Seq(Items) /\ Cont \in Seq(Items)
  BY LocalItems
<1>3. \A op : HasOp(Handle, op) <=> op = "handle"
  BY <1>1, HasOne DEF Handle
<1>4. \A op : HasOp(Cont, op) <=> op = "cont"
  BY <1>1, HasOne DEF Cont
<1>5. \A op : HasOp(Handle \o Cont, op) <=> op \in {"handle", "cont"}
  BY <1>2, <1>3, <1>4, HasCat
<1>6. Handle \o Cont \in Seq(Items)
  BY <1>2, CatFacts
<1> QED BY <1>2, <1>3, <1>4, <1>5, <1>6, HasNone

\* What arrange_handle_breakpoints() leaves to do.
LEMMA ArrangeOrder ==
    ASSUME NEW needed \in BOOLEAN, NEW rest \in {<<>>, Cont}, Arrange(needed, rest)
    PROVE  /\ LocalsLast(todo') /\ Once(todo')
           /\ \A op : HasOp(todo', op) <=> \/ op = "handle" /\ needed /\ ~AnyRunning
                                           \/ op = "cont" /\ rest = Cont
           /\ needed /\ AnyRunning => todo' = rest /\ stopBps' = TRUE /\ Write(<<Req("0x03", 0)>>)
           /\ ~(needed /\ AnyRunning) => UNCHANGED <<stopBps, c2s>>
<1>1. <<>> \in Seq(Items) /\ Handle \o <<>> = Handle /\ <<>> \o Cont = Cont /\ <<>> \o <<>> = <<>>
  BY HandleCont
<1>2. Cont # <<>>
  BY HandleCont
<1>3. /\ LocalsLast(todo')
      /\ \A op : HasOp(todo', op) <=> \/ op = "handle" /\ needed /\ ~AnyRunning
                                      \/ op = "cont" /\ rest = Cont
  <2>1. CASE needed /\ AnyRunning
    <3>1. todo' = rest
      BY <2>1 DEF Arrange
    <3> QED BY <1>2, <2>1, <3>1, HandleCont, HasNone, LocalsLastShort
  <2>2. CASE needed /\ ~AnyRunning
    <3>1. todo' = Handle \o rest
      BY <2>2 DEF Arrange
    <3>2. CASE rest = Cont
      BY <2>2, <3>1, <3>2, HandleCont, LocalsLastShort
    <3>3. CASE rest = <<>>
      BY <1>1, <1>2, <2>2, <3>1, <3>3, HandleCont, LocalsLastShort
    <3> QED BY <3>2, <3>3
  <2>3. CASE ~needed
    <3>1. todo' = <<>> \o rest
      BY <2>3 DEF Arrange
    <3>2. todo' = rest
      BY <1>1, <3>1
    <3> QED BY <1>2, <2>3, <3>2, HandleCont, HasNone, LocalsLastShort
  <2> QED BY <2>1, <2>2, <2>3
<1>4. Once(todo')
  BY <1>3, OnceNoZ
<1> QED BY <1>3, <1>4 DEF Arrange

LEMMA OrderKept ==
    ASSUME HandlersInOrder, UNCHANGED <<todo, target, loaded, waitSyms, stepping, pending>>
    PROVE  HandlersInOrder'
BY DEF HandlersInOrder

\* The rest of a handler after a request.
LEMMA OrderTail ==
    ASSUME TypeInv, HandlersInOrder, ~Idle, Head(todo).op \in Requests, todo' = Tail(todo),
           UNCHANGED <<target, loaded, waitSyms, stepping, pending>>
    PROVE  HandlersInOrder'
<1>1. todo \in Seq(Items) /\ todo # <<>>
  BY DEF TypeInv, RunType, Idle
<1>2. LocalsLast(Tail(todo))
  BY <1>1, LocalsLastTail DEF HandlersInOrder
<1>3. \A op : HasOp(Tail(todo), op) => HasOp(todo, op)
  BY <1>1, HasTail
<1>4. HasOp(todo, "connected") => HasOp(Tail(todo), "connected")
  BY <1>1, HasTail DEF Requests, Handshake
<1>5. Only(todo, {"z", "D"}) => Only(Tail(todo), {"z", "D"})
  BY <1>1, HasTail
<1> QED BY <1>2, <1>3, <1>4, <1>5 DEF HandlersInOrder

\* Between two handlers the debugger has connected.
LEMMA BetweenHandlers ==
    ASSUME TypeInv, HandlersInOrder, Idle
    PROVE  target # "Connecting" /\ ~await /\ todo = <<>>
BY HasNone, AwaitHead DEF HandlersInOrder, Idle, TypeInv

LEMMA RequestDoneOrder ==
    ASSUME TypeInv, HandlersInOrder, ~Idle, Head(todo).op \in Requests, NEW good, NEW val, RequestDone(good, val)
    PROVE  HandlersInOrder'
<1>1. UNCHANGED <<stepVars, loaded, waitSyms>>
  BY DEF RequestDone
<1>2. CASE Head(todo).op \in Handshake /\ ~good
  <2>1. todo' = <<>> /\ target' = "Exited"
    BY <1>2 DEF RequestDone
  <2> QED BY <1>1, <2>1, HasNone DEF HandlersInOrder
<1>3. CASE ~(Head(todo).op \in Handshake /\ ~good)
  <2>1. todo' = Tail(todo) /\ UNCHANGED target
    BY <1>3 DEF RequestDone
  <2> QED BY <1>1, <2>1, OrderTail DEF stepVars
<1> QED BY <1>2, <1>3

LEMMA SendPacketOrder ==
    ASSUME TypeInv, HandlersInOrder, SendPacket PROVE HandlersInOrder'
<1>1. ~Idle /\ Head(todo).op \in Requests
  BY DEF SendPacket
<1>2. CASE inFlight \/ ~alive
  <2>1. RequestDone(FALSE, 0)
    BY <1>2 DEF SendPacket
  <2> QED BY <1>1, <2>1, RequestDoneOrder
<1>3. CASE ~(inFlight \/ ~alive)
  BY <1>3, OrderKept DEF SendPacket, stepVars, dbgVars
<1> QED BY <1>2, <1>3

LEMMA WaitReplyOrder ==
    ASSUME TypeInv, HandlersInOrder, WaitReply \/ WaitReplyFails PROVE HandlersInOrder'
<1>1. ~Idle /\ Head(todo).op \in Requests
  BY AwaitHead DEF WaitReply, WaitReplyFails, TypeInv
<1>2. \/ RequestDone(LooksRight(Head(todo), Head(orphans)), Head(orphans).val)
      \/ RequestDone(LooksRight(Head(todo), Head(s2c)), Head(s2c).val)
      \/ RequestDone(FALSE, 0)
  BY DEF WaitReply, WaitReplyFails
<1> QED BY <1>1, <1>2, RequestDoneOrder

LEMMA HasCat4 ==
    ASSUME NEW r \in Seq(Items), NEW s \in Seq(Items), NEW t \in Seq(Items), NEW u \in Seq(Items)
    PROVE  /\ r \o s \o t \in Seq(Items) /\ r \o s \o t \o u = (r \o s \o t) \o u
           /\ \A op, arg : Has(r \o s \o t \o u, op, arg) <=>
                 Has(r, op, arg) \/ Has(s, op, arg) \/ Has(t, op, arg) \/ Has(u, op, arg)
           /\ \A op : HasOp(r \o s \o t, op) <=> HasOp(r, op) \/ HasOp(s, op) \/ HasOp(t, op)
           /\ \A op : HasOp(r \o s \o t \o u, op) <=> HasOp(r \o s \o t, op) \/ HasOp(u, op)
<1> DEFINE v == r \o s
<1>1. /\ v \in Seq(Items)
      /\ \A op : HasOp(v, op) <=> HasOp(r, op) \/ HasOp(s, op)
      /\ \A op, arg : Has(v, op, arg) <=> Has(r, op, arg) \/ Has(s, op, arg)
  BY CatFacts, HasCat
<1> HIDE DEF v
<1> DEFINE x == v \o t
<1>2. /\ x \in Seq(Items)
      /\ \A op : HasOp(x, op) <=> HasOp(v, op) \/ HasOp(t, op)
      /\ \A op, arg : Has(x, op, arg) <=> Has(v, op, arg) \/ Has(t, op, arg)
  BY <1>1, CatFacts, HasCat
<1> HIDE DEF x
<1>3. /\ \A op : HasOp(x \o u, op) <=> HasOp(x, op) \/ HasOp(u, op)
      /\ \A op, arg : Has(x \o u, op, arg) <=> Has(x, op, arg) \/ Has(u, op, arg)
  BY <1>2, HasCat
<1> QED BY <1>1, <1>2, <1>3 DEF v, x

\* What handle_breakpoints() asks of the stub.
LEMMA HandleTodo ==
    ASSUME TypeInv, LocalsLast(todo), HandleBreakpoints
    PROVE  /\ LocalsLast(todo') /\ Once(todo') /\ todo # <<>>
           /\ \A op : HasOp(todo', op) => op \in {"z", "Z"} \/ HasOp(todo, op)
           /\ \A op : op # "handle" => (HasOp(todo, op) => HasOp(todo', op))
           /\ \A op : HasOp(todo, op) => op \in {"handle", "cont"}
           /\ \A a \in Addrs : Has(todo', "Z", a) <=> refs[a] # {} /\ armed[a] # "yes"
           /\ \A a \in Addrs : Has(todo', "z", a) <=> refs[a] = {} /\ armed[a] = "yes"
<1> DEFINE Zs == {a \in Addrs : refs[a] # {} /\ armed[a] # "yes"}
           zs == {a \in Addrs : refs[a] = {} /\ armed[a] = "yes"}
           w == IF slot = "active" THEN <<Req("Z", Data)>> ELSE <<>>
           r == Each(zs, "z")
           s == Each(Zs, "Z")
           u == Tail(todo)
<1>1. ~Idle /\ Head(todo).op = "handle" /\ todo' = r \o s \o w \o u
  BY DEF HandleBreakpoints
<1>2. todo \in Seq(Items) /\ todo # <<>> /\ u \in Seq(Items)
  BY <1>1, AwaitHead DEF TypeInv, RunType
<1>3. w \in Seq(Items) /\ Once(w) /\ (\A op : HasOp(w, op) => op = "Z") /\ (\A op, a : Has(w, op, a) => a = Data)
  <2>0. Data \in Points
    BY FiniteAddrs
  <2>1. Req("Z", Data) \in Items /\ Req("Z", Data).op = "Z" /\ Req("Z", Data).arg = Data
    <3>1. Req("Z", Data) \in Items
      BY <2>0, LocalItems
    <3>2. Req("Z", Data).op = "Z" /\ Req("Z", Data).arg = Data
      BY PacketFields
    <3> QED BY <3>1, <3>2
  <2>2. Once(<<Req("Z", Data)>>)
    BY DEF Once
  <2> QED BY <2>1, <2>2, ShortItems, HasOne, HasNone
<1>4. IsFiniteSet(zs) /\ IsFiniteSet(Zs) /\ zs \in SUBSET Addrs /\ Zs \in SUBSET Addrs
  BY FiniteAddrs
<1>0. /\ \A a \in Addrs : a \in Zs <=> refs[a] # {} /\ armed[a] # "yes"
      /\ \A a \in Addrs : a \in zs <=> refs[a] = {} /\ armed[a] = "yes"
  OBVIOUS
<1> HIDE DEF w, zs, Zs
<1>5. r \in Seq(Items) /\ s \in Seq(Items) /\ Once(r) /\ Once(s)
  BY <1>4, EachItems, OnceEach
<1>6. /\ \A o, x : Has(r, o, x) <=> o = "z" /\ x \in zs
      /\ \A o, x : Has(s, o, x) <=> o = "Z" /\ x \in Zs
      /\ \A o : HasOp(r, o) => o = "z"
      /\ \A o : HasOp(s, o) => o = "Z"
  BY <1>4, HasEach
<1>9. \A op : HasOp(todo, op) <=> op = "handle" \/ HasOp(u, op)
  BY <1>1, <1>2, HasTail
<1>10. Len(u) <= 1 /\ (\A op : HasOp(u, op) => op = "cont") /\ Once(u) /\ \A op, a : Has(u, op, a) => op = "cont"
  <2>1. CASE u = <<>>
    <3> HIDE DEF u
    <3>1. Len(u) <= 1
      BY <2>1
    <3> QED BY <2>1, <3>1, HasNone
  <2>2. CASE \E x \in Items : x.op = "cont" /\ u = <<x>>
    <3>1. PICK x \in Items : x.op = "cont" /\ u = <<x>>
      BY <2>2
    <3> HIDE DEF u
    <3>2. Len(u) <= 1 /\ (\A op : HasOp(u, op) => op = "cont") /\ \A op, a : Has(u, op, a) => op = "cont"
      BY <3>1, HasOne, ShortItems
    <3> QED BY <3>2, OnceNoZ
  <2> QED BY <1>1, <1>2, <2>1, <2>2, LocalsLastTail
<1> HIDE DEF r, s, u
<1>7. /\ r \o s \o w \in Seq(Items)
      /\ \A op, arg : Has(todo', op, arg) <=> Has(r, op, arg) \/ Has(s, op, arg) \/ Has(w, op, arg) \/ Has(u, op, arg)
      /\ \A op : HasOp(r \o s \o w, op) <=> HasOp(r, op) \/ HasOp(s, op) \/ HasOp(w, op)
      /\ \A op : HasOp(todo', op) <=> HasOp(r \o s \o w, op) \/ HasOp(u, op)
  BY <1>1, <1>2, <1>3, <1>5, HasCat4
<1>11. LocalsLast(todo')
  <2> DEFINE rs == r \o s \o w
  <2>1. \A op : HasOp(rs, op) => op \in {"z", "Z"}
    BY <1>3, <1>6, <1>7
  <2>2. todo' = rs \o u /\ rs \in Seq(Items)
    BY <1>1, <1>7
  <2> HIDE DEF rs
  <2>3. \A i \in DOMAIN rs : rs[i].op \notin Locals \cup {"D"}
    BY <2>1 DEF HasOp, Locals
  <2> QED BY <1>2, <1>10, <2>2, <2>3, LocalsLastCat
<1>12. Once(todo')
  <2>1. r \o s \in Seq(Items) /\ Once(r \o s) /\ \A x : Has(r \o s, "Z", x) <=> x \in Zs
    <3>1. \A x : ~Has(r, "Z", x)
      BY <1>6
    <3> QED BY <1>5, <1>6, <3>1, OnceCat, CatFacts, HasCat
  <2> DEFINE v == r \o s
  <2>2. todo' = (v \o w) \o u /\ v \in Seq(Items) /\ Once(v) /\ \A x : Has(v, "Z", x) <=> x \in Zs
    BY <1>1, <2>1
  <2> HIDE DEF v
  <2>3. \A x : ~(Has(v, "Z", x) /\ Has(w, "Z", x))
    BY <1>3, <1>4, <2>2, FiniteAddrs
  <2>4. v \o w \in Seq(Items) /\ Once(v \o w)
    BY <1>3, <2>2, <2>3, OnceCat, CatFacts
  <2>5. \A x : ~Has(u, "Z", x)
    BY <1>10
  <2> QED BY <1>2, <1>10, <2>2, <2>4, <2>5, OnceCat
<1>13. \A op : HasOp(todo', op) => op \in {"z", "Z"} \/ HasOp(todo, op)
  BY <1>3, <1>6, <1>7, <1>9
<1>14. \A a \in Addrs : Has(todo', "Z", a) <=> a \in Zs
  BY <1>3, <1>6, <1>7, <1>10, FiniteAddrs
<1>15. \A a \in Addrs : Has(todo', "z", a) <=> a \in zs
  BY <1>3, <1>6, <1>7, <1>10, FiniteAddrs
<1> QED BY <1>0, <1>2, <1>7, <1>9, <1>10, <1>11, <1>12, <1>13, <1>14, <1>15

LEMMA HandleBreakpointsOrder ==
    ASSUME TypeInv, HandlersInOrder, HandleBreakpoints PROVE HandlersInOrder'
<1>1. ~Idle /\ Head(todo).op = "handle" /\ UNCHANGED <<target, loaded, waitSyms, stepping, pending>>
  BY DEF HandleBreakpoints, stepVars, dbgVars
<1>2. /\ LocalsLast(todo') /\ todo # <<>>
      /\ \A op : HasOp(todo', op) => op \in {"z", "Z"} \/ HasOp(todo, op)
      /\ \A op : op # "handle" => (HasOp(todo, op) => HasOp(todo', op))
  BY HandleTodo DEF HandlersInOrder
<1>3. target # "Exited"
  BY <1>1, <1>2, HasTail DEF HandlersInOrder, TypeInv, RunType
<1> QED BY <1>1, <1>2, <1>3 DEF HandlersInOrder

\* Steps that leave nothing to do.
LEMMA OrderDone ==
    ASSUME HandlersInOrder, todo' = <<>>, target' # "Connecting",
           target' = "Stepping" => stepping'.tid \in Tids \/ pending' # NoPending
    PROVE  HandlersInOrder'
BY HasNone DEF HandlersInOrder

LEMMA RemoteSendContOrder ==
    ASSUME TypeInv, HandlersInOrder, RemoteSendCont PROVE HandlersInOrder'
<1>1. ~Idle /\ Head(todo).op = "cont" /\ todo' = Tail(todo)
  BY DEF RemoteSendCont
<1>2. todo \in Seq(Items) /\ todo # <<>>
  BY <1>1, AwaitHead DEF TypeInv, RunType
<1>3. todo' = <<>> /\ \A op : HasOp(todo, op) <=> op = "cont"
  <2>1. Tail(todo) = <<>>
    BY <1>1, <1>2, LocalsLastTail DEF HandlersInOrder, Locals
  <2> QED BY <1>1, <1>2, <2>1, HasTail, HasNone
<1>4. \/ UNCHANGED <<target, stepVars>>
      \/ target' = "Suspended"
  BY DEF RemoteSendCont
<1>5. target # "Connecting"
  BY <1>3 DEF HandlersInOrder
<1> QED BY <1>3, <1>4, <1>5, OrderDone DEF HandlersInOrder, stepVars

\* The steps after a stop: the registers of every thread, then the decision.
LEMMA RemoteStopOrder ==
    ASSUME NEW p \in Replies, IsStop(p), HandleRemoteStop(p)
    PROVE  /\ LocalsLast(todo')
           /\ \A op : HasOp(todo', op) => op \in {"g", "stopped"}
           /\ HasOp(todo', "stopped")
           /\ \A t \in Tids : Has(todo', "g", t)
<1> DEFINE x == Packet("stopped", p.arg, p.val)
<1>1. x \in Items /\ x.op = "stopped"
  BY ShortItems, PacketFields
<1>2. todo' = Each(Tids, "g") \o <<x>> /\ Each(Tids, "g") \in Seq(Items)
  BY EachItems DEF HandleRemoteStop
<1> HIDE DEF x
<1>3. <<x>> \in Seq(Items) /\ Len(<<x>>) <= 1
  BY <1>1
<1>4. /\ \A op : HasOp(Each(Tids, "g"), op) => op = "g"
      /\ \A t \in Tids : Has(Each(Tids, "g"), "g", t)
  BY FiniteAddrs, HasEach
<1>5. /\ \A op : HasOp(todo', op) <=> HasOp(Each(Tids, "g"), op) \/ HasOp(<<x>>, op)
      /\ \A op, arg : Has(todo', op, arg) <=> Has(Each(Tids, "g"), op, arg) \/ Has(<<x>>, op, arg)
  BY <1>2, <1>3, HasCat
<1>6. \A op : HasOp(<<x>>, op) <=> op = "stopped"
  BY <1>1, HasOne
<1>7. \A i \in DOMAIN Each(Tids, "g") : Each(Tids, "g")[i].op \notin Locals \cup {"D"}
  BY <1>4 DEF HasOp, Locals
<1>8. LocalsLast(todo')
  BY <1>2, <1>3, <1>7, LocalsLastCat
<1> QED BY <1>4, <1>5, <1>6, <1>8

LEMMA StopOrder ==
    ASSUME TypeInv, HandlersInOrder, ProcessEventsRemote \/ WaitStop PROVE HandlersInOrder'
<1>1. s2c # <<>> /\ UNCHANGED <<loaded, stepVars>>
  BY DEF ProcessEventsRemote, WaitStop
<1>2. Head(s2c) \in Replies
  BY <1>1, TailFacts DEF TypeInv, NetType
<1>3. CASE IsStop(Head(s2c))
  <2>1. HandleRemoteStop(Head(s2c))
    BY <1>3 DEF ProcessEventsRemote, WaitStop
  <2>2. LocalsLast(todo') /\ \A op : HasOp(todo', op) => op \in {"g", "stopped"}
    BY <1>2, <1>3, <2>1, RemoteStopOrder
  <2>3. target' = "Suspended"
    BY <2>1 DEF HandleRemoteStop
  <2> QED BY <2>2, <2>3 DEF HandlersInOrder
<1>4. CASE ~IsStop(Head(s2c))
  <2>1. UNCHANGED <<target, waitSyms, todo>>
    BY <1>4 DEF ProcessEventsRemote, WaitStop
  <2> QED BY <1>1, <2>1, OrderKept DEF stepVars
<1> QED BY <1>3, <1>4

LEMMA LastStep ==
    ASSUME TypeInv, HandlersInOrder, ~Idle, Head(todo).op \in Locals \ {"handle"}
    PROVE  /\ todo \in Seq(Items) /\ todo # <<>> /\ Tail(todo) = <<>>
           /\ \A op : HasOp(todo, op) <=> op = Head(todo).op
           /\ \A op, arg : Has(todo, op, arg) => op = Head(todo).op
           /\ target # "Exited" /\ ~await
<1>1. todo \in Seq(Items) /\ todo # <<>> /\ ~await
  BY AwaitHead DEF TypeInv, RunType
<1>2. Tail(todo) = <<>>
  BY <1>1, LocalsLastTail DEF HandlersInOrder
<1>3. /\ \A op : HasOp(todo, op) <=> op = Head(todo).op
      /\ \A op, arg : Has(todo, op, arg) => op = Head(todo).op
  <2>1. /\ \A op : HasOp(todo, op) <=> Head(todo).op = op \/ HasOp(Tail(todo), op)
        /\ \A op, arg : Has(todo, op, arg) <=>
              (Head(todo).op = op /\ Head(todo).arg = arg) \/ Has(Tail(todo), op, arg)
    BY <1>1, HasTail
  <2>2. (\A op : ~HasOp(Tail(todo), op)) /\ (\A op, arg : ~Has(Tail(todo), op, arg))
    BY <1>2, HasNone
  <2> QED BY <2>1, <2>2
<1>4. target # "Exited"
  <2>1. target = "Exited" => Head(todo).op \in {"z", "D"}
    BY <1>3, OnlyHas DEF HandlersInOrder
  <2> QED BY <2>1 DEF Locals
<1> QED BY <1>1, <1>2, <1>3, <1>4

LEMMA WaitStopFailsOrder ==
    ASSUME TypeInv, HandlersInOrder, WaitStopFails PROVE HandlersInOrder'
<1>1. ~Idle /\ Head(todo).op = "wait_stop" /\ todo' = <<>> /\ UNCHANGED <<stepping, pending, target>>
  BY DEF WaitStopFails, stepVars, dbgVars
<1>2. \A op : HasOp(todo, op) <=> op = "wait_stop"
  BY <1>1, LastStep DEF Locals
<1> QED BY <1>1, <1>2, OrderDone DEF HandlersInOrder

LEMMA AfterStopOrder ==
    ASSUME TypeInv, HandlersInOrder, AfterStop PROVE HandlersInOrder'
<1>1. ~Idle /\ Head(todo).op = "stopped"
  BY DEF AfterStop
<1>2. HasOp(todo, "stopped")
  BY <1>1, LastStep DEF Locals
<1>3. target = "Suspended" /\ Head(todo).arg \in Tids
  BY <1>1, <1>2, AwaitHead, ItemFields DEF HandlersInOrder, TypeInv
<1>4. CASE StopDone
  <2>1. todo' = Handle /\ target' = target
    BY <1>4 DEF StopDone
  <2> QED BY <1>3, <2>1, HandleCont, LocalsLastShort DEF HandlersInOrder
<1>5. CASE StepGoesOn
  <2>1. todo' = <<>> /\ target' = "Stepping" /\ UNCHANGED stepVars /\ stepping.tid \in Tids
    BY <1>3, <1>5 DEF StepGoesOn
  <2> QED BY <2>1, OrderDone DEF stepVars
<1>6. CASE StepWriteFails
  <2>1. todo' = <<>> /\ target' = target
    BY <1>6 DEF StepWriteFails
  <2> QED BY <1>3, <2>1, OrderDone
<1> QED BY <1>4, <1>5, <1>6 DEF AfterStop

LEMMA ConnectedOrder ==
    ASSUME TypeInv, HandlersInOrder, Connected PROVE HandlersInOrder'
<1>1. todo' = <<>> /\ target' = "Suspended"
  BY DEF Connected
<1> QED BY <1>1, OrderDone

LEMMA DetachOrder ==
    ASSUME TypeInv, HandlersInOrder, Idle, DetachFromStub
    PROVE  /\ HandlersInOrder' /\ target' = "Exited"
           /\ \A op : HasOp(todo', op) => op \in {"z", "D"}
<1> DEFINE s == Each({a \in Addrs : armed[a] = "yes"}, "z")
           x == Req("D", 0)
<1>1. target' = "Exited" /\ todo' = s \o <<x>>
  BY DEF DetachFromStub
<1>2. s \in Seq(Items) /\ x \in Items /\ x.op = "D"
  BY LocalItems, EachItems, PacketFields
<1>3. \A op : HasOp(s, op) => op = "z"
  <2>1. IsFiniteSet({a \in Addrs : armed[a] = "yes"})
    BY FiniteAddrs
  <2> QED BY <2>1, HasEach
<1> HIDE DEF s, x
<1>4. <<x>> \in Seq(Items) /\ Len(<<x>>) <= 1
  BY <1>2
<1>5. LocalsLast(todo')
  <2>1. \A i \in DOMAIN s : s[i].op \notin Locals \cup {"D"}
    BY <1>3 DEF HasOp, Locals
  <2> QED BY <1>1, <1>2, <1>4, <2>1, LocalsLastCat
<1>6. \A op : HasOp(todo', op) => op \in {"z", "D"}
  <2>1. \A op : HasOp(<<x>>, op) <=> op = "D"
    BY <1>2, HasOne
  <2>2. \A op : HasOp(todo', op) <=> HasOp(s, op) \/ HasOp(<<x>>, op)
    BY <1>1, <1>2, <1>4, HasCat
  <2> QED BY <1>3, <2>1, <2>2
<1>7. Only(todo', {"z", "D"})
  BY <1>6, OnlyHas
<1> QED BY <1>1, <1>5, <1>6, <1>7 DEF HandlersInOrder

\* Handlers that begin with arrange_handle_breakpoints().
LEMMA ArrangedOrder ==
    ASSUME HandlersInOrder, NEW needed \in BOOLEAN, NEW rest \in {<<>>, Cont}, Arrange(needed, rest),
           target' \notin {"Connecting", "Exited"},
           rest = Cont => ~waitSyms' /\ (target' = "Stepping" => stepping'.tid \in Tids),
           target' = "Stepping" => stepping'.tid \in Tids \/ pending' # NoPending
    PROVE  HandlersInOrder'
<1>1. /\ LocalsLast(todo')
      /\ \A op : HasOp(todo', op) <=> \/ op = "handle" /\ needed /\ ~AnyRunning
                                      \/ op = "cont" /\ rest = Cont
  BY ArrangeOrder
<1> QED BY <1>1 DEF HandlersInOrder

LEMMA ResumeFacts ==
    ASSUME Resume, "early" \notin Ops, "overlap" \notin Ops
    PROVE  /\ target = "Suspended" /\ target' = "Running" /\ ~waitSyms /\ waitSyms' = FALSE
           /\ ActivateBreakpoints(Addrs, refs) /\ Arrange(TRUE, Cont)
           /\ UNCHANGED stepVars /\ UNCHANGED loaded
<1>1. target = "Suspended" /\ target' = "Running" /\ UNCHANGED stepVars /\ UNCHANGED loaded
  BY DEF Resume
<1>2. (IF target = "Stepping" THEN NoStepRefs(refs) ELSE refs) = refs
  BY <1>1
<1>3. ~waitSyms'
  BY DEF Resume
<1>4. IF waitSyms THEN UNCHANGED waitSyms
      ELSE ActivateBreakpoints(Addrs, refs) /\ waitSyms' = (\E a \in Addrs : bp'[a] = "new") /\ Arrange(TRUE, Cont)
  BY <1>2 DEF Resume
<1>5. ~waitSyms
  BY <1>3, <1>4
<1> QED BY <1>1, <1>3, <1>4, <1>5

LEMMA ResumeOrder ==
    ASSUME TypeInv, HandlersInOrder, Resume, "early" \notin Ops, "overlap" \notin Ops PROVE HandlersInOrder'
BY ResumeFacts, ArrangedOrder

LEMMA SuspendOrder ==
    ASSUME TypeInv, HandlersInOrder, Suspend PROVE HandlersInOrder'
<1>1. target' = "Suspended" /\ (todo' = <<Req("wait_stop", 0)>> \/ todo' = <<>>)
  BY DEF Suspend
<1>2. Req("wait_stop", 0).op = "wait_stop"
  BY PacketFields
<1>3. CASE todo' = <<Req("wait_stop", 0)>>
  <2>1. \A op : HasOp(todo', op) <=> op = "wait_stop"
    BY <1>2, <1>3, HasOne
  <2> QED BY <1>1, <1>3, <2>1, LocalsLastShort DEF HandlersInOrder
<1>4. CASE todo' = <<>>
  BY <1>1, <1>4, OrderDone
<1> QED BY <1>1, <1>3, <1>4

LEMMA StepFacts ==
    ASSUME NEW t \in Tids, NEW single \in BOOLEAN, NEW keep \in BOOLEAN, NEW as \in SUBSET Addrs,
           Step(t, single, keep, as), "early" \notin Ops
    PROVE  /\ Idle /\ target = "Suspended" /\ target' = "Stepping" /\ ~waitSyms
           /\ stepping'.tid = t /\ UNCHANGED <<waitSyms, pending, loaded, bp>>
           /\ Located
           /\ \E needed \in BOOLEAN : Arrange(needed, Cont)
<1>1. /\ Idle /\ target = "Suspended" /\ target' = "Stepping" /\ ~waitSyms
      /\ UNCHANGED <<waitSyms, pending, loaded, bp>> /\ Located
  BY DEF Step, UserMayAct
<1>2. stepping'.tid = t
  BY DEF Step
<1>3. \E needed \in BOOLEAN : Arrange(needed, Cont)
  <2> DEFINE needed == as # {} \/ (regs[t] \in Addrs /\ armed[regs[t]] # "gone")
  <2>1. Arrange(needed, Cont) /\ needed \in BOOLEAN
    BY DEF Step
  <2> QED BY <2>1
<1> QED BY <1>1, <1>2, <1>3

LEMMA StepActionOrder ==
    ASSUME TypeInv, HandlersInOrder, NEW t \in Tids, NEW single \in BOOLEAN, NEW keep \in BOOLEAN,
           NEW as \in SUBSET Addrs, Step(t, single, keep, as), "early" \notin Ops
    PROVE  HandlersInOrder'
<1>1. /\ target' = "Stepping" /\ ~waitSyms' /\ stepping'.tid \in Tids
  BY StepFacts
<1>2. PICK needed \in BOOLEAN : Arrange(needed, Cont)
  BY StepFacts
<1> QED BY <1>1, <1>2, ArrangedOrder

LEMMA TryPendingFacts ==
    ASSUME NEW p, NEW st, NEW r, TryPendingStep(p, st, r)
    PROVE  /\ pending' = IF p # NoPending /\ loaded' THEN NoPending ELSE p
           /\ p # NoPending /\ loaded' => stepping'.tid = p.tid
           /\ ~(p # NoPending /\ loaded') => stepping' = st
           /\ ~waitSyms' => pending' = NoPending
           /\ loaded' => ~waitSyms'
           /\ \E needed \in BOOLEAN, rest \in {<<>>, Cont} :
                 Arrange(needed, rest) /\ (rest = Cont <=> ~waitSyms')
<1> DEFINE starts == p # NoPending /\ loaded'
           r2 == IF starts THEN [r EXCEPT ![p.addr] = @ \cup {"step"}] ELSE r
<1>1. /\ ActivateBreakpoints(Addrs, r2)
      /\ stepping' = IF starts THEN [NoStep EXCEPT !.tid = p.tid, !.cursor = TRUE] ELSE st
      /\ pending' = IF starts THEN NoPending ELSE p
      /\ waitSyms' = (pending' # NoPending \/ \E a \in Addrs : bp'[a] = "new")
      /\ Arrange(starts \/ Activated(Addrs) # {}, IF waitSyms' THEN <<>> ELSE Cont)
  BY DEF TryPendingStep
<1>2. starts => stepping'.tid = p.tid
  BY <1>1 DEF NoStep
<1>3. ASSUME loaded' PROVE ~waitSyms'
  <2>1. \A a \in Addrs : bp'[a] # "new"
    BY <1>1, <1>3 DEF ActivateBreakpoints, Activated
  <2>2. pending' = NoPending
    BY <1>1, <1>3
  <2> QED BY <1>1, <2>1, <2>2
<1>4. \E needed \in BOOLEAN, rest \in {<<>>, Cont} : Arrange(needed, rest) /\ (rest = Cont <=> ~waitSyms')
  <2>1. (starts \/ Activated(Addrs) # {}) \in BOOLEAN /\ (IF waitSyms' THEN <<>> ELSE Cont) \in {<<>>, Cont}
    OBVIOUS
  <2>2. (IF waitSyms' THEN <<>> ELSE Cont) = Cont <=> ~waitSyms'
    BY HandleCont
  <2> HIDE DEF starts
  <2> QED BY <1>1, <2>1, <2>2
<1> QED BY <1>1, <1>2, <1>3, <1>4

LEMMA StepToCursorOrder ==
    ASSUME TypeInv, HandlersInOrder, NEW t \in Tids, NEW a \in Addrs, StepToCursor(t, a) PROVE HandlersInOrder'
<1> DEFINE p == [tid |-> t, addr |-> a]
           r == IF stepping # NoStep THEN NoStepRefs(refs) ELSE refs
<1>1. target' = "Stepping" /\ loaded' = loaded /\ TryPendingStep(p, NoStep, r)
  BY DEF StepToCursor
<1>2. p # NoPending /\ p.tid = t
  BY FiniteAddrs DEF NoPending
<1> HIDE DEF p, r
<1>3. /\ loaded' => stepping'.tid = p.tid
      /\ ~loaded' => pending' = p
      /\ loaded' => pending' = NoPending
      /\ ~waitSyms' => pending' = NoPending
  BY <1>1, <1>2, TryPendingFacts
<1>4. PICK needed \in BOOLEAN, rest \in {<<>>, Cont} : Arrange(needed, rest) /\ (rest = Cont <=> ~waitSyms')
  BY <1>1, TryPendingFacts
<1>5. (~waitSyms' => stepping'.tid \in Tids) /\ (stepping'.tid \in Tids \/ pending' # NoPending)
  BY <1>2, <1>3
<1> QED BY <1>1, <1>4, <1>5, ArrangedOrder

LEMMA RetryPendingOrder ==
    ASSUME TypeInv, HandlersInOrder, RetryPending PROVE HandlersInOrder'
<1>1. ~Idle /\ Head(todo).op = "retry" /\ UNCHANGED <<loaded, target>> /\ TryPendingStep(pending, stepping, refs)
  BY DEF RetryPending
<1>2. (\A op : HasOp(todo, op) <=> op = "retry") /\ target # "Exited"
  BY <1>1, LastStep DEF Locals
<1>3. loaded /\ target # "Connecting" /\ (target = "Stepping" => stepping.tid \in Tids \/ pending # NoPending)
  BY <1>2 DEF HandlersInOrder
<1>4. /\ pending # NoPending => stepping'.tid = pending.tid
      /\ pending = NoPending => stepping' = stepping
  BY <1>1, <1>3, TryPendingFacts
<1>5. pending # NoPending => pending.tid \in Tids
  BY DEF TypeInv, StepType
<1>6. target = "Stepping" => stepping'.tid \in Tids
  BY <1>3, <1>4, <1>5
<1>7. PICK needed \in BOOLEAN, rest \in {<<>>, Cont} : Arrange(needed, rest) /\ (rest = Cont <=> ~waitSyms')
  BY <1>1, TryPendingFacts
<1> QED BY <1>1, <1>2, <1>3, <1>6, <1>7, ArrangedOrder

LEMMA BreakpointOrder ==
    ASSUME TypeInv, HandlersInOrder, NEW a \in Addrs, AddBreakpoint(a) \/ RemoveBreakpoint(a) PROVE HandlersInOrder'
<1>1. CASE AddBreakpoint(a)
  <2>1. Idle /\ target # "Exited" /\ Arrange(loaded, <<>>) /\ UNCHANGED <<target, stepping, pending>>
    BY <1>1 DEF AddBreakpoint, UserMayAct, stepVars
  <2>2. target # "Connecting" /\ loaded \in BOOLEAN /\ <<>> # Cont
    BY <2>1, BetweenHandlers, HandleCont DEF TypeInv, DbgType
  <2> QED BY <2>1, <2>2, ArrangedOrder DEF HandlersInOrder
<1>2. CASE RemoveBreakpoint(a)
  BY <1>2, OrderKept DEF RemoveBreakpoint, stepVars, dbgVars, runVars
<1> QED BY <1>1, <1>2

LEMMA AddWatchOrder ==
    ASSUME TypeInv, HandlersInOrder, AddWatch PROVE HandlersInOrder'
<1>1. Idle /\ target # "Exited" /\ Arrange(TRUE, <<>>) /\ UNCHANGED <<target, stepping, pending>>
  BY DEF AddWatch, UserMayAct, stepVars
<1>2. target # "Connecting" /\ <<>> # Cont
  BY <1>1, BetweenHandlers, HandleCont
<1> QED BY <1>1, <1>2, ArrangedOrder DEF HandlersInOrder

\* Handlers of one request.
LEMMA RequestOrder ==
    ASSUME TypeInv, HandlersInOrder, RemoveWatch \/ ReadMemory
    PROVE  /\ HandlersInOrder' /\ Idle /\ target # "Exited"
           /\ WhileRunning(todo') /\ Once(todo')
           /\ \A op : HasOp(todo', op) => op \in {"z", "m"}
           /\ \A op, arg : Has(todo', op, arg) => arg \in {Data, 0}
<1>1. Idle /\ target # "Exited" /\ UNCHANGED <<target, loaded, waitSyms, stepping, pending>>
  BY DEF RemoveWatch, ReadMemory, UserMayAct, stepVars, dbgVars
<1>2. todo' = <<>> \/ \E x : todo' = <<x>> /\ ((x.op = "z" /\ x.arg = Data) \/ (x.op = "m" /\ x.arg = 0))
  BY PacketFields DEF RemoveWatch, ReadMemory
<1>3. target # "Connecting"
  BY <1>1, BetweenHandlers
<1>4. CASE todo' = <<>>
  BY <1>1, <1>3, <1>4, HasNone, OrderDone DEF HandlersInOrder
<1>5. CASE \E x : todo' = <<x>> /\ ((x.op = "z" /\ x.arg = Data) \/ (x.op = "m" /\ x.arg = 0))
  <2>1. PICK x : todo' = <<x>> /\ ((x.op = "z" /\ x.arg = Data) \/ (x.op = "m" /\ x.arg = 0))
    BY <1>5
  <2>2. \A op : HasOp(todo', op) => op \in {"z", "m"}
    BY <2>1, HasOne
  <2>3. \A op, arg : Has(todo', op, arg) => arg \in {Data, 0}
    BY <2>1, HasOne
  <2>4. LocalsLast(todo') /\ WhileRunning(todo')
    BY <2>1, LocalsLastShort DEF WhileRunning
  <2>5. Once(todo')
    BY <2>2, OnceNoZ
  <2> QED BY <1>1, <1>3, <2>2, <2>3, <2>4, <2>5 DEF HandlersInOrder
<1> QED BY <1>2, <1>4, <1>5

LEMMA SymbolsLoadedOrder ==
    ASSUME TypeInv, HandlersInOrder, SymbolsLoaded, "overlap" \notin Ops
    PROVE  /\ HandlersInOrder' /\ Idle /\ ~inFlight /\ target # "Exited" /\ HasOp(todo', "retry") /\ Once(todo')
           /\ \A op : HasOp(todo', op) => op \in {"g", "retry"}
<1> DEFINE x == Req("retry", 0)
<1>1. /\ Idle /\ ~inFlight /\ target # "Exited" /\ loaded' = TRUE
      /\ todo' = Each(Tids, "g") \o <<x>>
      /\ UNCHANGED <<target, waitSyms, stepping, pending>>
  BY DEF SymbolsLoaded, stepVars
<1>2. x \in Items /\ x.op = "retry" /\ Each(Tids, "g") \in Seq(Items)
  BY LocalItems, EachItems, PacketFields DEF Locals
<1> HIDE DEF x
<1>3. <<x>> \in Seq(Items) /\ Len(<<x>>) <= 1
  BY <1>2
<1>4. \A op : HasOp(Each(Tids, "g"), op) => op = "g"
  BY FiniteAddrs, HasEach
<1>5. \A op : HasOp(todo', op) <=> HasOp(Each(Tids, "g"), op) \/ op = "retry"
  BY <1>1, <1>2, <1>3, HasCat, HasOne
<1>6. LocalsLast(todo')
  <2>1. \A i \in DOMAIN Each(Tids, "g") : Each(Tids, "g")[i].op \notin Locals \cup {"D"}
    BY <1>4 DEF HasOp, Locals
  <2> QED BY <1>1, <1>2, <1>3, <2>1, LocalsLastCat
<1>7. target # "Connecting"
  BY <1>1, BetweenHandlers
<1>8. Once(todo')
  BY <1>4, <1>5, OnceNoZ
<1>9. target = "Stepping" => stepping.tid \in Tids \/ pending # NoPending
  BY DEF HandlersInOrder
<1> QED BY <1>1, <1>4, <1>5, <1>6, <1>7, <1>8, <1>9 DEF HandlersInOrder

LEMMA InitTodo ==
    ASSUME Init
    PROVE  /\ LocalsLast(todo) /\ Once(todo) /\ HasOp(todo, "connected")
           /\ \A op : HasOp(todo, op) => op \in Handshake \cup {"g", "connected"}
<1> DEFINE x == Req("connected", 0)
           h == <<Req("qSupported", 0), Req("?", 0), Req("threads", 0)>>
           e == Each(Tids, "g")
<1>1. todo = h \o e \o <<x>>
  BY DEF Init
<1>2. x \in Items /\ x.op = "connected" /\ e \in Seq(Items)
  BY LocalItems, EachItems, PacketFields DEF Locals
<1>3. h \in Seq(Items)
  <2>1. Req("qSupported", 0) \in Items /\ Req("?", 0) \in Items /\ Req("threads", 0) \in Items
    BY LocalItems DEF Locals
  <2> QED BY <2>1
<1>4. \A op : HasOp(h, op) => op \in Handshake
  <2>1. Req("qSupported", 0).op \in Handshake /\ Req("?", 0).op \in Handshake /\ Req("threads", 0).op \in Handshake
    BY PacketFields DEF Handshake
  <2>2. \A i \in DOMAIN h : h[i] \in {Req("qSupported", 0), Req("?", 0), Req("threads", 0)}
    OBVIOUS
  <2> HIDE DEF h
  <2> QED BY <2>1, <2>2 DEF HasOp
<1>5. \A op : HasOp(e, op) => op = "g"
  BY FiniteAddrs, HasEach
<1> HIDE DEF x, h, e
<1>6. h \o e \in Seq(Items) /\ \A op : HasOp(h \o e, op) <=> HasOp(h, op) \/ HasOp(e, op)
  BY <1>2, <1>3, CatFacts, HasCat
<1> DEFINE s == h \o e
<1>7. todo = s \o <<x>> /\ s \in Seq(Items) /\ \A op : HasOp(s, op) => op \in Handshake \cup {"g"}
  BY <1>1, <1>4, <1>5, <1>6
<1> HIDE DEF s
<1>8. <<x>> \in Seq(Items) /\ Len(<<x>>) <= 1
  BY <1>2
<1>9. \A op : HasOp(todo, op) <=> HasOp(s, op) \/ op = "connected"
  <2>1. \A op : HasOp(<<x>>, op) <=> op = "connected"
    BY <1>2, HasOne
  <2>2. \A op : HasOp(todo, op) <=> HasOp(s, op) \/ HasOp(<<x>>, op)
    BY <1>7, <1>8, HasCat
  <2> QED BY <2>1, <2>2
<1>10. LocalsLast(todo)
  <2>1. \A i \in DOMAIN s : s[i].op \notin Locals \cup {"D"}
    BY <1>7 DEF HasOp, Locals, Handshake
  <2> QED BY <1>7, <1>8, <2>1, LocalsLastCat
<1>11. ~HasOp(todo, "Z")
  <2>1. "Z" \notin Handshake \cup {"g"}
    BY DEF Handshake
  <2> QED BY <1>7, <1>9, <2>1
<1> QED BY <1>7, <1>9, <1>10, <1>11, OnceNoZ

LEMMA InitOrder ==
    ASSUME Init PROVE HandlersInOrder
<1>1. /\ LocalsLast(todo) /\ HasOp(todo, "connected")
      /\ \A op : HasOp(todo, op) => op \in Handshake \cup {"g", "connected"}
  BY InitTodo
<1>2. target = "Connecting"
  BY DEF Init
<1> QED BY <1>1, <1>2 DEF HandlersInOrder, Handshake

(***************************************************************************)
(* The debugger's picture, while no answer was lost or given up on.        *)
(***************************************************************************)

\* An interrupt, or nothing, is written; no answer is awaited.
LEMMA LocalWires ==
    ASSUME TypeInv, WiresInOrder, target # "Exited", ~await, ~await',
           UNCHANGED <<run, s2c, orphans, inFlight>>, UNCHANGED c2s \/ Write(<<Req("0x03", 0)>>)
    PROVE  WiresInOrder'
<1>1. Req("0x03", 0) \in Items /\ Req("0x03", 0).op = "0x03" /\ c2s \in Seq(Items)
  BY LocalItems, PacketFields DEF TypeInv, NetType
<1>2. (Interrupts(c2s) => Interrupts(c2s')) /\ (OneResume(c2s) => OneResume(c2s'))
  BY <1>1, WireWrite DEF Write
<1>3. CASE inFlight
  <2>1. ResumeUnderWay
    BY <1>3 DEF WiresInOrder
  <2>2. ResumeUnderWay'
    BY <1>2, <2>1 DEF ResumeUnderWay
  <2> QED BY <1>3, <2>2 DEF WiresInOrder
<1>4. CASE ~inFlight
  <2>1. NothingUnderWay
    BY <1>4 DEF WiresInOrder
  <2>2. NothingUnderWay'
    BY <1>2, <2>1 DEF NothingUnderWay
  <2> QED BY <1>4, <2>2 DEF WiresInOrder
<1> QED BY <1>3, <1>4

\* Locations change between inactive states, or not at all.
LEMMA LocalInserted ==
    ASSUME InsertedKnown, target # "Exited", ~await, ~await', UNCHANGED ins,
           target' # "Exited" =>
              /\ Once(todo')
              /\ \A a \in Addrs : armed'[a] = "yes" <=> armed[a] = "yes"
              /\ \A a \in Addrs : Has(todo', "Z", a) => armed[a] # "yes"
              /\ \A a \in Addrs : Has(todo', "z", a) => refs'[a] = {}
    PROVE  InsertedKnown'
<1>1. \A op, a : ~Asked(op, a) /\ ~Asked(op, a)'
  BY DEF Asked
<1>2. \A a \in Addrs : a \in ins <=> armed[a] = "yes"
  BY <1>1 DEF InsertedKnown
<1>3. SUFFICES ASSUME target' # "Exited"
               PROVE  /\ \A a \in Addrs : a \in ins' => armed'[a] = "yes"
                      /\ \A a \in Addrs : armed'[a] = "yes" => a \in ins'
                      /\ \A a \in Addrs : Has(todo', "Z", a) => armed'[a] # "yes"
                      /\ \A a \in Addrs : Has(todo', "z", a) => refs'[a] = {}
                      /\ Once(todo')
  BY <1>1 DEF InsertedKnown
<1> QED BY <1>2, <1>3

LEMMA LocatedYes ==
    ASSUME Located PROVE \A a \in Addrs : armed'[a] = "yes" <=> armed[a] = "yes"
BY DEF Located

LEMMA LocalRegs ==
    ASSUME RegsFollow, UNCHANGED <<regs, guest, inFlight>>, \A t \in Tids : Has(todo, "g", t) => Has(todo', "g", t)
    PROVE  RegsFollow'
BY DEF RegsFollow

LEMMA RunningKept == UNCHANGED tstate => (AnyRunning' <=> AnyRunning)
BY DEF AnyRunning

\* Nothing is under way that a user action would have to know of.
LEMMA UserFacts ==
    ASSUME TypeInv, HandlersInOrder, StepInv, Idle, target # "Exited"
    PROVE  /\ ~await /\ todo = <<>> /\ target # "Connecting"
           /\ \A op : ~HasOp(todo, op)
           /\ \A op, arg : ~Has(todo, op, arg)
           /\ stopBps => inFlight
           /\ target = "Running" => inFlight
           /\ target = "Suspended" => ~inFlight
           /\ target = "Stepping" => inFlight \/ waitSyms
           /\ inFlight <=> AnyRunning
<1>1. ~await /\ todo = <<>> /\ target # "Connecting"
  BY BetweenHandlers
<1>2. (\A op : ~HasOp(todo, op)) /\ (\A op, arg : ~Has(todo, op, arg))
  BY <1>1, HasNone
<1> QED BY <1>1, <1>2 DEF StepInv, ResumesKnown

\* The steps of a handler, up to the last, are taken while the guest is stopped.
LEMMA LastStepFacts ==
    ASSUME TypeInv, HandlersInOrder, StepInv, ~Idle, Head(todo).op \in Locals \ {"handle", "wait_stop"}
    PROVE  /\ ~inFlight /\ ~AnyRunning /\ ~run /\ s2c = <<>> /\ Interrupts(c2s) /\ orphans = <<>>
           /\ \A t \in Tids : regs[t] = guest[t]
           /\ stopBps => Head(todo).op = "stopped"
           /\ target = "Running" => Head(todo).op = "cont"
<1>1. /\ todo \in Seq(Items) /\ todo # <<>> /\ target # "Exited" /\ ~await
      /\ \A op : HasOp(todo, op) <=> op = Head(todo).op
      /\ \A op, arg : Has(todo, op, arg) => op = Head(todo).op
  BY LastStep
<1>2. ~inFlight
  <2>1. Head(todo) = todo[1] /\ 1 \in DOMAIN todo
    BY <1>1, TailFacts
  <2>2. ~WhileRunning(todo)
    BY <2>1 DEF WhileRunning, Locals
  <2> QED BY <1>1, <2>2 DEF StepInv, ResumesKnown
<1>3. NothingUnderWay /\ orphans = <<>>
  BY <1>1, <1>2 DEF StepInv, WiresInOrder
<1>4. "g" # Head(todo).op
  BY DEF Locals
<1> QED BY <1>1, <1>2, <1>3, <1>4 DEF StepInv, ResumesKnown, RegsFollow, NothingUnderWay

LEMMA StubIgnores ==
    ASSUME StubReceives, Head(c2s).op = "0x03", ~run PROVE UNCHANGED <<run, guest, ins, s2c>>
BY DEF StubReceives, StubAnswers, StubResumes, StubSteps, StubInterrupted, StubDisturbed, stubVars,
       Requests, Handshake

LEMMA StubReceivesStep ==
    ASSUME TypeInv, HandlersInOrder, StepInv, StubReceives PROVE StepInv'
<1>1. c2s # <<>> /\ c2s' = Tail(c2s) /\ UNCHANGED <<alive, connVars, stepVars, bpVars, dbgVars, runVars>>
  BY DEF StubReceives
<1>2. /\ c2s \in Seq(Items) /\ s2c \in Seq(Replies) /\ run \in BOOLEAN /\ StubType
      /\ Head(c2s) \in Items /\ orphans = <<>> /\ orphans' = <<>>
      /\ UNCHANGED <<inFlight, refs, armed, target, tstate, regs, stopBps, waitSyms, todo, await>>
  BY <1>1, TailFacts DEF TypeInv, NetType, StubType, StepInv, WiresInOrder, connVars, bpVars, dbgVars, runVars
<1>3. ResumesKnown' /\ UsedInserted'
  <2>1. ResumesKnown'
    BY <1>2, RunningKept DEF StepInv, ResumesKnown
  <2>2. UsedInserted'
    BY <1>2 DEF StepInv, UsedInserted
  <2> QED BY <2>1, <2>2
<1>4. SUFFICES /\ (inFlight => ResumeUnderWay)' /\ (~inFlight /\ await => RequestUnderWay)'
               /\ (~inFlight /\ ~await => NothingUnderWay)'
               /\ RegsFollow' /\ InsertedKnown'
  BY <1>2, <1>3 DEF StepInv, WiresInOrder
<1>5. ASSUME UNCHANGED ins, ~await PROVE InsertedKnown'
  <2>1. \A op, a : ~Asked(op, a) /\ ~Asked(op, a)'
    BY <1>2, <1>5 DEF Asked
  <2>2. InsertedKnown
    BY DEF StepInv
  <2> QED BY <1>2, <1>5, <2>1, <2>2 DEF InsertedKnown
<1>6. ASSUME NEW t \in Tids, NEW why \in {0, 1}, StopGuest(t, why), s2c = <<>>
      PROVE  ~run' /\ Len(s2c') = 1 /\ IsStop(s2c'[1])
  <2>1. run' = FALSE /\ s2c' = Append(s2c, Packet("T", t, why))
    BY <1>6 DEF StopGuest
  <2>2. Len(s2c') = 1 /\ s2c'[1] = Packet("T", t, why)
    BY <1>2, <1>6, <2>1
  <2> QED BY <2>1, <2>2, PacketFields DEF IsStop
<1>7. CASE inFlight
  <2>1. ResumeUnderWay /\ ~await
    BY <1>7 DEF StepInv, WiresInOrder, ResumeUnderWay
  <2>2. SUFFICES UNCHANGED ins /\ \/ run' /\ s2c' = <<>> /\ Interrupts(c2s')
                                  \/ ~run' /\ Len(s2c') = 1 /\ IsStop(s2c'[1]) /\ Interrupts(c2s')
                                  \/ ~run' /\ s2c' = <<>> /\ OneResume(c2s')
    BY <1>2, <1>5, <1>7, <2>1 DEF RegsFollow, ResumeUnderWay
  <2>3. CASE run /\ s2c = <<>> /\ Interrupts(c2s)
    <3>1. Head(c2s).op = "0x03" /\ Interrupts(c2s')
      BY <1>1, <1>2, <2>3, WireRead
    <3>2. StubInterrupted
      BY <2>3, <3>1 DEF StubReceives, StubAnswers, StubResumes, StubSteps, StubDisturbed
    <3>3. PICK t \in Tids : StopGuest(t, 0) /\ UNCHANGED ins
      BY <2>3, <3>2 DEF StubInterrupted
    <3> QED BY <1>6, <2>3, <3>1, <3>3
  <2>4. CASE ~run /\ Len(s2c) = 1 /\ IsStop(s2c[1]) /\ Interrupts(c2s)
    <3>1. Head(c2s).op = "0x03" /\ Interrupts(c2s')
      BY <1>1, <1>2, <2>4, WireRead
    <3>2. UNCHANGED <<run, guest, ins, s2c>>
      BY <2>4, <3>1, StubIgnores
    <3> QED BY <2>4, <3>1, <3>2
  <2>5. CASE ~run /\ s2c = <<>> /\ OneResume(c2s)
    <3>1. CASE Head(c2s).op = "0x03"
      <4>1. OneResume(c2s')
        BY <1>1, <1>2, <2>5, <3>1, WireRead
      <4>2. UNCHANGED <<run, guest, ins, s2c>>
        BY <2>5, <3>1, StubIgnores
      <4> QED BY <2>5, <4>1, <4>2
    <3>2. CASE Head(c2s).op # "0x03"
      <4>1. Head(c2s).op \in {"vCont;c", "vCont;s"} /\ Interrupts(c2s')
        BY <1>1, <1>2, <2>5, <3>2, WireRead
      <4>2. StubResumes \/ StubSteps
        BY <2>5, <3>2, <4>1 DEF StubReceives, StubAnswers, StubInterrupted, StubDisturbed, Requests, Handshake
      <4>3. CASE StubResumes
        BY <2>5, <4>1, <4>3 DEF StubResumes
      <4>4. CASE StubSteps
        <5>1. PICK t \in Tids : StopGuest(t, 0)
          BY <4>4 DEF StubSteps
        <5>2. UNCHANGED ins
          BY <4>4 DEF StubSteps
        <5> QED BY <1>6, <2>5, <4>1, <5>1, <5>2
      <4> QED BY <4>2, <4>3, <4>4
    <3> QED BY <3>1, <3>2
  <2> QED BY <2>1, <2>3, <2>4, <2>5 DEF ResumeUnderWay
<1>8. CASE ~inFlight /\ ~await
  <2>1. NothingUnderWay
    BY <1>8 DEF StepInv, WiresInOrder
  <2>2. ~run /\ s2c = <<>> /\ Interrupts(c2s)
    BY <1>1, <2>1 DEF NothingUnderWay
  <2>3. Head(c2s).op = "0x03" /\ Interrupts(c2s')
    BY <1>1, <1>2, <2>2, WireRead
  <2>4. UNCHANGED <<run, guest, ins, s2c>>
    BY <2>2, <2>3, StubIgnores
  <2>5. RegsFollow'
    BY <1>2, <2>4, LocalRegs DEF StepInv
  <2> QED BY <1>2, <1>5, <1>8, <2>2, <2>3, <2>4, <2>5 DEF NothingUnderWay
<1>9. CASE ~inFlight /\ await
  <2>1. RequestUnderWay /\ todo # <<>> /\ Head(todo).op \in Requests /\ Head(todo) \in Items
    BY <1>9, AwaitHead DEF StepInv, WiresInOrder, TypeInv, RunType
  <2>2. ~run /\ s2c = <<>> /\ Asking(c2s, Head(todo))
    BY <1>1, <2>1 DEF RequestUnderWay
  <2>3. \A op, a : ~Asked(op, a)
    BY <1>1 DEF Asked
  <2>4. CASE Head(c2s).op = "0x03"
    <3>1. Asking(c2s', Head(todo))
      BY <1>1, <1>2, <2>1, <2>2, <2>4, WireRead DEF Requests, Handshake
    <3>2. UNCHANGED <<run, guest, ins, s2c>>
      BY <2>2, <2>4, StubIgnores
    <3>3. RequestUnderWay'
      BY <1>2, <2>2, <3>1, <3>2 DEF RequestUnderWay
    <3>4. \A op, a : ~Asked(op, a)'
      BY <3>1 DEF Asked, Asking
    <3>5. InsertedKnown'
      <4>1. InsertedKnown
        BY DEF StepInv
      <4> QED BY <1>2, <2>3, <3>2, <3>4, <4>1 DEF InsertedKnown
    <3>6. RegsFollow'
      BY <1>2, <3>2, LocalRegs DEF StepInv
    <3> QED BY <1>2, <1>9, <3>3, <3>5, <3>6
  <2>5. CASE Head(c2s).op # "0x03"
    <3> DEFINE q == Head(todo)
    <3>1. Head(c2s) = q /\ c2s' = <<>>
      BY <1>1, <1>2, <2>2, <2>5, WireRead
    <3>2. StubAnswers
      BY <2>1, <2>2, <2>5, <3>1 DEF StubReceives, StubResumes, StubSteps, StubInterrupted, StubDisturbed,
         Requests, Handshake
    <3> HIDE DEF q
    <3>3. PICK r \in Answer(q) :
             /\ s2c' = Append(s2c, r)
             /\ ins' = CASE q.op = "Z" /\ r.val = 1 -> ins \cup {q.arg}
                         [] q.op = "z" -> ins \ {q.arg}
                         [] q.op = "D" -> {}
                         [] OTHER      -> ins
      BY <3>1, <3>2 DEF StubAnswers
    <3>4. run' = (q.op = "D") /\ guest' = guest
      BY <3>1, <3>2 DEF StubAnswers
    <3>5. q \in Items /\ q.op \in Requests /\ Head(todo) = q /\ Head(todo') = q
      BY <1>2, <2>1 DEF q
    <3>6. r \in Replies /\ Matches(r, q) /\ (q.op = "g" => r.val = guest[q.arg])
      BY <1>2, <3>3, <3>5, AnswerType
    <3>7. Len(s2c') = 1 /\ s2c'[1] = r
      BY <1>2, <2>2, <3>3, <3>6
    <3>8. RequestUnderWay'
      BY <3>1, <3>4, <3>5, <3>6, <3>7 DEF RequestUnderWay
    <3>9. RegsFollow'
      BY <1>2, <3>4, LocalRegs DEF StepInv
    <3>10. ASSUME target' # "Exited" PROVE InsertedKnown'
      <4>1. q.op # "D"
        <5>1. HasOp(todo, q.op)
          BY <2>1, <3>5, HasTail DEF TypeInv, RunType
        <5> QED BY <1>2, <3>10, <5>1 DEF HandlersInOrder
      <4>2. /\ \A a \in Addrs : a \in ins <=> armed[a] = "yes"
            /\ \A a \in Addrs : Has(todo, "Z", a) => armed[a] # "yes"
            /\ \A a \in Addrs : Has(todo, "z", a) => refs[a] = {}
            /\ Once(todo)
        BY <1>2, <2>3, <3>10 DEF StepInv, InsertedKnown
      <4>3. q.op = "Z" => Has(todo, "Z", q.arg)
        BY <2>1, <3>5, HasTail DEF TypeInv, RunType
      <4>4. \A op, a : Asked(op, a)' <=> q.op = op /\ q.arg = a
        BY <1>2, <1>9, <3>1, <3>5 DEF Asked
      <4>5. CASE q.op = "Z"
        <5>1. ins' = IF r.val = 1 THEN ins \cup {q.arg} ELSE ins
          BY <3>3, <4>5
        <5>2. \A a \in Addrs : a = q.arg => a \notin ins
          BY <4>2, <4>3, <4>5
        <5> QED BY <1>2, <3>7, <4>2, <4>4, <4>5, <5>1, <5>2 DEF InsertedKnown
      <4>6. CASE q.op = "z"
        <5>1. ins' = ins \ {q.arg}
          BY <3>3, <4>6
        <5> QED BY <1>2, <4>2, <4>4, <4>6, <5>1 DEF InsertedKnown
      <4>7. CASE q.op \notin {"Z", "z"}
        <5>1. ins' = ins
          BY <3>3, <4>1, <4>7
        <5> QED BY <1>2, <4>2, <4>4, <4>7, <5>1 DEF InsertedKnown
      <4> QED BY <4>5, <4>6, <4>7
    <3>11. InsertedKnown'
      BY <3>10 DEF InsertedKnown
    <3> QED BY <1>2, <1>9, <3>8, <3>9, <3>11
  <2> QED BY <2>4, <2>5
<1> QED BY <1>7, <1>8, <1>9


\* A step that neither reads an answer nor asks for one: what is left to show of it.
LEMMA QuietStep ==
    ASSUME TypeInv, StepInv, target # "Exited", ~await, ~await',
           UNCHANGED <<run, guest, ins, s2c, orphans, inFlight, regs, tstate>>,
           UNCHANGED c2s \/ Write(<<Req("0x03", 0)>>),
           \A t \in Tids : Has(todo, "g", t) => Has(todo', "g", t),
           target' # "Exited" =>
              /\ Once(todo')
              /\ \A a \in Addrs : armed'[a] = "yes" <=> armed[a] = "yes"
              /\ \A a \in Addrs : Has(todo', "Z", a) => armed[a] # "yes"
              /\ \A a \in Addrs : Has(todo', "z", a) => refs'[a] = {},
           stopBps' => inFlight \/ HasOp(todo', "stopped"),
           inFlight /\ target' # "Exited" => WhileRunning(todo'),
           target' = "Running" => inFlight \/ HasOp(todo', "cont"),
           target' = "Stepping" => inFlight \/ HasOp(todo', "cont") \/ waitSyms',
           target' = "Suspended" /\ inFlight => HasOp(todo', "wait_stop"),
           UsedInserted'
    PROVE  StepInv'
<1>1. WiresInOrder'
  BY LocalWires DEF StepInv
<1>2. InsertedKnown'
  BY LocalInserted DEF StepInv
<1>3. RegsFollow'
  BY LocalRegs DEF StepInv
<1>4. ResumesKnown'
  BY RunningKept DEF StepInv, ResumesKnown
<1> QED BY <1>1, <1>2, <1>3, <1>4 DEF StepInv

LEMMA GuestStopsStep ==
    ASSUME TypeInv, HandlersInOrder, StepInv, GuestStops PROVE StepInv'
<1>1. /\ run /\ target # "Exited"
      /\ UNCHANGED <<ins, c2s, alive, orphans, inFlight, refs, armed, target, tstate, regs, stopBps, waitSyms,
                     todo, await>>
  BY DEF GuestStops, connVars, bpVars, dbgVars, runVars
<1>2. s2c \in Seq(Replies) /\ orphans = <<>>
  BY DEF TypeInv, NetType, StepInv, WiresInOrder
<1>3. inFlight
  <2>1. CASE ~inFlight /\ ~await
    BY <1>1, <2>1 DEF StepInv, WiresInOrder, NothingUnderWay
  <2>2. CASE ~inFlight /\ await
    <3>1. Head(todo).op = "D" /\ todo # <<>> /\ todo \in Seq(Items)
      BY <1>1, <2>2, AwaitHead DEF StepInv, WiresInOrder, RequestUnderWay, TypeInv, RunType
    <3>2. HasOp(todo, "D")
      BY <3>1, HasTail
    <3> QED BY <1>1, <3>2 DEF HandlersInOrder
  <2> QED BY <2>1, <2>2
<1>4. ResumeUnderWay
  BY <1>3 DEF StepInv, WiresInOrder
<1>5. s2c = <<>> /\ Interrupts(c2s) /\ ~await
  BY <1>1, <1>4 DEF ResumeUnderWay
<1>6. PICK t \in Tids, why \in {0, 1} : StopGuest(t, why)
  BY DEF GuestStops
<1>7. ~run' /\ Len(s2c') = 1 /\ IsStop(s2c'[1])
  <2>1. run' = FALSE /\ s2c' = Append(s2c, Packet("T", t, why))
    BY <1>6 DEF StopGuest
  <2>2. Len(s2c') = 1 /\ s2c'[1] = Packet("T", t, why)
    BY <1>2, <1>5, <2>1
  <2> QED BY <2>1, <2>2, PacketFields DEF IsStop
<1>8. WiresInOrder'
  BY <1>1, <1>2, <1>3, <1>5, <1>7 DEF WiresInOrder, ResumeUnderWay
<1>9. ResumesKnown' /\ UsedInserted' /\ RegsFollow'
  <2>1. ResumesKnown'
    BY <1>1, RunningKept DEF StepInv, ResumesKnown
  <2>2. UsedInserted'
    BY <1>1 DEF StepInv, UsedInserted
  <2>3. RegsFollow'
    BY <1>1, <1>3 DEF RegsFollow
  <2> QED BY <2>1, <2>2, <2>3
<1>10. InsertedKnown'
  <2>1. \A op, a : ~Asked(op, a) /\ ~Asked(op, a)'
    BY <1>1, <1>5 DEF Asked
  <2>2. InsertedKnown
    BY DEF StepInv
  <2> QED BY <1>1, <2>1, <2>2 DEF InsertedKnown
<1> QED BY <1>8, <1>9, <1>10 DEF StepInv

\* While no answer is given up on, an answer comes.
LEMMA WaitReplyFailsStep ==
    ASSUME TypeInv, StepInv, alive, WaitReplyFails, ~late' PROVE FALSE
<1>1. await /\ s2c = <<>> /\ c2s = <<>> /\ ~run
  BY DEF WaitReplyFails, ReadFails, NothingToCome
<1>2. RequestUnderWay
  BY <1>1 DEF StepInv, WiresInOrder, ResumeUnderWay
<1>3. Len(s2c) = 0
  BY <1>1
<1> QED BY <1>1, <1>2, <1>3 DEF RequestUnderWay, Asking

LEMMA WaitStopFailsStep ==
    ASSUME TypeInv, HandlersInOrder, StepInv, alive, WaitStopFails, ~late' PROVE StepInv'
<1>1. /\ s2c = <<>> /\ c2s = <<>> /\ ~run /\ ~Idle /\ Head(todo).op = "wait_stop" /\ todo' = <<>>
      /\ UNCHANGED <<run, guest, ins, c2s, s2c, orphans, inFlight, refs, armed, target, tstate, regs, stopBps,
                     waitSyms, await>>
  BY DEF WaitStopFails, ReadFails, NothingToCome, stubVars, netVars, connVars, bpVars, dbgVars
<1>2. ~inFlight
  <2>1. Len(s2c) = 0 /\ ~OneResume(c2s)
    BY <1>1 DEF OneResume
  <2> QED BY <1>1, <2>1 DEF StepInv, WiresInOrder, ResumeUnderWay
<1>3. /\ target # "Exited" /\ ~await
      /\ \A op : HasOp(todo, op) <=> op = "wait_stop"
      /\ \A op, arg : Has(todo, op, arg) => op = "wait_stop"
  BY <1>1, LastStep DEF Locals
<1>4. /\ \A op : ~HasOp(todo', op)
      /\ \A op, arg : ~Has(todo', op, arg)
      /\ Once(todo')
  BY <1>1, HasNone
<1>5. ~stopBps /\ target # "Running" /\ (target = "Stepping" => waitSyms)
  BY <1>2, <1>3 DEF StepInv, ResumesKnown
<1>6. UsedInserted'
  BY <1>1, <1>5 DEF UsedInserted
<1> QED BY <1>1, <1>2, <1>3, <1>4, <1>5, <1>6, QuietStep

\* What the user does between two handlers.
LEMMA ConnectedStep ==
    ASSUME TypeInv, HandlersInOrder, StepInv, Connected PROVE StepInv'
<1>1. /\ ~Idle /\ Head(todo).op = "connected" /\ todo' = <<>> /\ target' = "Suspended"
      /\ UNCHANGED <<run, guest, ins, c2s, s2c, orphans, inFlight, refs, armed, tstate, regs, stopBps, await>>
  BY DEF Connected, stubVars, netVars, connVars, bpVars
<1>2. ~inFlight /\ ~stopBps
  BY <1>1, LastStepFacts DEF Locals
<1>3. target # "Exited" /\ ~await /\ \A op, arg : Has(todo, op, arg) => op = "connected"
  BY <1>1, LastStep DEF Locals
<1>4. (\A op, arg : ~Has(todo', op, arg)) /\ Once(todo')
  BY <1>1, HasNone
<1>5. UsedInserted'
  BY <1>1 DEF UsedInserted
<1> QED BY <1>1, <1>2, <1>3, <1>4, <1>5, QuietStep

LEMMA DetachStep ==
    ASSUME TypeInv, HandlersInOrder, StepInv, Idle, target # "Exited", DetachFromStub PROVE StepInv'
<1>1. /\ target' = "Exited"
      /\ UNCHANGED <<run, guest, ins, c2s, s2c, orphans, inFlight, refs, armed, tstate, regs, stopBps, await>>
  BY DEF DetachFromStub, stubVars, netVars, connVars, bpVars
<1>2. ~await /\ (\A op, arg : ~Has(todo, op, arg)) /\ (stopBps => inFlight)
  BY UserFacts
<1>3. UsedInserted'
  BY <1>1 DEF UsedInserted
<1> QED BY <1>1, <1>2, <1>3, QuietStep

LEMMA ResumeStep ==
    ASSUME TypeInv, HandlersInOrder, StepInv, Resume, "early" \notin Ops, "overlap" \notin Ops PROVE StepInv'
<1>1. /\ Idle /\ target = "Suspended" /\ target' = "Running" /\ ActivateBreakpoints(Addrs, refs)
      /\ Arrange(TRUE, Cont)
      /\ UNCHANGED <<run, guest, ins, s2c, orphans, inFlight, tstate, regs, await>>
  BY ResumeFacts DEF Resume, UserMayAct, stubVars, connVars
<1>2. /\ ~await /\ ~inFlight /\ ~AnyRunning /\ ~stopBps
      /\ \A op, arg : ~Has(todo, op, arg)
  BY <1>1, UserFacts
<1>3. /\ Once(todo') /\ UNCHANGED <<stopBps, c2s>>
      /\ \A op : HasOp(todo', op) <=> op \in {"handle", "cont"}
  BY <1>1, <1>2, ArrangeOrder
<1>4. \A op, arg : Has(todo', op, arg) => op \in {"handle", "cont"}
  BY <1>3, OnlyHas
<1>5. \A a \in Addrs : armed'[a] = "yes" <=> armed[a] = "yes"
  BY <1>1, LocatedYes DEF ActivateBreakpoints
<1>6. UsedInserted'
  BY <1>3 DEF UsedInserted
<1> QED BY <1>1, <1>2, <1>3, <1>4, <1>5, <1>6, QuietStep

LEMMA SuspendStep ==
    ASSUME TypeInv, HandlersInOrder, StepInv, alive, Suspend PROVE StepInv'
<1>1. /\ Idle /\ target # "Exited" /\ target' = "Suspended" /\ Write(<<Req("0x03", 0)>>)
      /\ todo' = <<Req("wait_stop", 0)>>
      /\ UNCHANGED <<run, guest, ins, s2c, orphans, inFlight, tstate, regs, stopBps, armed, await>>
  BY DEF Suspend, UserMayAct, stubVars, connVars
<1>2. ~await /\ (stopBps => inFlight) /\ \A op, arg : ~Has(todo, op, arg)
  BY <1>1, UserFacts
<1>3. Req("wait_stop", 0).op = "wait_stop"
  BY PacketFields
<1>4. /\ \A op : HasOp(todo', op) <=> op = "wait_stop"
      /\ \A op, arg : Has(todo', op, arg) => op = "wait_stop"
  BY <1>1, <1>3, HasOne
<1>5. Once(todo')
  BY <1>4, OnceNoZ
<1>6. WhileRunning(todo')
  BY <1>4 DEF WhileRunning, HasOp
<1>7. UsedInserted'
  BY <1>1 DEF UsedInserted
<1> QED BY <1>1, <1>2, <1>4, <1>5, <1>6, <1>7, QuietStep

LEMMA StepActionStep ==
    ASSUME TypeInv, HandlersInOrder, StepInv, NEW t \in Tids, NEW single \in BOOLEAN, NEW keep \in BOOLEAN,
           NEW as \in SUBSET Addrs, Step(t, single, keep, as), "early" \notin Ops
    PROVE  StepInv'
<1>1. /\ Idle /\ target = "Suspended" /\ target' = "Stepping" /\ Located
      /\ \E needed \in BOOLEAN : Arrange(needed, Cont)
  BY StepFacts
<1>2. UNCHANGED <<run, guest, ins, s2c, orphans, inFlight, tstate, regs, await>>
  BY DEF Step, stubVars, connVars
<1>3. /\ ~await /\ ~inFlight /\ ~AnyRunning /\ ~stopBps
      /\ \A op, arg : ~Has(todo, op, arg)
  BY <1>1, UserFacts
<1>4. PICK needed \in BOOLEAN : Arrange(needed, Cont)
  BY <1>1
<1>5. /\ Once(todo') /\ UNCHANGED <<stopBps, c2s>> /\ HasOp(todo', "cont")
      /\ \A op : HasOp(todo', op) => op \in {"handle", "cont"}
  BY <1>3, <1>4, ArrangeOrder
<1>6. \A op, arg : Has(todo', op, arg) => op \in {"handle", "cont"}
  BY <1>5, OnlyHas
<1>7. \A a \in Addrs : armed'[a] = "yes" <=> armed[a] = "yes"
  BY <1>1, LocatedYes
<1>8. UsedInserted'
  BY <1>1 DEF UsedInserted
<1> QED BY <1>1, <1>2, <1>3, <1>5, <1>6, <1>7, <1>8, QuietStep

\* Both attempts of try_pending_step_and_activate_breakpoints() find a stopped guest.
LEMMA TryPendingStepStep ==
    ASSUME TypeInv, StepInv, NEW p, NEW st, NEW r, TryPendingStep(p, st, r),
           ~await, ~inFlight, ~AnyRunning, ~stopBps, target # "Exited", target' # "Running",
           \A op, arg : Has(todo, op, arg) => op # "g",
           target' = "Stepping" => HasOp(todo', "cont") \/ waitSyms',
           UNCHANGED <<run, guest, ins, s2c, orphans, inFlight, tstate, regs, await>>
    PROVE  StepInv'
<1>1. PICK needed \in BOOLEAN, rest \in {<<>>, Cont} : Arrange(needed, rest)
  BY TryPendingFacts
<1>2. /\ Once(todo') /\ UNCHANGED <<stopBps, c2s>>
      /\ \A op : HasOp(todo', op) => op \in {"handle", "cont"}
  BY <1>1, ArrangeOrder
<1>3. \A op, arg : Has(todo', op, arg) => op \in {"handle", "cont"}
  BY <1>2, OnlyHas
<1>4. \A a \in Addrs : armed'[a] = "yes" <=> armed[a] = "yes"
  BY LocatedYes DEF TryPendingStep, ActivateBreakpoints
<1>5. UsedInserted'
  BY DEF UsedInserted
<1> QED BY <1>2, <1>3, <1>4, <1>5, QuietStep

\* Whether the program goes on after try_pending_step_and_activate_breakpoints().
LEMMA TryPendingGoesOn ==
    ASSUME NEW p, NEW st, NEW r, TryPendingStep(p, st, r)
    PROVE  HasOp(todo', "cont") \/ waitSyms'
<1>1. PICK needed \in BOOLEAN, rest \in {<<>>, Cont} : Arrange(needed, rest) /\ (rest = Cont <=> ~waitSyms')
  BY TryPendingFacts
<1> QED BY <1>1, ArrangeOrder

LEMMA StepToCursorStep ==
    ASSUME TypeInv, HandlersInOrder, StepInv, NEW t \in Tids, NEW a \in Addrs, StepToCursor(t, a),
           "overlap" \notin Ops
    PROVE  StepInv'
<1> DEFINE p == [tid |-> t, addr |-> a]
           r == IF stepping # NoStep THEN NoStepRefs(refs) ELSE refs
<1>1. /\ Idle /\ target = "Suspended" /\ target' = "Stepping" /\ TryPendingStep(p, NoStep, r)
      /\ UNCHANGED <<run, guest, ins, s2c, orphans, inFlight, tstate, regs, await>>
  BY DEF StepToCursor, UserMayAct, stubVars, connVars
<1> HIDE DEF p, r
<1>2. /\ ~await /\ ~inFlight /\ ~AnyRunning /\ ~stopBps
      /\ \A op, arg : ~Has(todo, op, arg)
  BY <1>1, UserFacts
<1>3. HasOp(todo', "cont") \/ waitSyms'
  BY <1>1, TryPendingGoesOn
<1> QED BY <1>1, <1>2, <1>3, TryPendingStepStep

LEMMA RetryPendingStep ==
    ASSUME TypeInv, HandlersInOrder, StepInv, RetryPending PROVE StepInv'
<1>1. /\ ~Idle /\ Head(todo).op = "retry" /\ TryPendingStep(pending, stepping, refs)
      /\ UNCHANGED <<run, guest, ins, s2c, orphans, inFlight, target, tstate, regs, await>>
  BY DEF RetryPending, stubVars, connVars
<1>2. ~inFlight /\ ~AnyRunning /\ ~stopBps /\ target # "Running"
  BY <1>1, LastStepFacts DEF Locals
<1>3. ~await /\ target # "Exited" /\ \A op, arg : Has(todo, op, arg) => op = "retry"
  BY <1>1, LastStep DEF Locals
<1>4. HasOp(todo', "cont") \/ waitSyms'
  BY <1>1, TryPendingGoesOn
<1> QED BY <1>1, <1>2, <1>3, <1>4, TryPendingStepStep

LEMMA NothingToDo ==
    ASSUME NEW s, \A op : ~HasOp(s, op)
    PROVE  WhileRunning(s) /\ Once(s) /\ \A op, arg : ~Has(s, op, arg)
BY DEF WhileRunning, Once, HasOp, Has

LEMMA AddBreakpointStep ==
    ASSUME TypeInv, HandlersInOrder, StepInv, NEW a \in Addrs, AddBreakpoint(a) PROVE StepInv'
<1>1. /\ Idle /\ target # "Exited" /\ Located /\ Arrange(loaded, <<>>)
      /\ waitSyms' = (waitSyms \/ ~loaded) /\ (~loaded => refs' = refs)
      /\ UNCHANGED <<run, guest, ins, s2c, orphans, inFlight, target, tstate, regs, await>>
  BY DEF AddBreakpoint, UserMayAct, stubVars, connVars
<1>2. /\ ~await /\ (\A op : ~HasOp(todo, op)) /\ (\A op, arg : ~Has(todo, op, arg))
      /\ stopBps => inFlight
      /\ target = "Running" => inFlight
      /\ target = "Suspended" => ~inFlight
      /\ target = "Stepping" => inFlight \/ waitSyms
      /\ inFlight <=> AnyRunning
  BY <1>1, UserFacts
<1>3. /\ loaded \in BOOLEAN /\ stopBps \in BOOLEAN
  BY DEF TypeInv, DbgType
<1>4. /\ Once(todo') /\ (UNCHANGED c2s \/ Write(<<Req("0x03", 0)>>))
      /\ \A op : HasOp(todo', op) => op = "handle" /\ ~AnyRunning
      /\ loaded /\ AnyRunning => stopBps' = TRUE
      /\ ~(loaded /\ AnyRunning) => stopBps' = stopBps
  BY <1>1, <1>3, ArrangeOrder DEF Cont
<1>5. \A op, arg : Has(todo', op, arg) => op = "handle"
  BY <1>4, OnlyHas
<1>6. inFlight => WhileRunning(todo')
  BY <1>2, <1>4, NothingToDo
<1>7. \A b \in Addrs : armed'[b] = "yes" <=> armed[b] = "yes"
  BY <1>1, LocatedYes
<1>8. UsedInserted'
  <2>1. SUFFICES ASSUME target = "Running", ~stopBps', NEW b \in Addrs, refs'[b] # {}
                 PROVE  armed'[b] \in {"yes", "err"}
    BY <1>1 DEF UsedInserted
  <2>2. ~loaded /\ ~stopBps /\ refs' = refs
    BY <1>1, <1>2, <1>4, <2>1
  <2>3. armed[b] \in {"yes", "err"}
    BY <1>2, <2>1, <2>2 DEF StepInv, UsedInserted
  <2> QED BY <1>1, <2>3 DEF Located
<1> QED BY <1>1, <1>2, <1>3, <1>4, <1>5, <1>6, <1>7, <1>8, QuietStep

LEMMA RemoveBreakpointStep ==
    ASSUME TypeInv, HandlersInOrder, StepInv, NEW a \in Addrs, RemoveBreakpoint(a) PROVE StepInv'
<1>1. /\ Idle /\ target # "Exited" /\ refs' = [refs EXCEPT ![a] = @ \ {"user"}]
      /\ UNCHANGED <<run, guest, ins, c2s, s2c, orphans, inFlight, armed, target, tstate, regs, stopBps, waitSyms,
                     todo, await>>
  BY DEF RemoveBreakpoint, UserMayAct, stubVars, netVars, connVars, dbgVars, runVars
<1>2. /\ ~await /\ todo = <<>> /\ (\A op : ~HasOp(todo, op)) /\ (\A op, arg : ~Has(todo, op, arg))
      /\ stopBps => inFlight
      /\ target = "Running" => inFlight
      /\ target = "Suspended" => ~inFlight
      /\ target = "Stepping" => inFlight \/ waitSyms
  BY <1>1, UserFacts
<1>3. Once(todo') /\ WhileRunning(todo') /\ (\A op, arg : ~Has(todo', op, arg))
  BY <1>1, <1>2, HasNone
<1>4. \A b \in Addrs : refs'[b] # {} => refs[b] # {}
  BY <1>1 DEF TypeInv, BpType
<1>5. UsedInserted'
  BY <1>1, <1>2, <1>4 DEF StepInv, UsedInserted
<1> QED BY <1>1, <1>2, <1>3, <1>5, QuietStep

LEMMA AddWatchStep ==
    ASSUME TypeInv, HandlersInOrder, StepInv, AddWatch PROVE StepInv'
<1>1. /\ Idle /\ target # "Exited" /\ Arrange(TRUE, <<>>)
      /\ UNCHANGED <<run, guest, ins, s2c, orphans, inFlight, refs, armed, target, tstate, regs, waitSyms, await>>
  BY DEF AddWatch, UserMayAct, stubVars, connVars
<1>2. /\ ~await /\ (\A op, arg : ~Has(todo, op, arg))
      /\ stopBps => inFlight
      /\ target = "Running" => inFlight
      /\ target = "Suspended" => ~inFlight
      /\ target = "Stepping" => inFlight \/ waitSyms
      /\ inFlight <=> AnyRunning
  BY <1>1, UserFacts
<1>3. /\ Once(todo') /\ (UNCHANGED c2s \/ Write(<<Req("0x03", 0)>>))
      /\ \A op : HasOp(todo', op) => op = "handle" /\ ~AnyRunning
      /\ AnyRunning => stopBps' = TRUE
      /\ ~AnyRunning => stopBps' = stopBps
  BY <1>1, ArrangeOrder DEF Cont
<1>4. \A op, arg : Has(todo', op, arg) => op = "handle"
  BY <1>3, OnlyHas
<1>5. inFlight => WhileRunning(todo')
  BY <1>2, <1>3, NothingToDo
<1>6. UsedInserted'
  BY <1>1, <1>2, <1>3 DEF UsedInserted
<1> QED BY <1>1, <1>2, <1>3, <1>4, <1>5, <1>6, QuietStep

LEMMA RequestStep ==
    ASSUME TypeInv, HandlersInOrder, StepInv, RemoveWatch \/ ReadMemory PROVE StepInv'
<1>1. /\ Idle /\ target # "Exited" /\ WhileRunning(todo') /\ Once(todo')
      /\ \A op : HasOp(todo', op) => op \in {"z", "m"}
      /\ \A op, arg : Has(todo', op, arg) => arg \in {Data, 0}
  BY RequestOrder
<1>2. UNCHANGED <<run, guest, ins, c2s, s2c, orphans, inFlight, refs, armed, target, tstate, regs, stopBps, waitSyms,
                  await>>
  BY DEF RemoveWatch, ReadMemory, stubVars, netVars, connVars, bpVars, dbgVars
<1>3. /\ ~await /\ (\A op : ~HasOp(todo, op)) /\ (\A op, arg : ~Has(todo, op, arg))
      /\ stopBps => inFlight
      /\ target = "Running" => inFlight
      /\ target = "Suspended" => ~inFlight
      /\ target = "Stepping" => inFlight \/ waitSyms
  BY <1>1, UserFacts
<1>4. \A op : \A a \in Addrs : ~Has(todo', op, a)
  BY <1>1, FiniteAddrs
<1>5. UsedInserted'
  BY <1>2, <1>3 DEF StepInv, UsedInserted
<1> QED BY <1>1, <1>2, <1>3, <1>4, <1>5, QuietStep

LEMMA SymbolsLoadedStep ==
    ASSUME TypeInv, HandlersInOrder, StepInv, SymbolsLoaded, "overlap" \notin Ops PROVE StepInv'
<1>1. /\ Idle /\ target # "Exited" /\ ~inFlight /\ Once(todo')
      /\ \A op : HasOp(todo', op) => op \in {"g", "retry"}
  BY SymbolsLoadedOrder
<1>2. UNCHANGED <<run, guest, ins, c2s, s2c, orphans, inFlight, refs, armed, target, tstate, regs, stopBps, waitSyms,
                  await>>
  BY DEF SymbolsLoaded, stubVars, netVars, connVars, bpVars
<1>3. /\ ~await /\ (\A op, arg : ~Has(todo, op, arg))
      /\ ~stopBps /\ target # "Running" /\ (target = "Stepping" => waitSyms)
  BY <1>1, UserFacts
<1>4. \A op, arg : Has(todo', op, arg) => op \in {"g", "retry"}
  BY <1>1, OnlyHas
<1>5. UsedInserted'
  BY <1>2, <1>3 DEF UsedInserted
<1> QED BY <1>1, <1>2, <1>3, <1>4, <1>5, QuietStep

LEMMA HandleBreakpointsStep ==
    ASSUME TypeInv, HandlersInOrder, StepInv, HandleBreakpoints PROVE StepInv'
<1>1. /\ ~Idle /\ Head(todo).op = "handle"
      /\ UNCHANGED <<run, guest, ins, c2s, s2c, orphans, inFlight, refs, target, tstate, regs, stopBps, waitSyms, await>>
      /\ armed' = [a \in Addrs |-> IF refs[a] = {} /\ armed[a] # "yes" THEN "gone" ELSE armed[a]]
  BY DEF HandleBreakpoints, stubVars, netVars, connVars, dbgVars
<1>2. /\ Once(todo') /\ todo # <<>>
      /\ \A op : op # "handle" => (HasOp(todo, op) => HasOp(todo', op))
      /\ \A op : HasOp(todo, op) => op \in {"handle", "cont"}
      /\ \A a \in Addrs : Has(todo', "Z", a) <=> refs[a] # {} /\ armed[a] # "yes"
      /\ \A a \in Addrs : Has(todo', "z", a) <=> refs[a] = {} /\ armed[a] = "yes"
  BY HandleTodo DEF HandlersInOrder
<1>3. /\ Head(todo) = todo[1] /\ 1 \in DOMAIN todo /\ ~await
  BY <1>1, AwaitHead DEF TypeInv, Locals
<1>4. HasOp(todo, "handle") /\ ~WhileRunning(todo)
  BY <1>1, <1>3 DEF HasOp, WhileRunning
<1>5. target # "Exited"
  BY <1>4, OnlyHas DEF HandlersInOrder
<1>6. ~inFlight /\ ~HasOp(todo, "stopped") /\ ~stopBps
  BY <1>2, <1>4, <1>5 DEF StepInv, ResumesKnown
<1>7. \A t : ~Has(todo, "g", t)
  BY <1>2, OnlyHas
<1>8. /\ target = "Running" => HasOp(todo', "cont")
      /\ target = "Stepping" => HasOp(todo', "cont") \/ waitSyms
  BY <1>2, <1>6 DEF StepInv, ResumesKnown
<1>9. UsedInserted'
  BY <1>1, <1>2 DEF UsedInserted
<1>10. \A a \in Addrs : armed'[a] = "yes" <=> armed[a] = "yes"
  BY <1>1
<1> QED BY <1>1, <1>2, <1>3, <1>5, <1>6, <1>7, <1>8, <1>9, <1>10, QuietStep

\* A vCont sent to a stopped guest.
LEMMA ContinueWires ==
    ASSUME TypeInv, NEW q \in Items, q.op \in {"vCont;c", "vCont;s"}, c2s' = c2s \o <<q>>,
           ~run, s2c = <<>>, orphans = <<>>, Interrupts(c2s), ~await, inFlight' = TRUE,
           UNCHANGED <<run, s2c, orphans, await>>
    PROVE  WiresInOrder'
<1>1. OneResume(c2s')
  BY WireWrite DEF TypeInv, NetType
<1> QED BY <1>1 DEF WiresInOrder, ResumeUnderWay

LEMMA RemoteSendContStep ==
    ASSUME TypeInv, HandlersInOrder, StepInv, alive, RemoteSendCont PROVE StepInv'
<1>1. /\ ~Idle /\ Head(todo).op = "cont" /\ todo' = Tail(todo)
      /\ UNCHANGED <<run, guest, ins, s2c, orphans, regs, stopBps, armed, await>>
  BY DEF RemoteSendCont, stubVars
<1>2. /\ ~inFlight /\ ~AnyRunning /\ ~run /\ s2c = <<>> /\ Interrupts(c2s) /\ orphans = <<>>
      /\ ~stopBps
  BY <1>1, LastStepFacts DEF Locals
<1>3. /\ ~await /\ target # "Exited" /\ todo' = <<>> /\ HasOp(todo, "cont")
      /\ \A op : HasOp(todo, op) => op = "cont"
      /\ \A op, arg : Has(todo, op, arg) => op = "cont"
  BY <1>1, LastStep DEF Locals
<1>4. ~waitSyms /\ (target = "Stepping" => stepping.tid \in Tids)
  BY <1>3 DEF HandlersInOrder
<1>5. /\ \A op : ~HasOp(todo', op)
      /\ \A op, arg : ~Has(todo', op, arg)
      /\ Once(todo') /\ WhileRunning(todo')
  BY <1>3, HasNone
<1>6. CASE target \notin {"Running", "Stepping"} /\ UNCHANGED <<c2s, inFlight, tstate, target, waitSyms, stepVars, refs>>
  <2>1. UsedInserted'
    BY <1>6 DEF UsedInserted
  <2> QED BY <1>1, <1>2, <1>3, <1>5, <1>6, <2>1, QuietStep
<1>7. CASE /\ target \in {"Running", "Stepping"}
           /\ Write(<<VCont(stepping.tid)>>)
           /\ inFlight' = TRUE
           /\ tstate' = [t \in Tids |-> IF ShouldRun(t) THEN "Running" ELSE tstate[t]]
           /\ UNCHANGED <<target, waitSyms, stepVars, refs>>
  <2>1. VCont(stepping.tid) \in Items /\ VCont(stepping.tid).op \in {"vCont;c", "vCont;s"}
    <3>1. stepping.tid \in Tids \cup {0}
      BY DEF TypeInv, StepType
    <3> DEFINE op == IF stepping.single THEN "vCont;s" ELSE "vCont;c"
    <3>2. VCont(stepping.tid) = Req(op, stepping.tid) /\ op \in {"vCont;c", "vCont;s"}
      BY DEF VCont
    <3> HIDE DEF op
    <3>3. Req(op, stepping.tid) \in Items
      BY <3>1, <3>2, LocalItems
    <3>4. Req(op, stepping.tid).op = op
      BY PacketFields
    <3> QED BY <3>2, <3>3, <3>4
  <2>2. c2s' = c2s \o <<VCont(stepping.tid)>>
    BY <1>7 DEF Write
  <2>3. WiresInOrder'
    BY <1>1, <1>2, <1>3, <1>7, <2>1, <2>2, ContinueWires
  <2>4. AnyRunning'
    <3>1. \E t \in Tids : ShouldRun(t)
      BY <1>2, <1>4, <1>7, RemoteAssumption DEF ShouldRun
    <3> QED BY <1>7, <3>1 DEF AnyRunning
  <2>5. ResumesKnown'
    BY <1>5, <1>7, <2>4 DEF ResumesKnown
  <2>6. RegsFollow'
    BY <1>7 DEF RegsFollow
  <2>7. InsertedKnown'
    BY <1>1, <1>3, <1>5, <1>7, LocalInserted DEF StepInv
  <2>8. UsedInserted'
    BY <1>1, <1>2, <1>3, <1>7 DEF StepInv, UsedInserted
  <2> QED BY <2>3, <2>5, <2>6, <2>7, <2>8 DEF StepInv
<1> QED BY <1>6, <1>7 DEF RemoteSendCont

\* handle_remote_stop() finds the one stop reply that was to come.
LEMMA StopStep ==
    ASSUME TypeInv, HandlersInOrder, StepInv, ProcessEventsRemote \/ WaitStop PROVE StepInv'
<1>1. /\ s2c # <<>> /\ s2c' = Tail(s2c)
      /\ IsStop(Head(s2c)) => HandleRemoteStop(Head(s2c))
      /\ IsStop(Head(s2c)) => UNCHANGED orphans
      /\ UNCHANGED <<run, guest, ins, c2s, regs, stopBps, refs, armed, await>>
  BY DEF ProcessEventsRemote, WaitStop, stubVars, bpVars
<1>2. ~await /\ target # "Exited"
  <2>1. CASE ProcessEventsRemote
    BY <2>1, BetweenHandlers DEF ProcessEventsRemote
  <2>2. CASE WaitStop
    BY <2>2, LastStep DEF WaitStop, Locals
  <2> QED BY <2>1, <2>2
<1>3. ResumeUnderWay /\ orphans = <<>>
  BY <1>1, <1>2 DEF StepInv, WiresInOrder, NothingUnderWay
<1>4. ~run /\ Len(s2c) = 1 /\ IsStop(s2c[1]) /\ Interrupts(c2s)
  BY <1>1, <1>3 DEF ResumeUnderWay
<1>5. /\ Head(s2c) = s2c[1] /\ Head(s2c) \in Replies /\ s2c' = <<>>
  <2>1. s2c \in Seq(Replies)
    BY DEF TypeInv, NetType
  <2>2. Head(s2c) = s2c[1] /\ Head(s2c) \in Replies /\ Tail(s2c) \in Seq(Replies) /\ Len(Tail(s2c)) = 0
    BY <1>1, <1>4, <2>1, TailFacts
  <2> QED BY <1>1, <2>2
<1>6. HandleRemoteStop(Head(s2c)) /\ orphans' = <<>>
  BY <1>1, <1>3, <1>4, <1>5
<1>7. /\ \A op : HasOp(todo', op) => op \in {"g", "stopped"}
      /\ HasOp(todo', "stopped")
      /\ \A t \in Tids : Has(todo', "g", t)
  BY <1>4, <1>5, <1>6, RemoteStopOrder
<1>8. inFlight' = FALSE /\ target' = "Suspended" /\ tstate' = [t \in Tids |-> "Suspended"]
  BY <1>6 DEF HandleRemoteStop
<1>9. WiresInOrder'
  BY <1>1, <1>2, <1>4, <1>5, <1>6, <1>8 DEF WiresInOrder, NothingUnderWay
<1>10. ResumesKnown'
  BY <1>7, <1>8 DEF ResumesKnown, AnyRunning
<1>11. RegsFollow'
  BY <1>7 DEF RegsFollow
<1>12. InsertedKnown'
  <2>1. Once(todo') /\ \A op, arg : Has(todo', op, arg) => op \in {"g", "stopped"}
    BY <1>7, OnceNoZ, OnlyHas
  <2> QED BY <1>1, <1>2, <2>1, LocalInserted DEF StepInv
<1>13. UsedInserted'
  BY <1>8 DEF UsedInserted
<1> QED BY <1>9, <1>10, <1>11, <1>12, <1>13 DEF StepInv

LEMMA AfterStopStep ==
    ASSUME TypeInv, HandlersInOrder, StepInv, alive, AfterStop PROVE StepInv'
<1>1. /\ ~Idle /\ Head(todo).op = "stopped" /\ (StopDone \/ StepGoesOn)
      /\ UNCHANGED <<run, guest, ins, s2c, orphans, regs, waitSyms, await>>
  BY DEF AfterStop, StepWriteFails, stubVars
<1>2. /\ ~inFlight /\ ~AnyRunning /\ ~run /\ s2c = <<>> /\ Interrupts(c2s) /\ orphans = <<>>
  BY <1>1, LastStepFacts DEF Locals
<1>3. /\ ~await /\ target # "Exited" /\ HasOp(todo, "stopped") /\ Head(todo) \in Items
      /\ \A op, arg : Has(todo, op, arg) => op = "stopped"
  BY <1>1, LastStep, TailFacts DEF Locals
<1>4. target = "Suspended" /\ Head(todo).arg \in Tids
  BY <1>1, <1>3, ItemFields DEF HandlersInOrder
<1>5. CASE StopDone
  <2>1. todo' = Handle /\ stopBps' = FALSE /\ UNCHANGED <<c2s, inFlight, target, tstate, armed>>
    BY <1>5 DEF StopDone
  <2>2. \A op : HasOp(todo', op) <=> op = "handle"
    BY <2>1, HandleCont
  <2>3. Once(todo') /\ \A op, arg : Has(todo', op, arg) => op = "handle"
    BY <2>2, OnceNoZ, OnlyHas
  <2>4. UsedInserted'
    BY <1>4, <2>1 DEF UsedInserted
  <2> QED BY <1>1, <1>2, <1>3, <1>4, <2>1, <2>3, <2>4, QuietStep
<1>6. CASE StepGoesOn
  <2> DEFINE q == Req("vCont;s", Head(todo).arg)
  <2>1. /\ todo' = <<>> /\ Write(<<q>>) /\ inFlight' = TRUE /\ target' = "Stepping"
        /\ tstate' = [tstate EXCEPT ![Head(todo).arg] = "Running"] /\ Located
    BY <1>6 DEF StepGoesOn
  <2>2. q \in Items /\ q.op = "vCont;s"
    BY <1>4, LocalItems, PacketFields
  <2>3. c2s' = c2s \o <<q>>
    BY <2>1 DEF Write
  <2> HIDE DEF q
  <2>4. WiresInOrder'
    BY <1>1, <1>2, <1>3, <2>1, <2>2, <2>3, ContinueWires
  <2>5. /\ \A op, arg : ~Has(todo', op, arg)
        /\ Once(todo') /\ WhileRunning(todo')
    BY <2>1, HasNone
  <2>6. AnyRunning'
    BY <1>4, <2>1 DEF AnyRunning, TypeInv, DbgType
  <2>7. ResumesKnown'
    BY <2>1, <2>5, <2>6 DEF ResumesKnown
  <2>8. InsertedKnown'
    BY <1>1, <1>3, <2>1, <2>5, LocatedYes, LocalInserted DEF StepInv
  <2>9. RegsFollow' /\ UsedInserted'
    BY <2>1 DEF RegsFollow, UsedInserted
  <2> QED BY <2>4, <2>7, <2>8, <2>9 DEF StepInv
<1> QED BY <1>1, <1>5, <1>6

\* A list without its first item, when that is a request.
LEMMA AfterRequest ==
    ASSUME TypeInv, ~Idle, Head(todo).op \in Requests
    PROVE  /\ todo \in Seq(Items) /\ todo # <<>> /\ Head(todo) \in Items /\ HasOp(todo, Head(todo).op)
           /\ \A op \in Locals : HasOp(todo, op) <=> HasOp(Tail(todo), op)
           /\ \A op, arg : Has(Tail(todo), op, arg) => Has(todo, op, arg)
           /\ \A op, arg : Has(todo, op, arg) => Has(Tail(todo), op, arg) \/ (Head(todo).op = op /\ Head(todo).arg = arg)
           /\ Has(todo, Head(todo).op, Head(todo).arg)
           /\ WhileRunning(todo) => WhileRunning(Tail(todo))
           /\ WhileRunning(todo) => Head(todo).op = "m" \/ (Head(todo).op = "z" /\ Head(todo).arg = Data)
<1>1. todo \in Seq(Items) /\ todo # <<>> /\ Head(todo) \in Items
  BY TailFacts DEF Idle, TypeInv, RunType
<1>2. /\ \A op, arg : Has(todo, op, arg) <=> (Head(todo).op = op /\ Head(todo).arg = arg) \/ Has(Tail(todo), op, arg)
      /\ \A op : HasOp(todo, op) <=> Head(todo).op = op \/ HasOp(Tail(todo), op)
  BY <1>1, HasTail
<1>3. \A op \in Locals : Head(todo).op # op
  BY DEF Locals, Requests, Handshake
<1>4. /\ Head(todo) = todo[1] /\ 1 \in DOMAIN todo
      /\ \A i \in DOMAIN Tail(todo) : Tail(todo)[i] = todo[i + 1] /\ i + 1 \in DOMAIN todo
  BY <1>1, TailFacts
<1>5. WhileRunning(todo) => WhileRunning(Tail(todo))
  BY <1>4 DEF WhileRunning
<1>6. WhileRunning(todo) => Head(todo).op = "m" \/ (Head(todo).op = "z" /\ Head(todo).arg = Data)
  BY <1>3, <1>4 DEF WhileRunning, Locals
<1>7. \A op \in Locals : HasOp(todo, op) <=> HasOp(Tail(todo), op)
  BY <1>2, <1>3
<1> QED BY <1>1, <1>2, <1>5, <1>6, <1>7

LEMMA SendPacketStep ==
    ASSUME TypeInv, HandlersInOrder, StepInv, alive, SendPacket PROVE StepInv'
<1>1. /\ ~Idle /\ ~await /\ Head(todo).op \in Requests
      /\ UNCHANGED <<run, guest, ins, s2c, orphans, inFlight>>
  BY DEF SendPacket, stubVars, connVars
<1>2. /\ todo \in Seq(Items) /\ todo # <<>> /\ Head(todo) \in Items
      /\ \A op \in Locals : HasOp(todo, op) <=> HasOp(Tail(todo), op)
      /\ \A op, arg : Has(Tail(todo), op, arg) => Has(todo, op, arg)
      /\ WhileRunning(todo) => WhileRunning(Tail(todo))
      /\ WhileRunning(todo) => Head(todo).op = "m" \/ (Head(todo).op = "z" /\ Head(todo).arg = Data)
  BY <1>1, AfterRequest
<1>3. CASE inFlight
  <2>1. RequestDone(FALSE, 0) /\ UNCHANGED c2s
    BY <1>3 DEF SendPacket
  <2>2. ResumeUnderWay /\ orphans = <<>>
    BY <1>3 DEF StepInv, WiresInOrder
  <2>3. /\ ~await' /\ UNCHANGED <<refs, tstate, stopBps, waitSyms>>
        /\ target' = IF Head(todo).op \in Handshake THEN "Exited" ELSE target
        /\ Head(todo).op \notin Handshake => todo' = Tail(todo)
        /\ Head(todo).op \notin {"Z", "z"} \/ Head(todo).arg = Data => armed' = armed
    BY <2>1, RequestDoneFacts DEF RequestEffect
  <2>4. WiresInOrder'
    BY <1>1, <1>3, <2>1, <2>2, <2>3 DEF WiresInOrder, ResumeUnderWay
  <2>5. RegsFollow'
    BY <1>1, <1>3 DEF RegsFollow
  <2>6. AnyRunning' /\ inFlight'
    BY <1>1, <1>3, <2>3, RunningKept DEF StepInv, ResumesKnown
  <2>7. CASE target = "Exited"
    <3>1. target' = "Exited"
      BY <2>3, <2>7
    <3> QED BY <2>4, <2>5, <2>6, <3>1 DEF StepInv, ResumesKnown, InsertedKnown, UsedInserted
  <2>8. CASE target # "Exited"
    <3>1. WhileRunning(todo)
      BY <1>3, <2>8 DEF StepInv, ResumesKnown
    <3>2. Head(todo).op = "m" \/ (Head(todo).op = "z" /\ Head(todo).arg = Data)
      BY <1>2, <3>1
    <3>3. todo' = Tail(todo) /\ UNCHANGED <<armed, target>> /\ WhileRunning(todo')
      BY <1>2, <2>3, <3>1, <3>2 DEF Handshake
    <3>4. ResumesKnown'
      <4>1. target = "Suspended" => HasOp(todo', "wait_stop")
        BY <1>2, <1>3, <3>3 DEF StepInv, ResumesKnown, Locals
      <4> QED BY <2>6, <3>3, <4>1 DEF ResumesKnown
    <3>5. InsertedKnown'
      <4>1. /\ Once(todo)
            /\ \A a \in Addrs : Has(todo, "Z", a) => armed[a] # "yes"
            /\ \A a \in Addrs : Has(todo, "z", a) => refs[a] = {}
        BY <2>8 DEF StepInv, InsertedKnown
      <4>2. Once(todo')
        BY <1>2, <3>3, <4>1, OnceTail
      <4> QED BY <1>1, <1>2, <2>3, <2>8, <3>3, <4>1, <4>2, LocalInserted DEF StepInv
    <3>6. UsedInserted'
      <4>1. ~HasOp(todo, "handle") /\ \A a : ~Has(todo, "Z", a)
        BY <3>1 DEF WhileRunning, HasOp, Has
      <4> QED BY <2>3, <3>3, <4>1 DEF StepInv, UsedInserted
    <3> QED BY <2>4, <2>5, <3>4, <3>5, <3>6 DEF StepInv
  <2> QED BY <2>7, <2>8
<1>4. CASE ~inFlight
  <2>1. /\ c2s' = c2s \o <<Head(todo)>> /\ await' = TRUE
        /\ UNCHANGED <<todo, refs, armed, target, tstate, regs, stopBps, waitSyms>>
    BY <1>4 DEF SendPacket, Write, bpVars, dbgVars
  <2>2. NothingUnderWay /\ orphans = <<>>
    BY <1>1, <1>4 DEF StepInv, WiresInOrder
  <2>3. Asking(c2s', Head(todo'))
    BY <1>2, <2>1, <2>2, WireWrite DEF NothingUnderWay, TypeInv, NetType
  <2>4. WiresInOrder'
    BY <1>1, <1>2, <1>4, <2>1, <2>2, <2>3 DEF WiresInOrder, RequestUnderWay, NothingUnderWay
  <2>5. ResumesKnown' /\ RegsFollow' /\ UsedInserted'
    <3>1. ResumesKnown'
      BY <1>1, <2>1, RunningKept DEF StepInv, ResumesKnown
    <3>2. RegsFollow'
      BY <1>1, <2>1, LocalRegs DEF StepInv
    <3>3. UsedInserted'
      BY <2>1 DEF StepInv, UsedInserted
    <3> QED BY <3>1, <3>2, <3>3
  <2>6. InsertedKnown'
    <3>1. \A op, a : ~Asked(op, a) /\ ~Asked(op, a)'
      BY <1>1, <2>3 DEF Asked, Asking
    <3>2. InsertedKnown
      BY DEF StepInv
    <3> QED BY <1>1, <2>1, <3>1, <3>2 DEF InsertedKnown
  <2> QED BY <2>4, <2>5, <2>6 DEF StepInv
<1> QED BY <1>3, <1>4

\* An answer is the one that was asked for.
LEMMA ReplyFacts ==
    ASSUME TypeInv, StepInv, WaitReply
    PROVE  \E r \in Replies :
             /\ RequestDone(LooksRight(Head(todo), r), r.val)
             /\ Matches(r, Head(todo)) /\ c2s = <<>> /\ s2c' = <<>> /\ ~inFlight /\ s2c[1] = r
             /\ orphans = <<>> /\ orphans' = <<>>
             /\ run => Head(todo).op = "D"
             /\ Head(todo).op = "g" => r.val = guest[Head(todo).arg]
<1>1. await /\ orphans = <<>> /\ s2c \in Seq(Replies)
  BY DEF WaitReply, StepInv, WiresInOrder, TypeInv, NetType
<1>2. ~inFlight
  BY <1>1 DEF StepInv, WiresInOrder, ResumeUnderWay
<1>3. s2c # <<>> /\ RequestDone(LooksRight(Head(todo), Head(s2c)), Head(s2c).val) /\ s2c' = Tail(s2c) /\ orphans' = <<>>
  BY <1>1 DEF WaitReply
<1>4. RequestUnderWay
  BY <1>1, <1>2 DEF StepInv, WiresInOrder
<1>5. /\ c2s = <<>> /\ Len(s2c) = 1 /\ Matches(s2c[1], Head(todo))
      /\ run => Head(todo).op = "D"
      /\ Head(todo).op = "g" => s2c[1].val = guest[Head(todo).arg]
  BY <1>3, <1>4 DEF RequestUnderWay
<1>6. Head(s2c) = s2c[1] /\ Head(s2c) \in Replies /\ s2c' = <<>>
  <2>1. Head(s2c) = s2c[1] /\ Head(s2c) \in Replies /\ Tail(s2c) \in Seq(Replies) /\ Len(Tail(s2c)) = 0
    BY <1>1, <1>3, <1>5, TailFacts
  <2> QED BY <1>3, <2>1
<1> QED BY <1>1, <1>2, <1>3, <1>5, <1>6

\* What a caller makes of the answer.
LEMMA LooksRightFacts ==
    ASSUME NEW q, NEW r, Matches(r, q)
    PROVE  /\ q.op \in Handshake => LooksRight(q, r)
           /\ q.op = "g" => LooksRight(q, r)
           /\ q.op = "Z" => (LooksRight(q, r) <=> r.val = 1)
<1>1. CASE q.op = "?"
  BY <1>1 DEF LooksRight, Matches, Handshake
<1>2. CASE q.op = "g"
  BY <1>2 DEF LooksRight, Matches, Handshake
<1>3. CASE q.op = "qSupported"
  BY <1>3 DEF LooksRight, Matches, Handshake
<1>4. CASE q.op = "threads"
  BY <1>4 DEF LooksRight, Matches, Handshake
<1>5. CASE q.op = "Z"
  BY <1>5 DEF LooksRight, Matches, Handshake
<1> QED BY <1>1, <1>2, <1>3, <1>4, <1>5 DEF Handshake

LEMMA WaitReplyStep ==
    ASSUME TypeInv, HandlersInOrder, StepInv, WaitReply PROVE StepInv'
<1> DEFINE q == Head(todo)
<1>1. PICK r \in Replies :
         /\ RequestDone(LooksRight(q, r), r.val)
         /\ Matches(r, q) /\ c2s = <<>> /\ s2c' = <<>> /\ ~inFlight /\ s2c[1] = r
         /\ orphans = <<>> /\ orphans' = <<>>
         /\ run => q.op = "D"
         /\ q.op = "g" => r.val = guest[q.arg]
  BY ReplyFacts
<1>2. await /\ UNCHANGED <<run, guest, ins, c2s, alive, inFlight>>
  BY DEF WaitReply, stubVars
<1>3. /\ ~Idle /\ q.op \in Requests
  BY <1>2, AwaitHead DEF TypeInv
<1>4. /\ todo \in Seq(Items) /\ todo # <<>> /\ q \in Items /\ HasOp(todo, q.op) /\ Has(todo, q.op, q.arg)
      /\ \A op \in Locals : HasOp(todo, op) <=> HasOp(Tail(todo), op)
      /\ \A op, arg : Has(Tail(todo), op, arg) => Has(todo, op, arg)
      /\ \A op, arg : Has(todo, op, arg) => Has(Tail(todo), op, arg) \/ (q.op = op /\ q.arg = arg)
  BY <1>3, AfterRequest
<1>4a. LooksRight(q, r) \in BOOLEAN
  BY DEF LooksRight, IsStop
<1>4b. PICK good \in BOOLEAN : good = LooksRight(q, r)
  BY <1>4a
<1>5. /\ q.op \in Handshake => good
      /\ q.op = "g" => good
      /\ q.op = "Z" => (good <=> r.val = 1)
  BY <1>1, <1>4b, LooksRightFacts
<1>6. /\ await' = FALSE /\ todo' = Tail(todo) /\ target' = target
      /\ regs' = IF q.op = "g" /\ good THEN [regs EXCEPT ![q.arg] = r.val] ELSE regs
      /\ q.op = "Z" /\ q.arg # Data => armed' = [armed EXCEPT ![q.arg] = IF good THEN "yes" ELSE "err"]
      /\ q.op = "z" /\ q.arg # Data => armed' = [armed EXCEPT ![q.arg] = "gone"]
      /\ q.op \notin {"Z", "z"} \/ q.arg = Data => armed' = armed
      /\ UNCHANGED <<refs, tstate, stopBps, waitSyms>>
  <2>1. RequestDone(good, r.val) /\ q = Head(todo)
    BY <1>1, <1>4b
  <2> HIDE DEF q
  <2>2. CASE good = TRUE
    <3>1. RequestDone(TRUE, r.val)
      BY <2>1, <2>2
    <3>2. /\ await' = FALSE /\ todo' = Tail(todo) /\ target' = target
          /\ regs' = IF q.op = "g" THEN [regs EXCEPT ![q.arg] = r.val] ELSE regs
          /\ q.op = "Z" /\ q.arg # Data => armed' = [armed EXCEPT ![q.arg] = "yes"]
          /\ q.op = "z" /\ q.arg # Data => armed' = [armed EXCEPT ![q.arg] = "gone"]
          /\ q.op \notin {"Z", "z"} \/ q.arg = Data => armed' = armed
          /\ UNCHANGED <<refs, tstate, stopBps, waitSyms>>
      <4>1. RequestEffect(q, TRUE, r.val)
        BY <2>1, <3>1, RequestDoneFacts
      <4> QED BY <3>1, <4>1 DEF RequestEffect
    <3> QED BY <2>2, <3>2
  <2>3. CASE good = FALSE
    <3>1. RequestDone(FALSE, r.val) /\ q.op \notin Handshake
      BY <1>5, <2>1, <2>3
    <3>2. /\ await' = FALSE /\ todo' = Tail(todo) /\ target' = target
          /\ regs' = regs
          /\ q.op = "Z" /\ q.arg # Data => armed' = [armed EXCEPT ![q.arg] = "err"]
          /\ q.op = "z" /\ q.arg # Data => armed' = [armed EXCEPT ![q.arg] = "gone"]
          /\ q.op \notin {"Z", "z"} \/ q.arg = Data => armed' = armed
          /\ UNCHANGED <<refs, tstate, stopBps, waitSyms>>
      <4>1. RequestEffect(q, FALSE, r.val)
        BY <2>1, <3>1, RequestDoneFacts
      <4> QED BY <3>1, <4>1 DEF RequestEffect
    <3> QED BY <2>3, <3>2
  <2> QED BY <2>2, <2>3
<1>7. \A op, a : Asked(op, a) <=> q.op = op /\ q.arg = a
  BY <1>1, <1>2 DEF Asked
<1>8. \A op, a : ~Asked(op, a)'
  BY <1>6 DEF Asked
<1>9. q.op = "D" => target = "Exited" /\ Tail(todo) = <<>>
  BY <1>4, LocalsLastTail DEF HandlersInOrder
<1> HIDE DEF q
<1>10. WiresInOrder'
  <2>1. Interrupts(c2s')
    BY <1>1, <1>2 DEF Interrupts, Only
  <2> QED BY <1>1, <1>2, <1>6, <1>9, <2>1 DEF WiresInOrder, NothingUnderWay
<1>11. ResumesKnown'
  <2>1. \A op \in {"stopped", "cont", "wait_stop"} : HasOp(todo, op) => HasOp(todo', op)
    BY <1>4, <1>6 DEF Locals
  <2> QED BY <1>1, <1>2, <1>6, <2>1, RunningKept DEF StepInv, ResumesKnown
<1>12. RegsFollow'
  <2>1. SUFFICES ASSUME NEW t \in Tids PROVE regs'[t] = guest[t] \/ Has(todo', "g", t)
    BY <1>2 DEF RegsFollow
  <2>2. regs[t] = guest[t] \/ Has(todo, "g", t)
    BY <1>1 DEF StepInv, RegsFollow
  <2>3. regs \in [Tids -> Addrs \cup {0}]
    BY DEF TypeInv, DbgType
  <2>4. CASE q.op = "g" /\ q.arg = t
    BY <1>1, <1>5, <1>6, <2>3, <2>4
  <2>5. CASE ~(q.op = "g" /\ q.arg = t)
    <3>1. regs'[t] = regs[t]
      BY <1>6, <2>3, <2>5
    <3>2. Has(todo, "g", t) => Has(todo', "g", t)
      BY <1>4, <1>6, <2>5
    <3> QED BY <2>2, <3>1, <3>2
  <2> QED BY <2>4, <2>5
<1>13. armed \in [Addrs -> {"gone", "no", "yes", "err"}]
  BY DEF TypeInv, BpType
<1>14. ASSUME target # "Exited"
       PROVE  /\ \A a \in Addrs : a \in ins => armed[a] = "yes" \/ (q.op = "Z" /\ q.arg = a)
              /\ \A a \in Addrs : armed[a] = "yes" => a \in ins \/ (q.op = "z" /\ q.arg = a)
              /\ \A a \in Addrs : Has(todo, "Z", a) => armed[a] # "yes"
              /\ \A a \in Addrs : Has(todo, "z", a) => refs[a] = {}
              /\ Once(todo)
              /\ \A a \in Addrs : q.op = "Z" /\ q.arg = a => (good <=> a \in ins)
              /\ \A a \in Addrs : q.op = "z" /\ q.arg = a => a \notin ins
  <2>1. InsertedKnown
    BY DEF StepInv
  <2> QED BY <1>1, <1>5, <1>7, <1>14, <2>1 DEF InsertedKnown
<1>15. ASSUME NEW a \in Addrs
       PROVE  /\ q.op = "Z" /\ q.arg = a => armed'[a] = IF good THEN "yes" ELSE "err"
              /\ q.op = "z" /\ q.arg = a => armed'[a] = "gone"
              /\ ~(q.op \in {"Z", "z"} /\ q.arg = a) => armed'[a] = armed[a]
  <2>1. a # Data
    BY FiniteAddrs
  <2>2. CASE q.op = "Z" /\ q.arg # Data
    BY <1>6, <1>13, <2>1, <2>2
  <2>3. CASE q.op = "z" /\ q.arg # Data
    BY <1>6, <1>13, <2>1, <2>3
  <2>4. CASE q.op \notin {"Z", "z"} \/ q.arg = Data
    BY <1>6, <2>1, <2>4
  <2> QED BY <2>2, <2>3, <2>4
<1>16. InsertedKnown'
  <2>1. SUFFICES ASSUME target # "Exited"
                 PROVE  /\ \A a \in Addrs : a \in ins => armed'[a] = "yes"
                        /\ \A a \in Addrs : armed'[a] = "yes" => a \in ins
                        /\ \A a \in Addrs : Has(todo', "Z", a) => armed'[a] # "yes"
                        /\ \A a \in Addrs : Has(todo', "z", a) => refs[a] = {}
                        /\ Once(todo')
    BY <1>2, <1>6, <1>8 DEF InsertedKnown
  <2>2. Once(todo') /\ (q.op = "Z" => ~Has(todo', "Z", q.arg))
    BY <1>4, <1>6, <1>14, <2>1, OnceTail DEF q
  <2>3. \A op, arg : Has(todo', op, arg) => Has(todo, op, arg)
    BY <1>4, <1>6
  <2>4. ASSUME NEW a \in Addrs PROVE a \in ins <=> armed'[a] = "yes"
    BY <1>14, <1>15, <2>1
  <2>5. ASSUME NEW a \in Addrs, Has(todo', "Z", a) PROVE armed'[a] # "yes"
    <3>1. armed[a] # "yes" /\ ~(q.op = "Z" /\ q.arg = a)
      BY <1>14, <2>1, <2>2, <2>3, <2>5
    <3> QED BY <1>15, <3>1
  <2> QED BY <1>14, <2>1, <2>2, <2>3, <2>4, <2>5
<1>17. UsedInserted'
  <2>1. SUFFICES ASSUME target = "Running", ~stopBps, NEW a \in Addrs, refs[a] # {}
                 PROVE  armed'[a] \in {"yes", "err"} \/ Has(todo', "Z", a) \/ HasOp(todo', "handle")
    BY <1>6 DEF UsedInserted
  <2>2. armed[a] \in {"yes", "err"} \/ Has(todo, "Z", a) \/ HasOp(todo, "handle")
    BY <2>1 DEF StepInv, UsedInserted
  <2>3. ~(q.op = "z" /\ q.arg = a)
    BY <1>4, <1>14, <2>1
  <2>4. CASE q.op = "Z" /\ q.arg = a
    BY <1>15, <2>4
  <2>5. CASE ~(q.op = "Z" /\ q.arg = a)
    <3>1. armed'[a] = armed[a]
      BY <1>15, <2>3, <2>5
    <3>2. (Has(todo, "Z", a) => Has(todo', "Z", a)) /\ (HasOp(todo, "handle") => HasOp(todo', "handle"))
      BY <1>4, <1>6, <2>5 DEF Locals
    <3> QED BY <2>2, <3>1, <3>2
  <2> QED BY <2>4, <2>5
<1> QED BY <1>10, <1>11, <1>12, <1>16, <1>17 DEF StepInv

LEMMA InitStep ==
    ASSUME Init, "unsolicited" \notin Ops PROVE StepInv
<1>1. /\ run = FALSE /\ guest \in [Tids -> {0}] /\ ins = {} /\ c2s = <<>> /\ s2c = <<>> /\ orphans = <<>>
      /\ inFlight = FALSE /\ target = "Connecting" /\ tstate = [t \in Tids |-> "Suspended"]
      /\ regs = [t \in Tids |-> 0] /\ stopBps = FALSE /\ refs = [a \in Addrs |-> {}]
      /\ armed = [a \in Addrs |-> "gone"] /\ await = FALSE
  BY DEF Init
<1>2. /\ Once(todo) /\ \A op : HasOp(todo, op) => op \in Handshake \cup {"g", "connected"}
  BY InitTodo
<1>3. \A op, arg : Has(todo, op, arg) => op \in Handshake \cup {"g", "connected"}
  BY <1>2, OnlyHas
<1>4. WiresInOrder
  BY <1>1 DEF WiresInOrder, NothingUnderWay, Interrupts, Only
<1>5. ResumesKnown /\ RegsFollow /\ UsedInserted
  BY <1>1 DEF ResumesKnown, RegsFollow, UsedInserted, AnyRunning
<1>6. InsertedKnown
  <2>1. \A op, a : ~Asked(op, a)
    BY <1>1 DEF Asked
  <2>2. \A a \in Addrs : ~Has(todo, "Z", a) /\ ~Has(todo, "z", a) /\ armed[a] # "yes"
    BY <1>1, <1>3 DEF Handshake
  <2> QED BY <1>1, <1>2, <2>1, <2>2 DEF InsertedKnown
<1> QED BY <1>4, <1>5, <1>6 DEF StepInv

-----------------------------------------------------------------------------
\* The invariant is kept by every step.
LEMMA StutterInv ==
    ASSUME IInv, UNCHANGED vars PROVE IInv'
<1>1. /\ UNCHANGED stubVars /\ UNCHANGED netVars /\ UNCHANGED connVars /\ UNCHANGED stepVars
      /\ UNCHANGED bpVars /\ UNCHANGED dbgVars /\ UNCHANGED runVars
  BY DEF vars
<1>2. UNCHANGED <<run, guest, ins, c2s, s2c, alive, orphans, inFlight, stepping, pending, refs, armed, target, tstate,
                  regs, stopBps, waitSyms, loaded, todo, await, late>>
  BY <1>1 DEF stubVars, netVars, connVars, stepVars, bpVars, dbgVars, runVars
<1>3. TypeInv'
  BY <1>1, TypesKept DEF IInv, TypeInv
<1>4. HandlersInOrder'
  BY <1>2, OrderKept DEF IInv
<1>5. ASSUME StepInv PROVE StepInv'
  <2>1. WiresInOrder'
    BY <1>2, <1>5 DEF StepInv, WiresInOrder, ResumeUnderWay, RequestUnderWay, NothingUnderWay
  <2>2. ResumesKnown'
    BY <1>2, <1>5, RunningKept DEF StepInv, ResumesKnown
  <2>3. RegsFollow' /\ UsedInserted'
    BY <1>2, <1>5 DEF StepInv, RegsFollow, UsedInserted
  <2>4. \A op, a : Asked(op, a)' <=> Asked(op, a)
    BY <1>2 DEF Asked
  <2>5. InsertedKnown'
    BY <1>2, <1>5, <2>4 DEF StepInv, InsertedKnown
  <2> QED BY <2>1, <2>2, <2>3, <2>5 DEF StepInv
<1> QED BY <1>2, <1>3, <1>4, <1>5 DEF IInv, InStep

\* The stub and the network.
LEMMA StubInv ==
    ASSUME IInv, StubReceives \/ GuestStops \/ ConnectionLost PROVE IInv'
<1>1. TypeInv' /\ TypeInv /\ HandlersInOrder
  BY StubReceivesType, GuestStopsType, ConnectionLostType DEF IInv
<1>2. UNCHANGED <<todo, target, loaded, waitSyms, stepping, pending, late>>
  BY DEF StubReceives, GuestStops, ConnectionLost, stepVars, dbgVars, runVars
<1>3. HandlersInOrder'
  BY <1>1, <1>2, OrderKept
<1>4. CASE StubReceives
  <2>1. UNCHANGED alive
    BY <1>4 DEF StubReceives
  <2> QED BY <1>1, <1>2, <1>3, <1>4, <2>1, StubReceivesStep DEF IInv, InStep
<1>5. CASE GuestStops
  <2>1. UNCHANGED alive
    BY <1>5 DEF GuestStops
  <2> QED BY <1>1, <1>2, <1>3, <1>5, <2>1, GuestStopsStep DEF IInv, InStep
<1>6. CASE ConnectionLost
  <2>1. ~alive'
    BY <1>6 DEF ConnectionLost
  <2> QED BY <1>1, <1>3, <2>1 DEF IInv, InStep
<1> QED BY <1>4, <1>5, <1>6

\* The debugger thread inside a handler.
LEMMA DebuggerInv ==
    ASSUME IInv, DebuggerStep \/ WaitReplyFails \/ WaitStopFails PROVE IInv'
<1>1. TypeInv /\ HandlersInOrder /\ (InStep => StepInv)
  BY DEF IInv
<1>2. CASE SendPacket
  <2>1. UNCHANGED <<alive, late>>
    BY <1>2 DEF SendPacket
  <2>2. TypeInv' /\ HandlersInOrder'
    BY <1>1, <1>2, SendPacketType, SendPacketOrder
  <2> QED BY <1>1, <1>2, <2>1, <2>2, SendPacketStep DEF IInv, InStep
<1>3. CASE WaitReply
  <2>1. UNCHANGED <<alive, late>>
    BY <1>3 DEF WaitReply
  <2>2. TypeInv' /\ HandlersInOrder'
    BY <1>1, <1>3, WaitReplyType, WaitReplyOrder
  <2> QED BY <1>1, <1>3, <2>1, <2>2, WaitReplyStep DEF IInv, InStep
<1>4. CASE HandleBreakpoints
  <2>1. UNCHANGED <<alive, late>>
    BY <1>4 DEF HandleBreakpoints, netVars
  <2>2. TypeInv' /\ HandlersInOrder'
    BY <1>1, <1>4, HandleBreakpointsType, HandleBreakpointsOrder
  <2> QED BY <1>1, <1>4, <2>1, <2>2, HandleBreakpointsStep DEF IInv, InStep
<1>5. CASE RemoteSendCont
  <2>1. UNCHANGED <<alive, late>>
    BY <1>5 DEF RemoteSendCont
  <2>2. TypeInv' /\ HandlersInOrder'
    BY <1>1, <1>5, RemoteSendContType, RemoteSendContOrder
  <2> QED BY <1>1, <1>5, <2>1, <2>2, RemoteSendContStep DEF IInv, InStep
<1>6. CASE ProcessEventsRemote \/ WaitStop
  <2>1. UNCHANGED <<alive, late>>
    BY <1>6 DEF ProcessEventsRemote, WaitStop
  <2>2. TypeInv' /\ HandlersInOrder'
    BY <1>1, <1>6, ProcessEventsRemoteType, WaitStopType, StopOrder
  <2> QED BY <1>1, <1>6, <2>1, <2>2, StopStep DEF IInv, InStep
<1>7. CASE AfterStop
  <2>1. UNCHANGED <<alive, late>>
    BY <1>7 DEF AfterStop
  <2>2. TypeInv' /\ HandlersInOrder'
    BY <1>1, <1>7, AfterStopType, AfterStopOrder
  <2> QED BY <1>1, <1>7, <2>1, <2>2, AfterStopStep DEF IInv, InStep
<1>8. CASE Connected
  <2>1. UNCHANGED <<alive, late>>
    BY <1>8 DEF Connected, netVars
  <2>2. TypeInv' /\ HandlersInOrder'
    BY <1>1, <1>8, ConnectedType, ConnectedOrder
  <2> QED BY <1>1, <1>8, <2>1, <2>2, ConnectedStep DEF IInv, InStep
<1>9. CASE RetryPending
  <2>1. UNCHANGED <<alive, late>>
    BY <1>9 DEF RetryPending
  <2>2. TypeInv' /\ HandlersInOrder'
    BY <1>1, <1>9, RetryPendingType, RetryPendingOrder
  <2> QED BY <1>1, <1>9, <2>1, <2>2, RetryPendingStep DEF IInv, InStep
<1>10. CASE WaitReplyFails
  <2>1. UNCHANGED alive /\ (~late' => ~late)
    BY <1>10 DEF WaitReplyFails, ReadFails, netVars
  <2>2. TypeInv' /\ HandlersInOrder'
    BY <1>1, <1>10, WaitReplyFailsType, WaitReplyOrder
  <2> QED BY <1>1, <1>10, <2>1, <2>2, WaitReplyFailsStep DEF IInv, InStep
<1>11. CASE WaitStopFails
  <2>1. UNCHANGED alive /\ (~late' => ~late)
    BY <1>11 DEF WaitStopFails, ReadFails, netVars
  <2>2. TypeInv' /\ HandlersInOrder'
    BY <1>1, <1>11, WaitStopFailsType, WaitStopFailsOrder
  <2> QED BY <1>1, <1>11, <2>1, <2>2, WaitStopFailsStep DEF IInv, InStep
<1> QED BY <1>2, <1>3, <1>4, <1>5, <1>6, <1>7, <1>8, <1>9, <1>10, <1>11 DEF DebuggerStep

\* What the user does, and symbols that arrive.
LEMMA UserInv ==
    ASSUME IInv, UserActs \/ SymbolsLoaded, "early" \notin Ops, "overlap" \notin Ops PROVE IInv'
<1>1. TypeInv /\ HandlersInOrder /\ (InStep => StepInv)
  BY DEF IInv
<1>2. CASE Resume
  <2>1. UNCHANGED <<alive, late>>
    BY <1>2 DEF Resume
  <2>2. TypeInv' /\ HandlersInOrder'
    BY <1>1, <1>2, ResumeType, ResumeOrder
  <2> QED BY <1>1, <1>2, <2>1, <2>2, ResumeStep DEF IInv, InStep
<1>3. CASE Suspend
  <2>1. UNCHANGED <<alive, late>>
    BY <1>3 DEF Suspend
  <2>2. TypeInv' /\ HandlersInOrder'
    BY <1>1, <1>3, SuspendType, SuspendOrder
  <2> QED BY <1>1, <1>3, <2>1, <2>2, SuspendStep DEF IInv, InStep
<1>4. CASE AddWatch
  <2>1. UNCHANGED <<alive, late>>
    BY <1>4 DEF AddWatch
  <2>2. TypeInv' /\ HandlersInOrder'
    BY <1>1, <1>4, AddWatchType, AddWatchOrder
  <2> QED BY <1>1, <1>4, <2>1, <2>2, AddWatchStep DEF IInv, InStep
<1>5. CASE RemoveWatch \/ ReadMemory
  <2>1. UNCHANGED <<alive, late>>
    BY <1>5 DEF RemoveWatch, ReadMemory, netVars
  <2>2. TypeInv' /\ HandlersInOrder'
    BY <1>1, <1>5, RemoveWatchType, ReadMemoryType, RequestOrder
  <2> QED BY <1>1, <1>5, <2>1, <2>2, RequestStep DEF IInv, InStep
<1>6. CASE Shutdown \/ StepPanics
  <2>1. Idle /\ target # "Exited" /\ DetachFromStub /\ UNCHANGED late
    BY <1>6 DEF Shutdown, StepPanics, UserMayAct
  <2>2. UNCHANGED alive
    BY <2>1 DEF DetachFromStub, netVars
  <2>3. TypeInv' /\ HandlersInOrder'
    BY <1>1, <2>1, DetachType, DetachOrder
  <2> QED BY <1>1, <2>1, <2>2, <2>3, DetachStep DEF IInv, InStep
<1>7. ASSUME NEW t \in Tids, NEW single \in BOOLEAN, NEW keep \in BOOLEAN, NEW as \in SUBSET Addrs,
             Step(t, single, keep, as)
      PROVE  IInv'
  <2>1. UNCHANGED <<alive, late>>
    BY <1>7 DEF Step
  <2>2. TypeInv' /\ HandlersInOrder'
    BY <1>1, <1>7, StepActionType, StepActionOrder
  <2> QED BY <1>1, <1>7, <2>1, <2>2, StepActionStep DEF IInv, InStep
<1>8. ASSUME NEW t \in Tids, NEW a \in Addrs, StepToCursor(t, a) PROVE IInv'
  <2>1. UNCHANGED <<alive, late>>
    BY <1>8 DEF StepToCursor
  <2>2. TypeInv' /\ HandlersInOrder'
    BY <1>1, <1>8, StepToCursorType, StepToCursorOrder
  <2> QED BY <1>1, <1>8, <2>1, <2>2, StepToCursorStep DEF IInv, InStep
<1>9. ASSUME NEW a \in Addrs, AddBreakpoint(a) PROVE IInv'
  <2>1. UNCHANGED <<alive, late>>
    BY <1>9 DEF AddBreakpoint
  <2>2. TypeInv' /\ HandlersInOrder'
    BY <1>1, <1>9, AddBreakpointType, BreakpointOrder
  <2> QED BY <1>1, <1>9, <2>1, <2>2, AddBreakpointStep DEF IInv, InStep
<1>10. ASSUME NEW a \in Addrs, RemoveBreakpoint(a) PROVE IInv'
  <2>1. UNCHANGED <<alive, late>>
    BY <1>10 DEF RemoveBreakpoint, netVars, runVars
  <2>2. TypeInv' /\ HandlersInOrder'
    BY <1>1, <1>10, RemoveBreakpointType, BreakpointOrder
  <2> QED BY <1>1, <1>10, <2>1, <2>2, RemoveBreakpointStep DEF IInv, InStep
<1>11. CASE SymbolsLoaded
  <2>1. UNCHANGED <<alive, late>>
    BY <1>11 DEF SymbolsLoaded, netVars
  <2>2. TypeInv' /\ HandlersInOrder'
    BY <1>1, <1>11, SymbolsLoadedType, SymbolsLoadedOrder
  <2> QED BY <1>1, <1>11, <2>1, <2>2, SymbolsLoadedStep DEF IInv, InStep
<1> QED BY <1>2, <1>3, <1>4, <1>5, <1>6, <1>7, <1>8, <1>9, <1>10, <1>11 DEF UserActs

\* What BeliefSound and RemoteAgrees say is part of the invariant.
LEMMA InvGivesBelief == IInv => BeliefSound
<1> SUFFICES ASSUME IInv, InStep, Idle, target = "Suspended"
             PROVE  /\ ~run /\ ~inFlight /\ s2c = <<>> /\ orphans = <<>>
                    /\ \A i \in 1..Len(c2s) : c2s[i].op = "0x03"
  BY DEF BeliefSound
<1>1. TypeInv /\ HandlersInOrder /\ StepInv
  BY DEF IInv
<1>2. ~await /\ ~inFlight
  BY <1>1, UserFacts
<1>3. NothingUnderWay /\ orphans = <<>>
  BY <1>1, <1>2 DEF StepInv, WiresInOrder
<1>4. c2s \in Seq(Items)
  BY <1>1 DEF TypeInv, NetType
<1>5. DOMAIN c2s = 1..Len(c2s)
  BY <1>4
<1> QED BY <1>2, <1>3, <1>5 DEF NothingUnderWay, Interrupts, Only

LEMMA InvGivesAgrees == IInv => RemoteAgrees
<1> SUFFICES ASSUME IInv PROVE RemoteAgrees
  OBVIOUS
<1>1. TypeInv /\ HandlersInOrder
  BY DEF IInv
<1>2. TypeOK
  BY <1>1, TypesGiveTypeOK
<1>3. RegsCurrent
  <2> SUFFICES ASSUME InStep, Idle, target = "Suspended" PROVE regs = guest
    BY DEF RegsCurrent
  <2>1. StepInv
    BY DEF IInv
  <2>2. ~inFlight /\ \A op, arg : ~Has(todo, op, arg)
    BY <1>1, <2>1, UserFacts
  <2>3. \A t \in Tids : regs[t] = guest[t]
    BY <2>1, <2>2 DEF StepInv, RegsFollow
  <2>4. regs \in [Tids -> Addrs \cup {0}] /\ guest \in [Tids -> Addrs \cup {0}]
    BY <1>1 DEF TypeInv, DbgType, StubType
  <2> QED BY <2>3, <2>4
<1>4. BreakpointsAgree
  <2>1. SUFFICES ASSUME InStep, Idle, target # "Exited", NEW a \in Addrs
                 PROVE  /\ a \in ins <=> armed[a] = "yes"
                        /\ ~stopBps /\ target = "Running" /\ refs[a] # {} => armed[a] \in {"yes", "err"}
    BY DEF BreakpointsAgree
  <2>2. StepInv
    BY <2>1 DEF IInv
  <2>3. ~await /\ (\A op : ~HasOp(todo, op)) /\ (\A op, arg : ~Has(todo, op, arg))
    BY <1>1, <2>1, <2>2, UserFacts
  <2>4. a \in ins <=> armed[a] = "yes"
    <3>1. \A op, b : ~Asked(op, b)
      BY <2>3 DEF Asked
    <3> QED BY <2>1, <2>2, <3>1 DEF StepInv, InsertedKnown
  <2> QED BY <2>1, <2>2, <2>3, <2>4 DEF StepInv, UsedInserted
<1>5. RepliesMatch
  <2> DEFINE q == Head(todo)
             w == orphans \o s2c
  <2>1. SUFFICES ASSUME InStep, await, w # <<>>
                 PROVE  (Head(w).op = q.op /\ Head(w).arg = q.arg) \/ (q.op = "?" /\ IsStop(Head(w)))
    BY DEF RepliesMatch
  <2>2. StepInv /\ s2c \in Seq(Replies)
    BY <1>1, <2>1 DEF IInv, TypeInv, NetType
  <2>3. orphans = <<>> /\ ~inFlight
    BY <2>1, <2>2 DEF StepInv, WiresInOrder, ResumeUnderWay
  <2>4. w = s2c
    BY <2>2, <2>3
  <2>5. RequestUnderWay
    BY <2>1, <2>2, <2>3 DEF StepInv, WiresInOrder
  <2>6. Matches(s2c[1], q)
    BY <2>1, <2>4, <2>5 DEF RequestUnderWay
  <2>7. Head(w) = s2c[1]
    BY <2>1, <2>2, <2>4, TailFacts
  <2> QED BY <2>6, <2>7 DEF Matches
<1> QED BY <1>2, <1>3, <1>4, <1>5 DEF RemoteAgrees

LEMMA InvHolds ==
    ASSUME Ops \cap {"overlap", "early", "unsolicited"} = {} PROVE Spec => []IInv
<1>1. "overlap" \notin Ops /\ "early" \notin Ops /\ "unsolicited" \notin Ops
  OBVIOUS
<1>2. Init => IInv
  BY <1>1, InitType, InitOrder, InitStep DEF IInv
<1>3. IInv /\ [Next]_vars => IInv'
  <2> SUFFICES ASSUME IInv, [Next]_vars PROVE IInv'
    OBVIOUS
  <2>1. CASE StubReceives \/ GuestStops \/ ConnectionLost
    BY <2>1, StubInv
  <2>2. CASE DebuggerStep \/ WaitReplyFails \/ WaitStopFails
    BY <2>2, DebuggerInv
  <2>3. CASE UserActs \/ SymbolsLoaded
    BY <1>1, <2>3, UserInv
  <2>4. CASE Exited \/ UNCHANGED vars
    BY <2>4, StutterInv DEF Exited
  <2> QED BY <2>1, <2>2, <2>3, <2>4 DEF Next
<1> QED BY <1>2, <1>3, PTL DEF Spec

-----------------------------------------------------------------------------
\* Between two handlers, a remote target shown as suspended is stopped, and
\* nothing is under way that could wake it or be taken for a later answer: for
\* any sets of vCPUs and addresses and any interleaving of the user, the stub and
\* the 50 ms poll, until the connection is lost or an answer given up on.  What
\* is assumed away are the three things that do break the debugger's picture:
\* a resume of a guest that runs (RemoteOverlap.cfg), a resume while breakpoints
\* wait for symbols (vCont goes out and no thread is shown as running, so that
\* handle_breakpoints() talks to a running stub), and a stub that speaks before
\* it is spoken to (wait_reply() hands its packet to the first request).
THEOREM BeliefCorrect ==
    ASSUME Ops \cap {"overlap", "early", "unsolicited"} = {} PROVE Spec => []BeliefSound
<1>1. Spec => []IInv
  BY InvHolds
<1> QED BY <1>1, InvGivesBelief, PTL

\* Under the same assumptions the debugger's picture of the target is the target:
\* the registers of a suspended guest are those of this stop; a guest that runs
\* freely has every location in use inserted or refused; every code breakpoint in
\* the stub has an active location; and wait_reply() never hands a caller the
\* answer to somebody else's request.
THEOREM RemoteCorrect ==
    ASSUME Ops \cap {"overlap", "early", "unsolicited"} = {} PROVE Spec => []RemoteAgrees
<1>1. Spec => []IInv
  BY InvHolds
<1> QED BY <1>1, InvGivesAgrees, PTL
=============================================================================
