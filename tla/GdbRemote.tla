----------------------------- MODULE GdbRemote -----------------------------
(***************************************************************************)
(* The remote backend of nnd: the single-threaded debugger driving an      *)
(* all-stop GDB stub (QEMU's) over one TCP connection: gdb_remote.rs,      *)
(* the is_remote() halves of debugger.rs, RemoteMemReader in procfs.rs.    *)
(*                                                                         *)
(* The connection is two FIFO wires.  A request is sent and its reply      *)
(* awaited before anything else is done; vCont and 0x03 are not answered.  *)
(* One handler of the debugger is the list `todo` of the requests and      *)
(* decisions it still has to make.  Packets the decoder has read and not   *)
(* yet handed out (`pending`) are the front of the wire s2c.  Acks, packet *)
(* framing and hex are left out: the decoder drops the first and a         *)
(* TCP stream does not corrupt the others.  `Hg` and the request it        *)
(* selects a thread for are one request, as are the three `z` that try     *)
(* three lengths for one location.                                         *)
(*                                                                         *)
(* The stub is external: it is modelled from what the code expects of it.  *)
(***************************************************************************)
EXTENDS Naturals, Sequences, FiniteSets, SequencesExt

CONSTANTS
    Tids,       \* vCPUs the stub lists
    Addrs,      \* code addresses that can carry a breakpoint; 0 is elsewhere
    MaxWire,    \* bound: the user acts only while fewer packets are under way
    Ops         \* what the user, the stub and the network may do

ASSUME RemoteAssumption ==
    /\ Tids \subseteq Nat \ {0} /\ Tids # {} /\ IsFiniteSet(Tids)
    /\ Addrs \subseteq Nat \ {0} /\ IsFiniteSet(Addrs)
    /\ MaxWire \in Nat
    /\ Ops \subseteq {"overlap",     \* something resumes the guest while it runs
                      "early",       \* resumed while breakpoints wait for symbols
                      "loading",     \* symbols are loaded after connecting
                      "unsolicited", \* the stub speaks before it is spoken to
                      "reject",      \* the stub may refuse a breakpoint
                      "timeout",     \* an answer may take more than 5 seconds
                      "aftermath",   \* ... and the user goes on after that
                      "close",       \* the connection may be lost
                      "watch",       \* the user sets a data breakpoint
                      "quit"}        \* the user exits

VARIABLES
    \* the stub and the network
    run,        \* the guest is running
    guest,      \* pc of every vCPU
    ins,        \* breakpoints inserted: addresses, and Data for the watchpoint
    c2s, s2c,   \* packets under way
    alive,      \* the connection is up
    \* struct GdbRemote
    orphans,    \* orphan_replies
    inFlight,   \* resume_in_flight
    \* struct Debugger
    target,     \* target_state; "Connecting" inside connect_remote()
    tstate,     \* threads[t].state
    regs,       \* threads[t].info.regs: the pc they hold
    stepping,   \* stepping
    pending,    \* pending_step
    stopBps,    \* stopping_to_handle_breakpoints
    waitSyms,   \* stopped_until_symbols_are_loaded.is_some()
    loaded,     \* the symbols of the user's ELF files are loaded
    bp,         \* the user's breakpoint at an address: none, new, active
    refs,       \* breakpoint_locations[a].breakpoints: user and step references
    armed,      \* breakpoint_locations[a]: gone (none), no, yes (.active), err
    slot,       \* the hardware_breakpoints slot of the data breakpoint
    \* the handler in progress
    todo,       \* what it still has to do
    await,      \* it has sent Head(todo) and waits for the answer
    \* ghost
    late,       \* an answer was given up on: the streams may be out of step
    faults      \* assertions that failed

stubVars == <<run, guest, ins>>
netVars  == <<c2s, s2c, alive>>
connVars == <<orphans, inFlight>>
stepVars == <<stepping, pending>>
bpVars   == <<bp, refs, armed, slot>>
dbgVars  == <<target, tstate, regs, stopBps, waitSyms, loaded>>
runVars  == <<todo, await, late, faults>>
vars == <<stubVars, netVars, connVars, stepVars, bpVars, dbgVars, runVars>>

Data == 0                                \* the watchpoint, among the breakpoints
Points == Addrs \cup {Data}
NoStep == [tid |-> 0, single |-> FALSE, keep |-> FALSE, cursor |-> FALSE]
NoPending == [tid |-> 0, addr |-> 0]

\* What a packet says: op and arg of the request it is or answers, and a value
\* (the pc for `g`, 1 for OK and 0 for an error otherwise).  A stop reply is T
\* with the vCPU and 1 for a code breakpoint, 0 for any other cause (signal,
\* 0x03, watchpoint: the debugger treats them alike).
Packet(op, arg, val) == [op |-> op, arg |-> arg, val |-> val]
Req(op, arg) == Packet(op, arg, 0)
Handshake == {"qSupported", "?", "threads"}
Requests == Handshake \cup {"g", "m", "Z", "z", "D"}
IsStop(p) == p.op = "T"

Idle == todo = <<>>
AnyRunning == \E t \in Tids : tstate[t] = "Running"

\* One request for each member of S, in some order.
Each(S, op) == LET s == SetToSeq(S) IN [i \in 1..Len(s) |-> Req(op, s[i])]

Init ==
    /\ run = FALSE
    /\ guest \in [Tids -> {0}]
    /\ ins = {}
    /\ c2s = <<>>
    /\ s2c \in {<<>>} \cup
          (IF "unsolicited" \in Ops THEN {<<Packet("T", t, 0)>> : t \in Tids}
           ELSE {})
    /\ alive = TRUE
    /\ orphans = <<>> /\ inFlight = FALSE
    /\ target = "Connecting"
    /\ tstate = [t \in Tids |-> "Suspended"]
    /\ regs = [t \in Tids |-> 0]
    /\ stepping = NoStep /\ pending = NoPending
    /\ stopBps = FALSE /\ waitSyms = FALSE
    /\ loaded \in (IF "loading" \in Ops THEN BOOLEAN ELSE {TRUE})
    /\ bp = [a \in Addrs |-> "none"]
    /\ refs = [a \in Addrs |-> {}]
    /\ armed = [a \in Addrs |-> "gone"]
    /\ slot = "free"
    \* handshake(), threads() and one refresh_remote_thread() per thread
    /\ todo = <<Req("qSupported", 0), Req("?", 0), Req("threads", 0)>>
                \o Each(Tids, "g")
                \o <<Req("connected", 0)>>
    /\ await = FALSE /\ late = FALSE /\ faults = {}

-----------------------------------------------------------------------------
(* The stub.  It handles packets in order, answers every request and sends *)
(* a stop reply whenever the guest stops.  While the guest runs, 0x03      *)
(* stops it and any other packet is lost, and may stop it too (QEMU).      *)

StopGuest(t, why) ==
    /\ run' = FALSE
    /\ s2c' = Append(s2c, Packet("T", t, why))

Answer(p) ==
    CASE p.op = "g" -> {Packet("g", p.arg, guest[p.arg])}
      [] p.op = "?" -> {Packet("T", t, 0) : t \in Tids}
      [] p.op = "Z" /\ "reject" \in Ops -> {Packet("Z", p.arg, v) : v \in {0, 1}}
      [] OTHER      -> {Packet(p.op, p.arg, 1)}

StubAnswers ==
    LET p == Head(c2s) IN
    /\ ~run /\ p.op \in Requests
    /\ \E r \in Answer(p) :
         /\ s2c' = Append(s2c, r)
         /\ ins' = CASE p.op = "Z" /\ r.val = 1 -> ins \cup {p.arg}
                     [] p.op = "z" -> ins \ {p.arg}
                     [] p.op = "D" -> {}
                     [] OTHER      -> ins
    /\ run' = (p.op = "D")
    /\ UNCHANGED guest

StubResumes ==
    /\ ~run /\ Head(c2s).op = "vCont;c"
    /\ run' = TRUE
    /\ UNCHANGED <<guest, ins, s2c>>

\* vCont;s:t executes one instruction of t and stops again.
StubSteps ==
    /\ ~run /\ Head(c2s).op = "vCont;s"
    /\ \E t \in Tids, pc \in Addrs \cup {0} :
         /\ t = Head(c2s).arg
         /\ guest' = [guest EXCEPT ![t] = pc]
         /\ StopGuest(t, 0)
    /\ UNCHANGED ins

\* 0x03 at a stopped stub is noise; at a running one it is the interrupt.
StubInterrupted ==
    /\ Head(c2s).op = "0x03"
    /\ \/ ~run /\ UNCHANGED stubVars /\ UNCHANGED s2c
       \/ /\ run
          /\ \E t \in Tids, where \in [Tids -> Addrs \cup {0}] :
               /\ StopGuest(t, 0)
               /\ guest' = where
          /\ UNCHANGED ins

StubDisturbed ==
    /\ run /\ Head(c2s).op # "0x03"
    /\ \/ UNCHANGED stubVars /\ UNCHANGED s2c
       \/ \E t \in Tids : StopGuest(t, 0) /\ UNCHANGED <<guest, ins>>

StubReceives ==
    /\ alive /\ c2s # <<>>
    /\ c2s' = Tail(c2s)
    /\ StubAnswers \/ StubResumes \/ StubSteps \/ StubInterrupted \/ StubDisturbed
    /\ UNCHANGED <<alive, connVars, stepVars, bpVars, dbgVars, runVars>>

\* A vCPU reaches an inserted breakpoint, touches the watched word or gets a
\* signal; the other vCPUs are wherever they are.
GuestStops ==
    /\ alive /\ run /\ target # "Exited"
    /\ \E t \in Tids, where \in [Tids -> Addrs \cup {0}] :
         /\ guest' = where
         /\ \/ where[t] \in ins \cap Addrs /\ StopGuest(t, 1)
            \/ StopGuest(t, 0)
    /\ UNCHANGED <<ins, c2s, alive, connVars, stepVars, bpVars, dbgVars, runVars>>

ConnectionLost ==
    /\ "close" \in Ops /\ alive /\ target # "Connecting"
    /\ alive' = FALSE /\ c2s' = <<>> /\ s2c' = <<>>
    /\ UNCHANGED <<stubVars, connVars, stepVars, bpVars, dbgVars, runVars>>

-----------------------------------------------------------------------------
(* The connection: send_packet(), wait_reply(), wait_stop(), try_wait_stop *)

Write(packets) == c2s' = IF alive THEN c2s \o packets ELSE c2s

\* Mutant: the caller's result of send_packet() is the next caller's too.
RequestDone_Twice(good, val) ==
    /\ todo' = Tail(todo)
    /\ UNCHANGED <<await, regs, armed, slot, target, stepVars, bp, refs, tstate,
                   stopBps, waitSyms, loaded, faults>>

\* What the caller of send_packet() does with an answer.  `good` is "the
\* answer starts the way this request's does", all that the code checks.
RequestDone(good, val) ==
    LET q == Head(todo) IN
    /\ await' = FALSE
    /\ todo' = IF q.op \in Handshake /\ ~good THEN <<>> ELSE Tail(todo)
    /\ regs' = IF q.op = "g" /\ good THEN [regs EXCEPT ![q.arg] = val] ELSE regs
    /\ armed' = CASE q.op = "Z" /\ q.arg # Data ->
                       [armed EXCEPT ![q.arg] = IF good THEN "yes" ELSE "err"]
                  [] q.op = "z" /\ q.arg # Data -> [armed EXCEPT ![q.arg] = "gone"]
                  [] OTHER -> armed
    /\ slot' = IF q.op = "Z" /\ q.arg = Data
               THEN (IF good THEN "pushed" ELSE "free") ELSE slot
    /\ target' = IF q.op \in Handshake /\ ~good
                 THEN "Exited" ELSE target       \* connect_remote() fails
    /\ UNCHANGED <<stepVars, bp, refs, tstate, stopBps, waitSyms, loaded, faults>>

LooksRight(q, p) ==
    CASE q.op = "g"          -> p.op = "g"
      [] q.op = "?"          -> IsStop(p)
      [] q.op = "qSupported" -> TRUE
      [] q.op = "threads"    -> p.op = "threads"
      [] OTHER               -> p.op \in {"Z", "z", "D"} /\ p.val = 1

\* Mutant: resume_in_flight is not looked at.
SendPacket_Races ==
    /\ ~Idle /\ ~await /\ Head(todo).op \in Requests
    /\ Write(<<Head(todo)>>)
    /\ await' = TRUE
    /\ UNCHANGED <<todo, stepVars, bpVars, dbgVars, faults>>
    /\ UNCHANGED <<stubVars, s2c, alive, connVars, late>>

SendPacket ==
    /\ ~Idle /\ ~await /\ Head(todo).op \in Requests
    /\ IF inFlight \/ ~alive
       THEN RequestDone(FALSE, 0) /\ UNCHANGED c2s
       ELSE /\ Write(<<Head(todo)>>)
            /\ await' = TRUE
            /\ UNCHANGED <<todo, stepVars, bpVars, dbgVars, faults>>
    /\ UNCHANGED <<stubVars, s2c, alive, connVars, late>>

\* wait_reply() takes the first packet there is, stashed ones first.
WaitReply ==
    /\ await
    /\ \/ /\ orphans # <<>>
          /\ RequestDone(LooksRight(Head(todo), Head(orphans)), Head(orphans).val)
          /\ orphans' = Tail(orphans) /\ UNCHANGED s2c
       \/ /\ orphans = <<>> /\ s2c # <<>>
          /\ RequestDone(LooksRight(Head(todo), Head(s2c)), Head(s2c).val)
          /\ s2c' = Tail(s2c) /\ UNCHANGED orphans
    /\ UNCHANGED <<stubVars, c2s, alive, inFlight, late>>

\* The read fails: the connection is gone, or 5 seconds pass, be it that
\* nothing was to come or that it comes too late.
NothingToCome == s2c = <<>> /\ (~alive \/ (c2s = <<>> /\ ~run))

ReadFails ==
    \/ NothingToCome /\ late' = late
    \/ "timeout" \in Ops /\ ~late /\ ~NothingToCome /\ late' = TRUE

WaitReplyFails ==
    /\ await /\ orphans = <<>>
    /\ ReadFails
    /\ RequestDone(FALSE, 0)
    /\ UNCHANGED <<stubVars, netVars, connVars>>

-----------------------------------------------------------------------------
(* Breakpoints: activate_breakpoints(), arrange_handle_breakpoints(),      *)
(* handle_breakpoints() and remote_send_cont().                            *)

Handle == <<Req("handle", 0)>>
Cont == <<Req("cont", 0)>>

\* arrange_handle_breakpoints(), then the rest of the handler.
Arrange(needed, rest) ==
    IF needed /\ AnyRunning
    THEN stopBps' = TRUE /\ Write(<<Req("0x03", 0)>>) /\ todo' = rest
    ELSE /\ UNCHANGED <<stopBps, c2s>>
         /\ todo' = (IF needed THEN Handle ELSE <<>>) \o rest

NoStepRefs(r) == [a \in Addrs |-> r[a] \ {"step"}]

CancelStepping ==
    /\ stepping' = NoStep /\ pending' = NoPending
    /\ refs' = IF stepping # NoStep THEN NoStepRefs(refs) ELSE refs

\* The part of activate_breakpoints() that depends on the symbols; r is the
\* locations' references before it.
Activated(as) == {a \in as : bp[a] = "new" /\ loaded'}

\* add_breakpoint_location() for every address that is referred to.
Located == armed' = [a \in Addrs |-> IF armed[a] = "gone" /\ refs'[a] # {} THEN "no"
                                     ELSE armed[a]]

ActivateBreakpoints(as, r) ==
    /\ bp' = [a \in Addrs |-> IF a \in Activated(as) THEN "active" ELSE bp[a]]
    /\ refs' = [a \in Addrs |-> IF a \in Activated(as) THEN r[a] \cup {"user"}
                                ELSE r[a]]
    /\ Located

\* handle_breakpoints(): remove what nothing refers to, insert the rest, then
\* the watchpoint.
\* Mutant: locations nothing refers to are dropped without telling the stub.
HandleBreakpoints_Drops ==
    /\ ~Idle /\ Head(todo).op = "handle"
    /\ todo' = Each({a \in Addrs : refs[a] # {} /\ armed[a] # "yes"}, "Z") \o Tail(todo)
    /\ armed' = [a \in Addrs |-> IF refs[a] = {} THEN "gone" ELSE armed[a]]
    /\ UNCHANGED <<stubVars, netVars, connVars, stepVars, bp, refs, slot, dbgVars,
                   await, late, faults>>

HandleBreakpoints ==
    /\ ~Idle /\ Head(todo).op = "handle"
    /\ todo' = Each({a \in Addrs : refs[a] = {} /\ armed[a] = "yes"}, "z")
               \o Each({a \in Addrs : refs[a] # {} /\ armed[a] # "yes"}, "Z")
               \o (IF slot = "active" THEN <<Req("Z", Data)>> ELSE <<>>)
               \o Tail(todo)
    /\ armed' = [a \in Addrs |-> IF refs[a] = {} /\ armed[a] # "yes" THEN "gone"
                                 ELSE armed[a]]
    /\ UNCHANGED <<stubVars, netVars, connVars, stepVars, bp, refs, slot, dbgVars,
                   await, late, faults>>

\* target_state_for_thread()
ShouldRun(t) ==
    /\ ~stopBps /\ ~waitSyms
    /\ \/ target = "Running"
       \/ target = "Stepping" /\ (stepping.tid = t \/ ~stepping.keep)

VCont(t) == Req(IF stepping.single THEN "vCont;s" ELSE "vCont;c", t)

\* Mutant: vCont is sent whatever target_state says.
RemoteSendCont_Always ==
    /\ ~Idle /\ Head(todo).op = "cont"
    /\ todo' = Tail(todo)
    /\ Write(<<VCont(stepping.tid)>>)
    /\ inFlight' = TRUE
    /\ tstate' = [t \in Tids |-> IF ShouldRun(t) THEN "Running" ELSE tstate[t]]
    /\ UNCHANGED <<target, waitSyms, stepVars, refs>>
    /\ UNCHANGED <<stubVars, s2c, alive, orphans, regs, stopBps, loaded,
                   bp, armed, slot, await, late, faults>>

\* A write into a connection the peer has closed may still succeed.
RemoteSendCont ==
    /\ ~Idle /\ Head(todo).op = "cont"
    /\ todo' = Tail(todo)
    /\ \/ /\ target \notin {"Running", "Stepping"}
          /\ UNCHANGED <<c2s, inFlight, tstate, target, waitSyms, stepVars, refs>>
       \/ /\ target \in {"Running", "Stepping"}
          /\ Write(<<VCont(stepping.tid)>>)
          /\ inFlight' = TRUE
          /\ tstate' = [t \in Tids |-> IF ShouldRun(t) THEN "Running" ELSE tstate[t]]
          /\ UNCHANGED <<target, waitSyms, stepVars, refs>>
       \/ /\ target \in {"Running", "Stepping"} /\ ~alive
          /\ CancelStepping
          /\ target' = "Suspended" /\ waitSyms' = FALSE
          /\ tstate' = [t \in Tids |-> "Suspended"]
          /\ UNCHANGED <<c2s, inFlight>>
    /\ UNCHANGED <<stubVars, s2c, alive, orphans, regs, stopBps, loaded,
                   bp, armed, slot, await, late, faults>>

-----------------------------------------------------------------------------
(* Stop replies: process_events_remote(), suspend()'s wait_stop() and      *)
(* handle_remote_stop().                                                   *)

\* Mutant: only the thread that stopped is refreshed.
HandleRemoteStop_OneThread(p) ==
    /\ inFlight' = FALSE
    /\ target' = "Suspended" /\ waitSyms' = FALSE
    /\ tstate' = [t \in Tids |-> "Suspended"]
    /\ todo' = <<Req("g", p.arg), Packet("stopped", p.arg, p.val)>>

\* handle_remote_stop() up to the registers of every thread.
HandleRemoteStop(p) ==
    /\ inFlight' = FALSE
    /\ target' = "Suspended" /\ waitSyms' = FALSE
    /\ tstate' = [t \in Tids |-> "Suspended"]
    /\ todo' = Each(Tids, "g")
               \o <<Packet("stopped", p.arg, p.val)>>

\* One try_wait_stop() of the 50 ms poll, made by the main loop while the
\* guest is thought to run: packets that are no stop are set aside.
ProcessEventsRemote ==
    /\ Idle /\ target \in {"Running", "Stepping"} /\ s2c # <<>>
    /\ s2c' = Tail(s2c)
    /\ IF IsStop(Head(s2c))
       THEN HandleRemoteStop(Head(s2c)) /\ UNCHANGED orphans
       ELSE /\ orphans' = Append(orphans, Head(s2c))
            /\ UNCHANGED <<inFlight, target, waitSyms, tstate, todo>>
    /\ UNCHANGED <<stubVars, c2s, alive, stepVars, bpVars, regs, stopBps, loaded,
                   await, late, faults>>

\* suspend() after its 0x03: wait_stop() drops what is no stop.
WaitStop ==
    /\ ~Idle /\ Head(todo).op = "wait_stop" /\ s2c # <<>>
    /\ s2c' = Tail(s2c)
    /\ IF IsStop(Head(s2c)) THEN HandleRemoteStop(Head(s2c))
       ELSE UNCHANGED <<inFlight, target, waitSyms, tstate, todo>>
    /\ UNCHANGED <<stubVars, c2s, alive, orphans, stepVars, bpVars, regs, stopBps,
                   loaded, await, late, faults>>

WaitStopFails ==
    /\ ~Idle /\ Head(todo).op = "wait_stop" /\ s2c = <<>>
    /\ ReadFails
    /\ todo' = <<>>
    /\ UNCHANGED <<stubVars, netVars, connVars, stepVars, bpVars, dbgVars, await,
                   faults>>

\* handle_remote_stop() once the registers are there.  Whether a range step
\* has left its range is handle_step_stop()'s, a choice here; it may also add
\* step breakpoints, to be armed at the next stop.
HitUserBreakpoint(p) == p.val = 1 /\ regs[p.arg] \in Addrs /\ "user" \in refs[regs[p.arg]]

\* Mutant: handle_breakpoints() is not called after a stop.
StopDone_NoHandle ==
    LET p == Head(todo) IN
    /\ \/ stepping.tid # p.arg /\ UNCHANGED <<stepVars, refs>>
       \/ stepping.tid = p.arg /\ CancelStepping
    /\ todo' = <<>>
    /\ stopBps' = FALSE
    /\ UNCHANGED <<c2s, inFlight, target, tstate, armed>>

StopDone ==
    LET p == Head(todo) IN
    /\ \/ stepping.tid # p.arg /\ UNCHANGED <<stepVars, refs>>
       \/ stepping.tid = p.arg /\ CancelStepping
    /\ todo' = Handle
    /\ stopBps' = FALSE
    /\ UNCHANGED <<c2s, inFlight, target, tstate, armed>>

StepGoesOn ==
    LET p == Head(todo) IN
    /\ stepping.tid = p.arg /\ ~HitUserBreakpoint(p)
    /\ ~stepping.single /\ ~stepping.cursor
    /\ todo' = <<>>
    /\ Write(<<Req("vCont;s", p.arg)>>)
    /\ inFlight' = TRUE
    /\ target' = "Stepping"
    /\ tstate' = [tstate EXCEPT ![p.arg] = "Running"]
    /\ \/ UNCHANGED <<refs, stopBps>>
       \/ \E a \in Addrs : /\ refs' = [refs EXCEPT ![a] = @ \cup {"step"}]
                           /\ stopBps' = TRUE
    /\ Located
    /\ UNCHANGED stepVars

StepWriteFails ==
    LET p == Head(todo) IN
    /\ ~alive
    /\ stepping.tid = p.arg /\ ~HitUserBreakpoint(p)
    /\ ~stepping.single /\ ~stepping.cursor
    /\ todo' = <<>>
    /\ CancelStepping
    /\ UNCHANGED <<c2s, inFlight, target, tstate, stopBps, armed>>

AfterStop ==
    /\ ~Idle /\ Head(todo).op = "stopped"
    /\ StopDone \/ StepGoesOn \/ StepWriteFails
    /\ UNCHANGED <<stubVars, s2c, alive, orphans, regs, waitSyms, loaded, bp,
                   slot, await, late, faults>>

-----------------------------------------------------------------------------
(* What the user does, between two handlers.                               *)

UserMayAct ==
    /\ Idle /\ target # "Exited"
    /\ Len(c2s) + Len(s2c) < MaxWire
    /\ ~late \/ "aftermath" \in Ops

\* The end of connect_remote().
Connected ==
    /\ ~Idle /\ Head(todo).op = "connected"
    /\ todo' = <<>>
    /\ target' = "Suspended"
    /\ UNCHANGED <<stubVars, netVars, connVars, stepVars, bpVars, tstate, regs,
                   stopBps, waitSyms, loaded, await, late, faults>>

\* shutdown(), on exit and from the panic handler: remove the breakpoints,
\* then detach.
DetachFromStub ==
    /\ target' = "Exited"
    /\ todo' = Each({a \in Addrs : armed[a] = "yes"}, "z") \o <<Req("D", 0)>>
    /\ UNCHANGED <<stubVars, netVars, connVars, stepVars, bpVars, tstate, regs,
                   stopBps, waitSyms, loaded, await>>

Resume ==
    /\ UserMayAct
    /\ target = "Suspended" \/ "overlap" \in Ops
    /\ target \in {"Suspended", "Stepping"} \/ waitSyms
    /\ target' = "Running"
    /\ UNCHANGED loaded
    /\ LET r == IF target = "Stepping" THEN NoStepRefs(refs) ELSE refs IN
       IF waitSyms
       THEN /\ todo' = Cont
            /\ refs' = r
            /\ UNCHANGED <<waitSyms, bp, armed, stopBps, c2s>>
       ELSE /\ ActivateBreakpoints(Addrs, r)
            /\ waitSyms' = \E a \in Addrs : bp'[a] = "new"
            /\ Arrange(TRUE, Cont)
    /\ ~waitSyms' \/ "early" \in Ops
    /\ IF target = "Stepping" THEN stepping' = NoStep /\ pending' = NoPending
       ELSE UNCHANGED stepVars
    /\ UNCHANGED <<stubVars, s2c, alive, connVars, tstate, regs, slot, await, late,
                   faults>>

Suspend ==
    /\ UserMayAct
    /\ target \in {"Running", "Stepping"}
    /\ CancelStepping
    /\ target' = "Suspended" /\ waitSyms' = FALSE
    /\ Write(<<Req("0x03", 0)>>)
    /\ \/ todo' = <<Req("wait_stop", 0)>>
       \/ ~alive /\ todo' = <<>>
    /\ UNCHANGED <<stubVars, s2c, alive, connVars, tstate, regs, stopBps, loaded,
                   bp, armed, slot, await, late, faults>>

\* step(): `as` are the breakpoints at the ends of a range step's range.  The
\* assertion of its first lines fails while an earlier step is unfinished.
Step(t, single, keep, as) ==
    /\ UserMayAct
    /\ target = "Suspended"
    /\ ~waitSyms \/ "early" \in Ops
    /\ single <=> as = {}
    /\ stepping = NoStep /\ tstate[t] = "Suspended"
    /\ stepping' = [tid |-> t, single |-> single, keep |-> keep, cursor |-> FALSE]
    /\ target' = "Stepping"
    /\ refs' = [a \in Addrs |-> IF a \in as THEN refs[a] \cup {"step"} ELSE refs[a]]
    /\ Located
    /\ Arrange(as # {} \/ (regs[t] \in Addrs /\ armed[regs[t]] # "gone"), Cont)
    /\ UNCHANGED <<stubVars, s2c, alive, connVars, pending, tstate, regs, waitSyms,
                   loaded, bp, slot, await, late, faults>>

StepPanics ==
    /\ UserMayAct
    /\ target = "Suspended" /\ stepping # NoStep
    /\ faults' = {"assert!(stepping.is_none())"}
    /\ DetachFromStub
    /\ UNCHANGED late

\* try_pending_step_and_activate_breakpoints(); p is the pending step, st the
\* step in progress and r the references of the locations.
TryPendingStep(p, st, r) ==
    LET starts == p # NoPending /\ loaded'
        r2 == IF starts THEN [r EXCEPT ![p.addr] = @ \cup {"step"}] ELSE r
    IN  /\ ActivateBreakpoints(Addrs, r2)
        /\ stepping' = IF starts THEN [NoStep EXCEPT !.tid = p.tid, !.cursor = TRUE]
                       ELSE st
        /\ pending' = IF starts THEN NoPending ELSE p
        /\ waitSyms' = (pending' # NoPending \/ \E a \in Addrs : bp'[a] = "new")
        /\ Arrange(starts \/ Activated(Addrs) # {}, IF waitSyms' THEN <<>> ELSE Cont)

StepToCursor(t, a) ==
    /\ UserMayAct
    /\ target = "Suspended" \/ "overlap" \in Ops
    /\ target' = "Stepping"
    /\ UNCHANGED loaded
    /\ TryPendingStep([tid |-> t, addr |-> a], NoStep,
                      IF stepping # NoStep THEN NoStepRefs(refs) ELSE refs)
    /\ UNCHANGED <<stubVars, s2c, alive, connVars, tstate, regs, slot, await, late,
                   faults>>

AddBreakpoint(a) ==
    /\ UserMayAct /\ bp[a] = "none"
    /\ UNCHANGED loaded
    /\ bp' = [bp EXCEPT ![a] = IF loaded THEN "active" ELSE "new"]
    /\ refs' = IF loaded THEN [refs EXCEPT ![a] = @ \cup {"user"}] ELSE refs
    /\ Located
    /\ waitSyms' = (waitSyms \/ ~loaded)
    /\ Arrange(loaded, <<>>)
    /\ UNCHANGED <<stubVars, s2c, alive, connVars, stepVars, target, tstate, regs,
                   slot, await, late, faults>>

\* remove_breakpoint() leaves the location to the next handle_breakpoints().
RemoveBreakpoint(a) ==
    /\ UserMayAct /\ bp[a] # "none"
    /\ bp' = [bp EXCEPT ![a] = "none"]
    /\ refs' = [refs EXCEPT ![a] = @ \ {"user"}]
    /\ UNCHANGED <<stubVars, netVars, connVars, stepVars, armed, slot, dbgVars,
                   runVars>>

AddWatch ==
    /\ UserMayAct /\ "watch" \in Ops /\ slot = "free"
    /\ slot' = "active"
    /\ Arrange(TRUE, <<>>)
    /\ UNCHANGED <<stubVars, s2c, alive, connVars, stepVars, bp, refs, armed, target,
                   tstate, regs, waitSyms, loaded, await, late, faults>>

\* The slot is cleared whether or not the stub could be told.
RemoveWatch ==
    /\ UserMayAct /\ slot # "free"
    /\ todo' = IF slot = "pushed" THEN <<Req("z", Data)>> ELSE <<>>
    /\ slot' = "free"
    /\ UNCHANGED <<stubVars, netVars, connVars, stepVars, bp, refs, armed, dbgVars,
                   await, late, faults>>

\* drop_caches(): new symbols.
SymbolsLoaded ==
    /\ Idle /\ ~loaded /\ target # "Exited"
    /\ ~inFlight \/ "overlap" \in Ops
    /\ loaded' = TRUE
    /\ todo' = (IF inFlight THEN <<>>
                ELSE Each(Tids, "g"))
               \o <<Req("retry", 0)>>
    /\ UNCHANGED <<stubVars, netVars, connVars, stepVars, bpVars, target, tstate,
                   regs, stopBps, waitSyms, await, late, faults>>

RetryPending ==
    /\ ~Idle /\ Head(todo).op = "retry"
    /\ UNCHANGED loaded
    /\ TryPendingStep(pending, stepping, refs)
    /\ UNCHANGED <<stubVars, s2c, alive, connVars, target, tstate, regs, slot, await,
                   late, faults>>

\* RemoteMemReader: a stack, a watch expression, a code window.
ReadMemory ==
    /\ UserMayAct
    /\ todo' = <<Req("m", 0)>>
    /\ UNCHANGED <<stubVars, netVars, connVars, stepVars, bpVars, dbgVars, await,
                   late, faults>>

Shutdown ==
    /\ "quit" \in Ops /\ Idle /\ target # "Exited"
    /\ DetachFromStub
    /\ UNCHANGED <<late, faults>>

Exited ==
    /\ Idle /\ target = "Exited" /\ UNCHANGED vars

-----------------------------------------------------------------------------
UserActs ==
    \/ Resume \/ Suspend \/ AddWatch \/ RemoveWatch \/ ReadMemory \/ Shutdown
    \/ StepPanics
    \/ \E t \in Tids, single, keep \in BOOLEAN, as \in SUBSET Addrs :
         Step(t, single, keep, as)
    \/ \E t \in Tids, a \in Addrs : StepToCursor(t, a)
    \/ \E a \in Addrs : AddBreakpoint(a) \/ RemoveBreakpoint(a)

\* The debugger thread inside a handler, and the 50 ms poll that starts one.
DebuggerStep ==
    \/ SendPacket \/ WaitReply \/ HandleBreakpoints \/ RemoteSendCont
    \/ ProcessEventsRemote \/ WaitStop \/ AfterStop \/ Connected \/ RetryPending
    \/ (NothingToCome /\ (WaitReplyFails \/ WaitStopFails))

Next ==
    \/ StubReceives \/ GuestStops \/ ConnectionLost
    \/ DebuggerStep \/ WaitReplyFails \/ WaitStopFails
    \/ UserActs \/ SymbolsLoaded \/ Exited

\* The stub serves its connection; the debugger thread goes on with what it
\* is doing, and every turn of the main loop polls the stub while the guest
\* runs, whatever the user does between the turns.
Fairness ==
    /\ WF_vars(StubReceives)
    /\ WF_vars(DebuggerStep)
    /\ SF_vars(ProcessEventsRemote)

Spec == Init /\ [][Next]_vars /\ Fairness

-----------------------------------------------------------------------------
TypeOK ==
    /\ run \in BOOLEAN /\ alive \in BOOLEAN /\ inFlight \in BOOLEAN
    /\ guest \in [Tids -> Addrs \cup {0}] /\ regs \in [Tids -> Addrs \cup {0}]
    /\ ins \subseteq Points
    /\ target \in {"Connecting", "Running", "Stepping", "Suspended", "Exited"}
    /\ tstate \in [Tids -> {"Running", "Suspended"}]
    /\ stepping \in [tid : Tids \cup {0}, single : BOOLEAN, keep : BOOLEAN,
                     cursor : BOOLEAN]
    /\ pending \in [tid : Tids \cup {0}, addr : Addrs \cup {0}]
    /\ stopBps \in BOOLEAN /\ waitSyms \in BOOLEAN /\ loaded \in BOOLEAN
    /\ bp \in [Addrs -> {"none", "new", "active"}]
    /\ refs \in [Addrs -> SUBSET {"user", "step"}]
    /\ armed \in [Addrs -> {"gone", "no", "yes", "err"}]
    /\ slot \in {"free", "active", "pushed"}
    /\ await \in BOOLEAN /\ late \in BOOLEAN
    /\ await => ~Idle /\ Head(todo).op \in Requests

InStep == alive /\ ~late              \* no answer was lost or given up on

\* Between two handlers, a target shown as suspended is stopped, and nothing is
\* under way that could wake it or be taken for the answer to a later request
\* (resume_in_flight: "while set, the stub's next bytes are that stop").
BeliefSound ==
    InStep /\ Idle /\ target = "Suspended" =>
        /\ ~run /\ ~inFlight
        /\ s2c = <<>> /\ orphans = <<>>
        /\ \A i \in 1..Len(c2s) : c2s[i].op = "0x03"

\* The registers shown for a suspended target are those of this stop
\* (refresh_remote_thread() skips threads while a resume is in flight).
RegsCurrent ==
    InStep /\ Idle /\ target = "Suspended" => regs = guest

\* The two views of the breakpoints agree.  A guest that runs, with no stop
\* asked for, has every location inserted that is in use and was not refused;
\* and every code breakpoint in the stub has an active location, so that the
\* debugger will remove it (deactivate_breakpoint() leaves that to the next
\* handle_breakpoints(), which has to be told by somebody).
BreakpointsAgree ==
    /\ InStep /\ Idle /\ run /\ ~stopBps /\ target = "Running" =>
          \A a \in Addrs : refs[a] # {} => a \in ins \/ armed[a] = "err"
    /\ InStep /\ Idle /\ target # "Exited" =>
          \A a \in Addrs : a \in ins => armed[a] = "yes"

\* No answer is taken for that of another request.
RepliesMatch ==
    InStep /\ await /\ (orphans \o s2c) # <<>> =>
        LET p == Head(orphans \o s2c) IN
        \/ p.op = Head(todo).op /\ p.arg = Head(todo).arg
        \/ Head(todo).op = "?" /\ IsStop(p)

\* The debugger's picture of a remote target is the target.
RemoteAgrees == TypeOK /\ RegsCurrent /\ BreakpointsAgree /\ RepliesMatch

\* A breakpoint set while the guest runs gets into the stub, unless it is
\* refused or removed or a range step keeps the guest to itself.
EventuallyArmed ==
    \A a \in Addrs :
        (bp[a] = "active" /\ a \notin ins)
            ~> (a \in ins \/ armed[a] = "err" \/ bp[a] = "none" \/ ~InStep
                \/ stepping # NoStep \/ target = "Exited")
=============================================================================
