-------------------------- MODULE MCPtraceLiveness --------------------------
(* Two instances of PtraceControl for the liveness properties: one as the cfg *)
(* says, and one whose process is killed, which has no symbols to wait for.   *)
(* Every step of the second is a step the first could take, but for SIGKILL   *)
(* and signals, so that one statement of fairness serves both.                *)
EXTENDS PtraceControl

VARIABLE killing    \* which of the two it is

Killing == INSTANCE PtraceControl
    WITH Binaries <- {}, Ops <- {"BENIGN", "kill", "suspend"}

MCInit == killing \in BOOLEAN /\ Init

MCNext ==
    /\ \/ ~killing /\ Next
       \/ killing /\ Killing!Next
    /\ UNCHANGED killing

MCSpec == MCInit /\ [][MCNext]_<<killing, vars>> /\ Fairness
=============================================================================
