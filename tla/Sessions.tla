------------------------------ MODULE Sessions ------------------------------
(***************************************************************************)
(* The files nnd keeps in ~/.nnd (src/src/persistent.rs): several debugger *)
(* processes take a session directory each, save and restore their state   *)
(* there, and follow the key bindings file they share.                     *)
(*                                                                         *)
(* A state is a version number, 0 for "no file"; Torn is a file that is    *)
(* only partly written.  A process may die between any two system calls,   *)
(* and the user may rewrite the configuration at any moment, in two steps  *)
(* as editors do (truncate, write).  Locks die with their process.         *)
(***************************************************************************)
EXTENDS Naturals, FiniteSets

CONSTANTS Procs,        \* debugger processes, in the order of their ids
          NumDirs,      \* directories tried (100 in the code)
          Versions,     \* states of the debugger that can be told apart
          Configs,      \* contents of the key bindings file; Bad is among them
          MaxEdits      \* bound: edits of the configuration

None == "none"
Torn == 99
Default == "default"                 \* KeyBinds::default()
Bad == "bad"                         \* does not parse
Dirs == 0..(NumDirs - 1)

ASSUME SessionsAssumption ==
    NumDirs \in Nat \ {0} /\ None \notin Procs /\ Versions \cap {0, Torn} = {}

VARIABLES
    pc,         \* pc[p]: where p is
    dir,        \* dir[p]: the directory p tries or owns
    owner,      \* owner[d]: who holds the flock on d/lock, or None
    state,      \* state[d]: contents of d/state
    tmp,        \* tmp[d]: contents of d/state.tmp
    mem,        \* mem[p]: the state p would save now
    hash,       \* hash[p]: state_hash, 0 before anything was saved or loaded
    buf,        \* buf[p]: what p is writing
    file,       \* the shared file "keys"
    error,      \* the shared file "keys.error" exists
    watch,      \* watch[p]: p has its inotify watch
    events,     \* events[p]: changes of "keys" not read yet
    binds,      \* binds[p]: key_binds
    edits       \* edits made so far

sessionsVars == <<pc, dir, owner, state, tmp, mem, hash, buf, file, error, watch, events,
          binds, edits>>

SessionsInit ==
    /\ pc = [p \in Procs |-> "new"]
    /\ dir = [p \in Procs |-> 0]
    /\ owner = [d \in Dirs |-> None]
    /\ state = [d \in Dirs |-> 0]
    /\ tmp = [d \in Dirs |-> 0]
    /\ mem = [p \in Procs |-> 0]
    /\ hash = [p \in Procs |-> 0]
    /\ buf = [p \in Procs |-> 0]
    /\ file = Default
    /\ error = FALSE
    /\ watch = [p \in Procs |-> FALSE]
    /\ events = [p \in Procs |-> FALSE]
    /\ binds = [p \in Procs |-> Default]
    /\ edits = 0

filesVars == <<owner, state, tmp>>
confVars == <<file, error, watch, events, binds, edits>>

Go(p, from, to) == pc[p] = from /\ pc' = [pc EXCEPT ![p] = to]

\* A change of "keys" reaches every process that watches.
Touch == events' = [p \in Procs |-> events[p] \/ watch[p]]

-----------------------------------------------------------------------------
(* try_init(): the first directory whose lock is free.                     *)

TakeDir(p) ==
    /\ Go(p, "new", "load")
    /\ owner[dir[p]] = None
    /\ owner' = [owner EXCEPT ![dir[p]] = p]
    /\ UNCHANGED <<dir, state, tmp, mem, hash, buf, confVars>>

\* Mutant: EWOULDBLOCK is taken for success.
TryNextDir_Shares(p) ==
    /\ pc[p] = "new" /\ owner[dir[p]] # None
    /\ pc' = [pc EXCEPT ![p] = "load"]
    /\ UNCHANGED <<dir, filesVars, mem, hash, buf, confVars>>

TryNextDir(p) ==
    /\ pc[p] = "new" /\ owner[dir[p]] # None
    /\ IF dir[p] + 1 \in Dirs
       THEN dir' = [dir EXCEPT ![p] = @ + 1] /\ UNCHANGED pc
       ELSE pc' = [pc EXCEPT ![p] = "nodir"] /\ UNCHANGED dir   \* fallback_init()
    /\ UNCHANGED <<filesVars, mem, hash, buf, confVars>>

-----------------------------------------------------------------------------
(* load_state_and_configs(): watch the configuration, read it, load.       *)

\* read_keys_config() and what its callers make of the result.
ReadKeys(p) ==
    /\ error' = (file = Bad)
    /\ binds' = [binds EXCEPT ![p] = IF file = Bad THEN @ ELSE file]

Subscribe(p) ==
    /\ Go(p, "load", "keys")
    /\ watch' = [watch EXCEPT ![p] = TRUE]
    /\ UNCHANGED <<dir, filesVars, mem, hash, buf, file, error, events, binds, edits>>

ReadConfig(p) ==
    /\ Go(p, "keys", "restore")
    /\ ReadKeys(p)
    /\ UNCHANGED <<dir, filesVars, mem, hash, buf, file, watch, events, edits>>

\* load_state(): a file that does not parse is reported and left for the next
\* save to replace.
LoadState(p) ==
    LET s == state[dir[p]] IN
    /\ Go(p, "restore", "idle")
    /\ IF s \in Versions
       THEN hash' = [hash EXCEPT ![p] = s] /\ mem' = [mem EXCEPT ![p] = s]
       ELSE UNCHANGED <<hash, mem>>
    /\ UNCHANGED <<dir, filesVars, buf, confVars>>

-----------------------------------------------------------------------------
(* The main loop: the user changes things, the timer saves them.           *)

Change(p) ==
    /\ pc[p] = "idle"
    /\ \E v \in Versions : mem' = [mem EXCEPT ![p] = v]
    /\ UNCHANGED <<pc, dir, filesVars, hash, buf, confVars>>

\* save_state_if_changed(), one action per system call.  The state does not
\* change meanwhile: it is the main thread that saves.
SaveBegins(p) ==
    /\ mem[p] # 0 /\ mem[p] # hash[p]
    /\ Go(p, "idle", "write")
    /\ tmp' = [tmp EXCEPT ![dir[p]] = Torn]            \* O_TRUNC
    /\ buf' = [buf EXCEPT ![p] = mem[p]]
    /\ UNCHANGED <<dir, owner, state, mem, hash, confVars>>

SaveWrites(p) ==
    /\ Go(p, "write", "rename")
    /\ tmp' = [tmp EXCEPT ![dir[p]] = buf[p]]
    /\ UNCHANGED <<dir, owner, state, mem, hash, buf, confVars>>

SaveRenames(p) ==
    /\ Go(p, "rename", "idle")
    /\ state' = [state EXCEPT ![dir[p]] = tmp[dir[p]]]
    /\ tmp' = [tmp EXCEPT ![dir[p]] = 0]
    /\ hash' = [hash EXCEPT ![p] = buf[p]]
    /\ UNCHANGED <<dir, owner, mem, buf, confVars>>

\* Mutant: what is to be saved counts as saved although writing it failed.
SaveFails_Counts(p) ==
    /\ pc[p] \in {"write", "rename"}
    /\ pc' = [pc EXCEPT ![p] = "idle"]
    /\ hash' = [hash EXCEPT ![p] = buf[p]]
    /\ UNCHANGED <<dir, filesVars, mem, buf, confVars>>

\* Disk full, permissions: the next tick of the timer tries again.
SaveFails(p) ==
    /\ pc[p] \in {"write", "rename"}
    /\ pc' = [pc EXCEPT ![p] = "idle"]
    /\ UNCHANGED <<dir, filesVars, mem, hash, buf, confVars>>

\* Mutant: only the last of the events is compared with "keys".
DrainEvents_LastOnly(p) ==
    /\ pc[p] = "idle" /\ events[p]
    /\ pc' \in {[pc EXCEPT ![p] = "reread"], pc}
    /\ events' = [events EXCEPT ![p] = FALSE]
    /\ UNCHANGED <<dir, filesVars, mem, hash, buf, file, error, watch, binds, edits>>

\* process_events(): the queue is drained first, the file read afterwards.
DrainEvents(p) ==
    /\ events[p]
    /\ Go(p, "idle", "reread")
    /\ events' = [events EXCEPT ![p] = FALSE]
    /\ UNCHANGED <<dir, filesVars, mem, hash, buf, file, error, watch, binds, edits>>

RereadConfig(p) ==
    /\ Go(p, "reread", "idle")
    /\ ReadKeys(p)
    /\ UNCHANGED <<dir, filesVars, mem, hash, buf, file, watch, events, edits>>

\* Exit, panic or SIGKILL: the lock goes, the files stay.  The process may be
\* started again.
Die(p) ==
    /\ pc[p] # "new"
    /\ pc' = [pc EXCEPT ![p] = "new"]
    /\ owner' = [d \in Dirs |-> IF owner[d] = p THEN None ELSE owner[d]]
    /\ dir' = [dir EXCEPT ![p] = 0] /\ mem' = [mem EXCEPT ![p] = 0]
    /\ hash' = [hash EXCEPT ![p] = 0] /\ buf' = [buf EXCEPT ![p] = 0]
    /\ watch' = [watch EXCEPT ![p] = FALSE]
    /\ events' = [events EXCEPT ![p] = FALSE]
    /\ binds' = [binds EXCEPT ![p] = Default]
    /\ UNCHANGED <<state, tmp, file, error, edits>>

\* The user's editor.
EditConfig ==
    /\ edits < MaxEdits
    /\ file' \in Configs \ {file}
    /\ edits' = edits + 1
    /\ Touch
    /\ UNCHANGED <<pc, dir, filesVars, mem, hash, buf, error, watch, binds>>

-----------------------------------------------------------------------------
Save(p) == SaveBegins(p) \/ SaveWrites(p) \/ SaveRenames(p)

Work(p) ==
    \/ TakeDir(p) \/ TryNextDir(p) \/ Subscribe(p) \/ ReadConfig(p) \/ LoadState(p)
    \/ Save(p)

SessionsNext ==
    \/ EditConfig
    \/ \E p \in Procs : Work(p) \/ Change(p) \/ SaveFails(p) \/ DrainEvents(p)
                        \/ RereadConfig(p) \/ Die(p)

SessionsSpec == SessionsInit /\ [][SessionsNext]_sessionsVars

-----------------------------------------------------------------------------
SessionsTypeOK ==
    /\ pc \in [Procs -> {"new", "nodir", "load", "keys", "restore", "idle", "write",
                         "rename", "reread"}]
    /\ dir \in [Procs -> Dirs] /\ owner \in [Dirs -> Procs \cup {None}]
    /\ state \in [Dirs -> Versions \cup {0, Torn}]
    /\ tmp \in [Dirs -> Versions \cup {0, Torn}]
    /\ mem \in [Procs -> Versions \cup {0}] /\ hash \in [Procs -> Versions \cup {0}]
    /\ buf \in [Procs -> Versions \cup {0}]
    /\ file \in Configs \cup {Default} /\ binds \in [Procs -> Configs \cup {Default}]
    /\ watch \in [Procs -> BOOLEAN] /\ events \in [Procs -> BOOLEAN]

\* What a process takes for saved (state_hash) is what the next process that
\* gets the directory will load, whoever died in the middle of what; and no
\* file "state" is ever half a state.
SavedIsOnDisk ==
    /\ \A p \in Procs : hash[p] # 0 => state[dir[p]] = hash[p]
    /\ \A d \in Dirs : state[d] # Torn

\* A process that has seen all changes of the configuration uses it: the last
\* contents, unless those do not parse.
ConfigFollowed ==
    \A p \in Procs : pc[p] = "idle" /\ ~events[p] /\ file # Bad => binds[p] = file

\* What a session believes to be on disk is, and key bindings follow their file,
\* whoever else runs or dies.
SessionsSound == SessionsTypeOK /\ SavedIsOnDisk /\ ConfigFollowed
=============================================================================
