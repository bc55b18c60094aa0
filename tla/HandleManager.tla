--------------------------- MODULE HandleManager ---------------------------
(***************************************************************************)
(* The table of open files, planet::handle_manager (planet/handle.hpp).    *)
(*                                                                         *)
(* ops_ maps a handle to the (entry_op, fs_entry) pair of one open file;   *)
(* the pair's value never changes, so the table is the set of its keys.    *)
(* register_op and unregister_op run under mtx_, get_op_entry does not:    *)
(* while another thread holds mtx_ it reads a std::map that is being       *)
(* modified, and std::map::at may then miss a key that is present.  Each   *)
(* critical section is two steps, so that a lookup can fall between them.  *)
(*                                                                         *)
(* The code counts handles and gives none out twice; here a handle may be  *)
(* given out again once its entry is erased, so that a run of the model    *)
(* has no last open.  Nothing has it any more by then.                     *)
(***************************************************************************)
EXTENDS Naturals

CONSTANTS
    Threads,     \* the FUSE worker threads, each serving one request at a time
    NoThread,    \* the value of mtx while nobody holds the mutex
    MaxHandle    \* bound: entries at one time (the code counts in an int)

ASSUME ThreadsAssumption == NoThread \notin Threads
ASSUME MaxHandleAssumption == MaxHandle \in Nat

VARIABLES
    ops,         \* the keys of handle_manager::ops_
    mtx          \* the thread inside a critical section of handle_manager

handleVars == <<ops, mtx>>

Handle == 1 .. MaxHandle

HandleManagerInit ==
    /\ ops = {}
    /\ mtx = NoThread

\* lock_guard lock(mtx_) in register_op and in unregister_op
Acquire(t) ==
    /\ mtx = NoThread
    /\ mtx' = t
    /\ UNCHANGED ops

\* Mutant of RegisterOp: the entry is inserted under the old counter value.
RegisterOpOffByOne(t, h) ==
    /\ mtx = t
    /\ h \notin ops
    /\ ops' = ops \union {h - 1}
    /\ mtx' = NoThread

\* register_op: current_ + 1 is a handle that is not in the table
RegisterOp(t, h) ==
    /\ mtx = t
    /\ h \notin ops
    /\ ops' = ops \union {h}
    /\ mtx' = NoThread

\* unregister_op: erase of a key that is absent does nothing
UnregisterOp(t, h) ==
    /\ mtx = t
    /\ ops' = ops \ {h}
    /\ mtx' = NoThread

\* get_op_entry by thread t: a reference into the table ...
LookupFinds(h) == h \in ops

\* ... or std::invalid_argument: the key is absent, or missed during a write
LookupThrows(t, h) == h \notin ops \/ mtx \notin {NoThread, t}
=============================================================================
