----------------------------- MODULE FusePoller -----------------------------
(***************************************************************************)
(* The polling thread, planet::fuse_poller (planet/fuse_poller.cpp).       *)
(*                                                                         *)
(* phs_ is the vector of (handle, fuse_pollhandle, mask): the set `polled' *)
(* with the function ph and the set mask.  Its order, that of the first    *)
(* poll of each handle, is abstracted: a round takes them in any order.    *)
(* A round holds phs_mtx_ from its first handle to its last, calls into    *)
(* the operation of each handle, and notifies and destroys the poll        *)
(* handles of those that answered.  The other methods are one critical     *)
(* section each and touch nothing but what phs_mtx_ protects, so they are  *)
(* one step, enabled while no round is running.                            *)
(*                                                                         *)
(* libfuse allocates a fuse_pollhandle for a poll request that asks for a  *)
(* notification; `live' is the set of those allocated and not destroyed.   *)
(* One that nobody has any more, destroyed or leaked, may stand for the    *)
(* next that libfuse allocates.                                            *)
(***************************************************************************)
EXTENDS HandleManager

CONSTANTS
    PollHandles,   \* bound: the fuse_pollhandle objects somebody has at one time
    NoPh,          \* nullptr
    Poller         \* the polling thread

ASSUME PollerAssumption ==
    /\ NoPh \notin PollHandles
    /\ Poller \notin Threads \union {NoThread}

VARIABLES
    polled,        \* the handles phs_ has an element for
    ph,            \* the fuse_pollhandle of each element
    mask,          \* the handles whose element has a nonzero pollmask
    live,          \* poll handles allocated by libfuse and not yet destroyed
    started,       \* polling_thread_ runs
    pat,           \* where the polling thread is
    todo,          \* the elements the current round has not visited yet
    cursor         \* the element it is visiting

pollerVars == <<polled, ph, mask, live, started, pat, todo, cursor>>

NoHandle == 0

PollerInit ==
    /\ polled = {}
    /\ ph = [h \in Handle |-> NoPh]
    /\ mask = {}
    /\ live = {}
    /\ started = FALSE
    /\ pat = "sleep"
    /\ todo = {}
    /\ cursor = NoHandle

Unlocked == pat = "sleep"      \* nobody holds phs_mtx_

\* Mutant of RegisterNew: an element that exists keeps its poll handle.
RegisterNewKeepsOld(h, p) ==
    /\ Unlocked
    /\ polled' = polled \union {h}
    /\ ph' = IF h \in polled THEN ph ELSE [ph EXCEPT ![h] = p]
    /\ mask' = IF h \in polled THEN mask ELSE mask \ {h}
    /\ UNCHANGED <<live, started, pat, todo, cursor>>

\* register_new: a second request for h replaces and destroys the first's ph
RegisterNew(h, p) ==
    /\ Unlocked
    /\ polled' = polled \union {h}
    /\ live' = live \ {ph[h]}
    /\ ph' = [ph EXCEPT ![h] = p]
    /\ mask' = IF h \in polled THEN mask ELSE mask \ {h}
    /\ UNCHANGED <<started, pat, todo, cursor>>

\* Mutant of Unregister: without phs_mtx_.
UnregisterUnlocked(h) ==
    /\ polled' = polled \ {h}
    /\ ph' = [ph EXCEPT ![h] = NoPh]
    /\ mask' = mask \ {h}
    /\ UNCHANGED <<live, started, pat, todo, cursor>>

\* unregister: the element goes, its poll handle is not destroyed
Unregister(h) ==
    /\ Unlocked
    /\ polled' = polled \ {h}
    /\ ph' = [ph EXCEPT ![h] = NoPh]
    /\ mask' = mask \ {h}
    /\ UNCHANGED <<live, started, pat, todo, cursor>>

\* get_status: the mask the last round left, 0 for a handle it has not got
Status(h) == h \in polled \intersect mask

(***************************************************************************)
(* The polling thread.  `answers' stands for the handles whose operation   *)
(* answers with a nonzero mask now.                                        *)
(***************************************************************************)

\* polling enters poll_handles and takes phs_mtx_
RoundBegin ==
    /\ started
    /\ pat = "sleep"
    /\ pat' = "scan"
    /\ todo' = polled
    /\ UNCHANGED <<polled, ph, mask, live, started, cursor>>

\* the next element: its mask is cleared, core_file_system::poll looks it up
Visit(h) ==
    /\ pat = "scan"
    /\ h \in todo
    /\ LookupFinds(h)
    /\ mask' = mask \ {h}
    /\ todo' = todo \ {h}
    /\ cursor' = h
    /\ pat' = "ask"
    /\ UNCHANGED <<polled, ph, live, started>>

\* ... and the lookup throws: polling catches, the rest of the round is lost
VisitThrows(h) ==
    /\ pat = "scan"
    /\ h \in todo
    /\ LookupThrows(Poller, h)
    /\ mask' = mask \ {h}
    /\ todo' = {}
    /\ pat' = "sleep"
    /\ UNCHANGED <<polled, ph, live, started, cursor>>

\* Mutant of Ask: the answer is not looked at.
AskAlwaysNotifies(answers) ==
    /\ pat = "ask"
    /\ pat' = "notify"
    /\ mask' = IF cursor \in answers THEN mask \union {cursor} ELSE mask
    /\ UNCHANGED <<polled, ph, live, started, todo, cursor>>

\* entry_op::poll of the operation behind cursor fills in the mask
Ask(answers) ==
    /\ pat = "ask"
    /\ IF cursor \in answers
       THEN mask' = mask \union {cursor} /\ pat' = "notify" /\ UNCHANGED cursor
       ELSE pat' = "scan" /\ cursor' = NoHandle /\ UNCHANGED mask
    /\ UNCHANGED <<polled, ph, live, started, todo>>

\* Mutant of Notify: the element keeps the poll handle that was destroyed.
NotifyKeepsHandle ==
    /\ pat = "notify"
    /\ live' = live \ {ph[cursor]}
    /\ pat' = "scan"
    /\ cursor' = NoHandle
    /\ UNCHANGED <<polled, ph, mask, started, todo>>

\* fuse_notify_poll, fuse_pollhandle_destroy; both ignore nullptr
Notify ==
    /\ pat = "notify"
    /\ live' = live \ {ph[cursor]}
    /\ ph' = [ph EXCEPT ![cursor] = NoPh]
    /\ pat' = "scan"
    /\ cursor' = NoHandle
    /\ UNCHANGED <<polled, mask, started, todo>>

\* Mutant of Notified: the poll handle is reset before it is used.
NotifiedTooLate == {}

\* the kernel file that fuse_notify_poll wakes
Notified == IF ph[cursor] = NoPh THEN {} ELSE {cursor}

\* the end of the vector: phs_mtx_ is released, the thread sleeps for 100 ms
RoundEnd ==
    /\ pat = "scan"
    /\ todo = {}
    /\ pat' = "sleep"
    /\ UNCHANGED <<polled, ph, mask, live, started, todo, cursor>>
=============================================================================
