----------------------------- MODULE PolledFiles -----------------------------
(***************************************************************************)
(* Open files and those who poll them: core_file_system::open, read,       *)
(* write, close and poll (planet/fs_core.cpp) as the FUSE worker threads   *)
(* run them, over the handle table and beside the polling thread.          *)
(*                                                                         *)
(* The kernel's side is modelled from what the callbacks rely on: it sends *)
(* the release of a file after every other request on it was answered and  *)
(* nobody sleeps in poll(2) on it; a poll request carries a poll handle    *)
(* when somebody waits; fuse_notify_poll wakes every sleeper of the file,  *)
(* and one that is notified before it falls asleep does not sleep.         *)
(*                                                                         *)
(* Which operation a file has matters here in one way only: Pollable are   *)
(* the handles whose operation overrides entry_op::poll (data, client and  *)
(* raw files); the others answer -EPERM and leave the mask at zero.        *)
(***************************************************************************)
EXTENDS FusePoller

CONSTANTS
    Pollable,
    Serial    \* mounted with -s: libfuse serves one request at a time

ASSUME PollableAssumption == Pollable \subseteq Handle /\ Serial \in BOOLEAN

VARIABLES
    at,       \* where each worker is in the request it serves
    file,     \* the handle that request is about
    newph,    \* the poll handle a poll request brought
    woken,    \* workers whose caller was notified since its poll began
    opened,   \* the handles of the files open in the kernel
    ready     \* the handles whose device has input

requestVars == <<at, file, newph, woken, opened, ready>>
vars == <<handleVars, pollerVars, requestVars>>

Init ==
    /\ HandleManagerInit
    /\ PollerInit
    /\ at = [w \in Threads |-> "idle"]
    /\ file = [w \in Threads |-> NoHandle]
    /\ newph = [w \in Threads |-> NoPh]
    /\ woken = {}
    /\ opened = {}
    /\ ready = {}

\* worker w goes on to step pc of the request it serves
Goto(w, pc) == at' = [at EXCEPT ![w] = pc]

\* worker w answers; the next request may be about another file
Reply(w) ==
    /\ at' = [at EXCEPT ![w] = "idle"]
    /\ file' = [file EXCEPT ![w] = NoHandle]
    /\ newph' = [newph EXCEPT ![w] = NoPh]
    /\ woken' = woken \ {w}

\* libfuse has a thread for a new request of w
Available(w) == Serial => \A v \in Threads \ {w} : at[v] \in {"idle", "asleep"}

Serve(w, h, pc) ==
    /\ at[w] = "idle"
    /\ Available(w)
    /\ Goto(w, pc)
    /\ file' = [file EXCEPT ![w] = h]

Serving(h) == {w \in Threads : file[w] = h}

-----------------------------------------------------------------------------
(* open *)

\* the path names a regular file with a registered type: create_op, then
\* register_op waits for mtx_
OpenBegin(w) ==
    /\ ops # Handle
    /\ at[w] = "idle"
    /\ Available(w)
    /\ Goto(w, "open_register")
    /\ Acquire(w)
    /\ UNCHANGED <<pollerVars, file, newph, woken, opened, ready>>

OpenRegister(w) ==
    /\ at[w] = "open_register"
    /\ \E h \in Handle :
          /\ RegisterOp(w, h)
          /\ file' = [file EXCEPT ![w] = h]
    /\ Goto(w, "open_lookup")
    /\ UNCHANGED <<pollerVars, newph, woken, opened, ready>>

OpenLookup(w) ==
    /\ at[w] = "open_lookup"
    /\ \/ LookupFinds(file[w]) /\ Goto(w, "open_hook")
       \/ LookupThrows(w, file[w]) /\ Goto(w, "open_undo")
    /\ UNCHANGED <<handleVars, pollerVars, file, newph, woken, opened, ready>>

\* entry_op::open succeeds: the handle goes to the kernel with the reply ...
OpenSucceeds(w) ==
    /\ at[w] = "open_hook"
    /\ opened' = opened \union {file[w]}
    /\ Reply(w)
    /\ UNCHANGED <<handleVars, pollerVars, ready>>

\* Mutant of OpenFails: the table entry is not undone.
OpenFailsKeepsEntry(w) ==
    /\ at[w] = "open_hook"
    /\ Reply(w)
    /\ UNCHANGED <<handleVars, pollerVars, opened, ready>>

\* ... or it returns a negative value or throws
OpenFails(w) ==
    /\ at[w] = "open_hook"
    /\ Goto(w, "open_undo")
    /\ UNCHANGED <<handleVars, pollerVars, file, newph, woken, opened, ready>>

\* unregister_op, of a failed open or at the end of close: wait for mtx_ ...
EraseBegin(w) ==
    /\ at[w] \in {"open_undo", "close_forget"}
    /\ Acquire(w)
    /\ Goto(w, "erase")
    /\ UNCHANGED <<pollerVars, file, newph, woken, opened, ready>>

\* ... and erase
EraseEnd(w) ==
    /\ at[w] = "erase"
    /\ UnregisterOp(w, file[w])
    /\ Reply(w)
    /\ UNCHANGED <<pollerVars, opened, ready>>

-----------------------------------------------------------------------------
(* read and write *)

AccessBegin(w, h) ==
    /\ h \in opened
    /\ LookupFinds(h)
    /\ Serve(w, h, "access")
    /\ UNCHANGED <<handleVars, pollerVars, newph, woken, opened, ready>>

\* the operation blocks until its device has input, and may take all of it
AccessEnd(w) ==
    /\ at[w] = "access"
    /\ \/ file[w] \in ready /\ ready' \in {ready, ready \ {file[w]}}
       \/ file[w] \notin Pollable /\ UNCHANGED ready
    /\ Reply(w)
    /\ UNCHANGED <<handleVars, pollerVars, opened>>

-----------------------------------------------------------------------------
(* close *)

\* release comes last: no request on the file is left and nobody waits on it
CloseBegin(w, h) ==
    /\ h \in opened
    /\ Serving(h) = {}
    /\ LookupFinds(h)
    /\ Serve(w, h, "close_release")
    /\ opened' = opened \ {h}
    /\ UNCHANGED <<handleVars, pollerVars, newph, woken, ready>>

\* get_op_entry throws before the raii_wrapper exists: nothing is undone
CloseThrows(w, h) ==
    /\ at[w] = "idle"
    /\ Available(w)
    /\ h \in opened
    /\ Serving(h) = {}
    /\ LookupThrows(w, h)
    /\ opened' = opened \ {h}
    /\ UNCHANGED <<handleVars, pollerVars, at, file, newph, woken, ready>>

\* entry_op::release closes the device; the finalizers run whatever it returns
CloseRelease(w) ==
    /\ at[w] = "close_release"
    /\ ready' = ready \ {file[w]}
    /\ Goto(w, "close_unpoll")
    /\ UNCHANGED <<handleVars, pollerVars, file, newph, woken, opened>>

CloseUnpoll(w) ==
    /\ at[w] = "close_unpoll"
    /\ Unregister(file[w])
    /\ Goto(w, "close_forget")
    /\ UNCHANGED <<handleVars, file, newph, woken, opened, ready>>

-----------------------------------------------------------------------------
(* poll *)

\* what libfuse may allocate: nothing that phs_ or a request has
Fresh == PollHandles \ ({ph[h] : h \in Handle} \union {newph[w] : w \in Threads})

\* somebody is going to wait: the request brings a poll handle
PollBegin(w, h, p) ==
    /\ h \in opened
    /\ p \in Fresh
    /\ Serve(w, h, "poll_register")
    /\ newph' = [newph EXCEPT ![w] = p]
    /\ live' = live \union {p}
    /\ started' = TRUE
    /\ UNCHANGED <<handleVars, polled, ph, mask, pat, todo, cursor,
                   woken, opened, ready>>

\* nobody waits (a zero timeout): ph is null, the status is all that is asked
PollOnce(w, h) ==
    /\ h \in opened
    /\ Unlocked
    /\ at[w] = "idle"
    /\ Available(w)
    /\ started' = TRUE
    /\ UNCHANGED <<handleVars, polled, ph, mask, live, pat, todo, cursor,
                   requestVars>>

PollRegister(w) ==
    /\ at[w] = "poll_register"
    /\ RegisterNew(file[w], newph[w])
    /\ newph' = [newph EXCEPT ![w] = NoPh]
    /\ Goto(w, "poll_status")
    /\ UNCHANGED <<handleVars, file, woken, opened, ready>>

\* a nonzero status ends the wait, a zero one lets the caller fall asleep
PollStatus(w) ==
    /\ at[w] = "poll_status"
    /\ Unlocked
    /\ IF Status(file[w])
       THEN Reply(w)
       ELSE Goto(w, "asleep") /\ UNCHANGED <<file, newph, woken>>
    /\ UNCHANGED <<handleVars, pollerVars, opened, ready>>

\* a notified caller asks again, with a new poll handle
PollAgain(w, p) ==
    /\ at[w] = "asleep"
    /\ w \in woken
    /\ Available(w)
    /\ p \in Fresh
    /\ Goto(w, "poll_register")
    /\ newph' = [newph EXCEPT ![w] = p]
    /\ live' = live \union {p}
    /\ woken' = woken \ {w}
    /\ UNCHANGED <<handleVars, polled, ph, mask, started, pat, todo, cursor,
                   file, opened, ready>>

\* the caller's timeout, or a signal
PollGivesUp(w) ==
    /\ at[w] = "asleep"
    /\ Reply(w)
    /\ UNCHANGED <<handleVars, pollerVars, opened, ready>>

-----------------------------------------------------------------------------
(* the polling thread, and the devices *)

RoundStep ==
    /\ \/ RoundBegin
       \/ \E h \in Handle : Visit(h) \/ VisitThrows(h)
       \/ Ask(ready \intersect Pollable)
       \/ RoundEnd
    /\ UNCHANGED <<handleVars, requestVars>>

PollerWakes ==
    /\ Notify
    /\ woken' = woken \union
         {w \in Threads : file[w] \in Notified
                          /\ at[w] \in {"poll_register", "poll_status", "asleep"}}
    /\ UNCHANGED <<handleVars, at, file, newph, opened, ready>>

InputArrives(h) ==
    /\ h \in (opened \intersect Pollable) \ ready
    /\ ready' = ready \union {h}
    /\ UNCHANGED <<handleVars, pollerVars, at, file, newph, woken, opened>>

PollerStep == RoundStep \/ PollerWakes

\* what a worker does without being asked for anything new
WorkerStep(w) ==
    \/ OpenRegister(w) \/ OpenLookup(w) \/ OpenSucceeds(w) \/ OpenFails(w)
    \/ EraseBegin(w) \/ EraseEnd(w)
    \/ AccessEnd(w)
    \/ CloseRelease(w) \/ CloseUnpoll(w)
    \/ PollRegister(w) \/ PollStatus(w)
    \/ \E p \in PollHandles : PollAgain(w, p)

\* what the programs that use the file system do
CallerStep(w) ==
    \/ OpenBegin(w)
    \/ PollGivesUp(w)
    \/ \E h \in Handle :
          \/ AccessBegin(w, h) \/ CloseBegin(w, h) \/ CloseThrows(w, h)
          \/ PollOnce(w, h)
          \/ \E p \in PollHandles : PollBegin(w, h, p)

Next ==
    \/ PollerStep
    \/ \E w \in Threads : WorkerStep(w) \/ CallerStep(w)
    \/ \E h \in Handle : InputArrives(h)

Spec == Init /\ [][Next]_vars

(***************************************************************************)
(* Fairness.  The polling thread and the workers are threads that run      *)
(* whenever they can.  A mutex is not a queue, hence SF for a worker that  *)
(* waits for phs_mtx_, which is free for 100 ms after each round.  A       *)
(* worker inside mtx_, and a caller that was notified, go on.  Programs    *)
(* need not call anything, a read may block for ever, an open may be slow  *)
(* and nobody is sure to get mtx_: those steps have none.                  *)
(***************************************************************************)
Fairness ==
    /\ WF_vars(PollerStep)
    /\ \A w \in Threads :
          /\ SF_vars(PollRegister(w) \/ PollStatus(w))
          /\ WF_vars(\/ OpenRegister(w) \/ EraseEnd(w)
                     \/ \E p \in PollHandles : PollAgain(w, p))

FairSpec == Spec /\ Fairness

-----------------------------------------------------------------------------
(* Properties *)

TypeOK ==
    /\ ops \subseteq Handle
    /\ mtx \in Threads \union {NoThread}
    /\ polled \subseteq Handle
    /\ ph \in [Handle -> PollHandles \union {NoPh}]
    /\ mask \subseteq Handle
    /\ live \subseteq PollHandles
    /\ started \in BOOLEAN
    /\ pat \in {"sleep", "scan", "ask", "notify"}
    /\ todo \subseteq Handle
    /\ cursor \in Handle \union {NoHandle}
    /\ at \in [Threads ->
          {"idle", "open_register", "open_lookup", "open_hook", "open_undo",
           "erase", "access", "close_release", "close_unpoll", "close_forget",
           "poll_register", "poll_status", "asleep"}]
    /\ file \in [Threads -> Handle \union {NoHandle}]
    /\ newph \in [Threads -> PollHandles \union {NoPh}]
    /\ woken \subseteq Threads
    /\ opened \subseteq Handle
    /\ ready \subseteq Handle

(* No operation is used after its table entry was erased.  get_op_entry    *)
(* returns a reference into the table, and the entry holds what may be the *)
(* last shared_ptr to the operation: the polling thread (poll) and the     *)
(* workers (open, read, write, release) call through it.  It is the order  *)
(* of the two finalizers in close that keeps the polling thread safe.      *)
NoDanglingOp ==
    /\ pat = "ask" => cursor \in ops
    /\ \A w \in Threads :
          at[w] \in {"open_hook", "access", "close_release"} => file[w] \in ops

(* No poll handle is used after it was destroyed, or destroyed twice: what *)
(* phs_ and the poll requests in progress hold is allocated, and no two of *)
(* them hold the same one (register_new and poll_handles both destroy).    *)
PollHandlesOwned ==
    /\ \A h \in Handle : ph[h] # NoPh => ph[h] \in live
    /\ \A w \in Threads : newph[w] # NoPh => newph[w] \in live
    /\ \A h, g \in Handle : ph[h] = ph[g] /\ ph[h] # NoPh => h = g
    /\ \A w, v \in Threads : newph[w] = newph[v] /\ newph[w] # NoPh => w = v
    /\ \A h \in Handle, w \in Threads : ph[h] = newph[w] => ph[h] = NoPh

(* Whoever sleeps in poll(2) has a notification to come: it was notified,  *)
(* or its file is on the polling thread's list with a poll handle, however *)
(* rounds, re-registrations by other callers and closes interleave.        *)
NoLostWaiter ==
    \A w \in Threads :
       at[w] = "asleep" /\ w \notin woken =>
          file[w] \in polled /\ ph[file[w]] # NoPh

(* The inductive invariant behind these three, in named parts.             *)

\* a request past register_op has an entry; mtx_ is held in two steps only
RequestsHaveEntries ==
    /\ \A w \in Threads :
          /\ at[w] \in {"idle", "open_register"} <=> file[w] = NoHandle
          /\ file[w] # NoHandle => file[w] \in ops
          /\ mtx = w <=> at[w] \in {"open_register", "erase"}
    /\ opened \subseteq ops
    /\ polled \subseteq ops

\* an open or a close in progress has its handle for itself, the others
\* work on open files
CloseComesLast ==
    \A w \in Threads :
       /\ at[w] \in {"access", "poll_register", "poll_status", "asleep"} =>
             file[w] \in opened
       /\ at[w] \in {"open_lookup", "open_hook", "open_undo", "erase",
                     "close_release", "close_unpoll", "close_forget"} =>
             /\ file[w] \notin opened
             /\ \A v \in Threads \ {w} : file[v] # file[w]
       /\ at[w] \in {"open_lookup", "open_hook", "open_undo", "erase",
                     "close_forget"} => file[w] \notin polled

\* what a round visits stays on the list until phs_mtx_ is released
CursorIsPolled ==
    /\ pat \in {"ask", "notify"} => cursor \in polled
    /\ pat # "sleep" => todo \subseteq polled

\* poll handles are where they belong
PollHandlesPlaced ==
    /\ \A h \in Handle : ph[h] # NoPh => h \in polled
    /\ \A w \in Threads : newph[w] # NoPh <=> at[w] = "poll_register"
    /\ \A w \in woken : at[w] \in {"poll_register", "poll_status", "asleep"}

\* NoLostWaiter, from the registration on
WaitersArmed ==
    \A w \in Threads :
       at[w] \in {"poll_status", "asleep"} /\ w \notin woken =>
          file[w] \in polled /\ ph[file[w]] # NoPh

IndInv ==
    /\ TypeOK
    /\ RequestsHaveEntries
    /\ CloseComesLast
    /\ CursorIsPolled
    /\ PollHandlesPlaced
    /\ PollHandlesOwned
    /\ WaitersArmed

(* An entry that no open file and no request has any more stays registered *)
(* for ever.  It is left behind only by a close whose unlocked lookup runs *)
(* into an insertion or an erasure of another worker, and throws before    *)
(* its finalizers are set up; never by a failed open, nor by a close that  *)
(* runs while the poller is in a round.                                    *)
Owned(h) == h \in opened \/ Serving(h) # {}

NoLeakedEntry ==
    [][\A h \in ops : Owned(h) /\ h \in ops' /\ ~Owned(h)' => mtx # NoThread]_vars

Polling(w, h) ==
    file[w] = h /\ at[w] \in {"poll_register", "poll_status", "asleep"}

(* The file system keeps the promise PollContract states of poll(2): no    *)
(* wake-up without a sighting of input, none that leaves a sleeper behind, *)
(* no file closed under a caller.                                          *)
Contract == INSTANCE PollContract WITH
    Callers <- Threads,
    Files <- Handle,
    NoFile <- NoHandle,
    open <- opened,
    input <- ready,
    asks <- [w \in Threads |->
               IF at[w] \in {"poll_register", "poll_status", "asleep"}
               THEN file[w] ELSE NoHandle],
    sleeping <- {w \in Threads : at[w] = "asleep"},
    due <- woken,
    seen <- IF pat = "notify" THEN {cursor} ELSE {}

KeepsContract == Contract!Spec

(* Nobody waits for ever in poll(2) on a file that stays ready, unless      *)
(* rounds are cut short for ever.  After an exception the polling thread   *)
(* starts afresh with its first element, and opens and closes may make the *)
(* unlocked lookup of every round throw before it reaches the file.        *)
RoundsGetThrough == <>[][\A h \in Handle : ~VisitThrows(h)]_vars

ReadyEndsWait ==
    RoundsGetThrough =>
        \A w \in Threads : \A h \in Pollable : []<>~(Polling(w, h) /\ h \in ready)
=============================================================================
