----------------------------- MODULE ModuleFiles -----------------------------
(***************************************************************************)
(* The open files of dynamic modules.  An open file keeps the operation    *)
(* that create_op made, whose functions are in the module's library; only  *)
(* the type keeps the library open.  Workers call the operation in open,   *)
(* read, write and release, the polling thread in its rounds, and the end  *)
(* of the core_file_system destroys what is left.                          *)
(*                                                                         *)
(* Programs are careful or not: careful ones load and unload a module only *)
(* while none of its files is open or being opened, open none meanwhile,   *)
(* and close all files before they unmount.                                *)
(*                                                                         *)
(* A round of the polling thread asks one file here (a bound; PolledFiles  *)
(* has whole rounds).  libfuse releases a file after all other requests    *)
(* through it, and releases nothing when it is unmounted.                  *)
(***************************************************************************)
EXTENDS ModuleTypes

CONSTANTS
    Files,       \* bound: the handles of open files at one time
    Gone         \* an operation whose library was closed

ASSUME FilesAssumption == Gone \notin Libraries \union {None} /\ None \notin Files

VARIABLES
    careful,     \* whether programs are
    code,        \* open_handles_: the library that has the functions of the operation
    call,        \* the file whose operation each thread calls
    polling,     \* the polling thread was started, and holds the core_file_system
    polled,      \* the files on its list
    asked        \* the file it is asking, under phs_mtx_

fileVars == <<careful, code, call, polling, polled, asked>>
allVars == <<vars, fileVars>>

FilesInit ==
    /\ Init
    /\ careful \in BOOLEAN
    /\ code = [f \in Files |-> None]
    /\ call = [t \in Threads |-> None]
    /\ polling = FALSE
    /\ polled = {}
    /\ asked = None

-----------------------------------------------------------------------------
IsOpen(f) == code[f] # None
Called(f) == \E t \in Threads : call[t] = f

\* an operation survives a step of the types unless its library is closed by it
Survives(l) == IF l \in Libraries /\ refs'[l] = 0 THEN Gone ELSE l

\* what careful programs look at
InUse(l) ==
    \/ \E f \in Files : code[f] = l
    \/ \E t \in Threads : at[t] = "hook" /\ handle[own[t]] = l
Changing(l) ==
    \E t \in Threads : at[t] \in {"open", "resolve", "init", "fin", "forget"} /\ name[t] = l

Considerate ==
    /\ \A t \in Workers : at[t] = "idle" =>
          /\ at'[t] \in {"open", "fin", "forget"} => ~InUse(name'[t])
          /\ at'[t] = "hook" => ~Changing(handle[own'[t]])
    /\ phase' = "uninstalling" => \A f \in Files : ~IsOpen(f)

\* a step of the types and of the process
TypesStep ==
    /\ Next
    /\ careful => Considerate
    /\ code' = [f \in Files |-> Survives(code[f])]
    /\ UNCHANGED <<careful, call, polling, polled, asked>>

-----------------------------------------------------------------------------
(* open *)

\* create_op returned: the operation is registered, and the temporary shared_ptr of
\* the type goes at the end of the expression
Created(t, f) ==
    /\ at[t] = "hook"
    /\ ~IsOpen(f)
    /\ Assign(db, [own EXCEPT ![t] = None])
    /\ code' = [code EXCEPT ![f] = Survives(handle[own[t]])]
    /\ call' = [call EXCEPT ![t] = f]
    /\ Goto(t, "opening")
    /\ UNCHANGED <<serial, phase, todo, name, peek, careful, polling, polled, asked>>

\* the call of an operation is over, and the request with it
Returns(t) ==
    /\ call' = [call EXCEPT ![t] = None]
    /\ Goto(t, "idle")
    /\ UNCHANGED <<serial, phase, todo, db, alive, handle, refs, inits, own, name, peek>>

OpenReturns(t) ==
    /\ at[t] = "opening"
    /\ Returns(t)
    /\ UNCHANGED <<careful, code, polling, polled, asked>>

\* op->open fails; unregister_op destroys the operation
OpenFails(t) ==
    /\ at[t] = "opening"
    /\ Returns(t)
    /\ code' = [code EXCEPT ![call[t]] = None]
    /\ UNCHANGED <<careful, polling, polled, asked>>

-----------------------------------------------------------------------------
(* read, write, poll and close *)

Begin(t, f, pc) ==
    /\ Ready(t)
    /\ IsOpen(f)
    /\ call' = [call EXCEPT ![t] = f]
    /\ Goto(t, pc)
    /\ UNCHANGED <<serial, phase, todo, db, alive, handle, refs, inits, own, name, peek,
                   careful, code, polling, polled, asked>>

ReadOrWrite(t, f) ==
    /\ \A v \in Threads : call[v] = f => at[v] = "using"
    /\ Begin(t, f, "using")

Used(t) ==
    /\ at[t] = "using"
    /\ Returns(t)
    /\ UNCHANGED <<careful, code, polling, polled, asked>>

\* the poll request: it starts the polling thread and lists the file
Poll(t, f) ==
    /\ Ready(t)
    /\ IsOpen(f)
    /\ \A v \in Threads : call[v] = f => at[v] = "using"
    /\ asked = None
    /\ polling' = TRUE
    /\ polled' = polled \union {f}
    /\ UNCHANGED <<vars, careful, code, call, asked>>

Close(t, f) ==
    /\ ~Called(f)
    /\ Begin(t, f, "closing")

\* Mutant of Closed: unregister is not called.
ClosedStillPolled(t) ==
    /\ at[t] = "closing" /\ t \in Workers
    /\ Returns(t)
    /\ code' = [code EXCEPT ![call[t]] = None]
    /\ UNCHANGED <<careful, polling, polled, asked>>

\* release returned: the file leaves the poller's list, which waits for a round, and
\* the operation is destroyed
Closed(t) ==
    /\ at[t] = "closing" /\ t \in Workers
    /\ asked = None
    /\ Returns(t)
    /\ polled' = polled \ {call[t]}
    /\ code' = [code EXCEPT ![call[t]] = None]
    /\ UNCHANGED <<careful, polling, asked>>

-----------------------------------------------------------------------------
(* the polling thread, until the process exits *)

Ask(f) ==
    /\ polling
    /\ asked = None
    /\ f \in polled
    /\ asked' = f
    /\ UNCHANGED <<vars, careful, code, call, polling, polled>>

Answered ==
    /\ asked # None
    /\ asked' = None
    /\ UNCHANGED <<vars, careful, code, call, polling, polled>>

(* ~core_file_system, unless the polling thread (or an operation) still holds it *)

DestroyOp(f) ==
    /\ phase = "over" /\ at[Main] = "idle"
    /\ ~polling
    /\ IsOpen(f)
    /\ call' = [call EXCEPT ![Main] = f]
    /\ Goto(Main, "closing")
    /\ UNCHANGED <<serial, phase, todo, db, alive, handle, refs, inits, own, name, peek,
                   careful, code, polling, polled, asked>>

OpDestroyed ==
    /\ at[Main] = "closing"
    /\ Returns(Main)
    /\ code' = [code EXCEPT ![call[Main]] = None]
    /\ UNCHANGED <<careful, polling, polled, asked>>

-----------------------------------------------------------------------------
FileStep(t) ==
    \/ OpenReturns(t) \/ OpenFails(t) \/ Used(t) \/ Closed(t)
    \/ \E f \in Files : Created(t, f) \/ ReadOrWrite(t, f) \/ Poll(t, f) \/ Close(t, f)

FilesNext ==
    \/ TypesStep
    \/ \E t \in Workers : FileStep(t)
    \/ Answered \/ OpDestroyed
    \/ \E f \in Files : Ask(f) \/ DestroyOp(f)

FilesSpec == FilesInit /\ [][FilesNext]_allVars

-----------------------------------------------------------------------------
(* Properties *)

FilesTypeOK ==
    /\ TypeOK
    /\ careful \in BOOLEAN
    /\ code \in [Files -> Libraries \union {None, Gone}]
    /\ call \in [Threads -> Files \union {None}]
    /\ polling \in BOOLEAN
    /\ polled \subseteq Files
    /\ asked \in Files \union {None}

\* No function of an operation is called after its library was closed, by workers, by
\* the polling thread or at the end of the process, as long as programs are careful:
\* then the library is kept by the type from before create_op until after the
\* destructor, whatever happens to other modules and to the same one before and
\* after.  Careful or not, the polling thread asks files that are open only.
OperationsMapped ==
    /\ careful =>
          /\ \A t \in Threads : at[t] \in {"opening", "using", "closing"} =>
                Mapped(code[call[t]])
          /\ asked # None => Mapped(code[asked])
    /\ asked # None => IsOpen(asked)
    /\ \A t \in Threads : call[t] # None => IsOpen(call[t])
=============================================================================
