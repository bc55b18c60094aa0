----------------------------- MODULE ModuleTypes -----------------------------
(***************************************************************************)
(* Dynamic modules: the module_ops_type objects, who owns them, and the    *)
(* shared libraries under them, from the start of the process to its end.  *)
(*                                                                         *)
(* A module_ops_type holds the addresses of six functions of a library and *)
(* a dl_loader, whose destructor closes the library.  Objects are owned by *)
(* shared_ptr: one in the registry and one in every thread that got the    *)
(* type from the registry or is installing it.  get_name_by_path calls     *)
(* match_path through the registry without owning anything.                *)
(*                                                                         *)
(* The registry has the dynamic types only; a type's name is that of its   *)
(* library.  libltdl is external: it counts the opens of a library and     *)
(* its own initializations.  libfuse ends its threads before fuse_main     *)
(* returns.                                                                *)
(***************************************************************************)
EXTENDS Integers, Sequences, FiniteSets, Functions, Subsequences

CONSTANTS
    Workers,     \* the threads of libfuse
    Main,        \* the thread that starts and ends the process
    Objects,     \* bound: the module_ops_type objects at one time
    Libraries,   \* the modules that programs name, "mod_dummy" among them
    None         \* no object, no library

ASSUME ModuleAssumption ==
    /\ Main \notin Workers
    /\ None \notin Objects \union Libraries
    /\ "mod_dummy" \in Libraries
    /\ IsFiniteSet(Objects)

VARIABLES
    serial,      \* mounted with -s: one request is served at a time
    phase,       \* of the process: "starting", "mounted", "uninstalling", "over"
    todo,        \* the names that uninstal_all has still to take
    db,          \* ops_types_: the registered objects
    alive,       \* the objects that are constructed and not destroyed
    handle,      \* dl_loader::handle_ of each object: its open library
    refs, inits, \* libltdl: opens of each library, calls of lt_dlinit
    at,          \* where each thread is
    own, name,   \* the object whose shared_ptr it holds, and the name it was given
    peek         \* the object whose match_path it calls

vars == <<serial, phase, todo, db, alive, handle, refs, inits, at, own, name, peek>>

Threads == Workers \union {Main}

Init ==
    /\ serial \in BOOLEAN
    /\ phase = "starting"
    /\ todo = <<>>
    /\ db = <<>>
    /\ alive = {}
    /\ handle = [o \in Objects |-> None]
    /\ refs = [l \in Libraries |-> 0]
    /\ inits = 0
    /\ at = [t \in Threads |-> "idle"]
    /\ own = [t \in Threads |-> None]
    /\ name = [t \in Threads |-> None]
    /\ peek = [t \in Threads |-> None]

-----------------------------------------------------------------------------
(* shared_ptr and dl_loader *)

\* Mutant of Unowned: a thread's shared_ptr does not count.
UnownedByDb(d, owners) == alive \ Range(d)

\* the objects that nobody owns any more
Unowned(d, owners) == alive \ (Range(d) \union Range(owners))

\* Mutant of Destroy: ltdl_close only, no ltdl_exit.
DestroyNoExit(gone) ==
    /\ alive' = alive \ gone
    /\ inits' = inits
    /\ refs' = [l \in Libraries |-> refs[l] - Cardinality({o \in gone : handle[o] = l})]
    /\ handle' = [o \in Objects |-> IF o \in gone THEN None ELSE handle[o]]

\* Mutant of Destroy: ltdl_close twice.
DestroyClosesTwice(gone) ==
    /\ alive' = alive \ gone
    /\ inits' = inits - Cardinality(gone)
    /\ refs' = [l \in Libraries |-> refs[l] - 2 * Cardinality({o \in gone : handle[o] = l})]
    /\ handle' = [o \in Objects |-> IF o \in gone THEN None ELSE handle[o]]

\* ~dl_loader of each: ltdl_close, ltdl_exit; the last lt_dlexit closes everything
Destroy(gone) ==
    /\ alive' = alive \ gone
    /\ inits' = inits - Cardinality(gone)
    /\ refs' = [l \in Libraries |->
          IF inits' = 0 THEN 0
          ELSE refs[l] - Cardinality({o \in gone : handle[o] = l})]
    /\ handle' = [o \in Objects |-> IF o \in gone THEN None ELSE handle[o]]

\* the registry becomes d, the threads own owners, and what nobody owns is destroyed
Assign(d, owners) ==
    /\ db' = d
    /\ own' = owners
    /\ Destroy(Unowned(d, owners))

\* unregister_ops
Without(d, l) == Picked(d, {i \in DOMAIN d : handle[d[i]] # l})

\* get_ops: the first of that name
IsRegistered(l) == \E o \in Range(db) : handle[o] = l
GetOps(l) == db[CHOOSE i \in DOMAIN db :
                   /\ handle[db[i]] = l
                   /\ \A j \in 1 .. i - 1 : handle[db[j]] # l]

Goto(t, pc) == at' = [at EXCEPT ![t] = pc]

\* which thread may begin to serve a request
Ready(t) ==
    /\ at[t] = "idle"
    /\ phase = "mounted" /\ t \in Workers
    /\ serial => \A v \in Workers : at[v] = "idle"

-----------------------------------------------------------------------------
(* install_module *)

\* module_ops_type's constructor: dl_loader()
LoadBegin(t, l) ==
    /\ Ready(t) \/ (t = Main /\ phase = "starting" /\ at[t] = "idle" /\ l = "mod_dummy")
    /\ \E o \in Objects \ alive :
          /\ alive' = alive \union {o}
          /\ own' = [own EXCEPT ![t] = o]
    /\ inits' = inits + 1
    /\ name' = [name EXCEPT ![t] = l]
    /\ Goto(t, "open")
    /\ UNCHANGED <<serial, phase, todo, db, handle, refs, peek>>

\* load_module, lt_dlopenext
LoadOpens(t) ==
    /\ at[t] = "open"
    /\ handle' = [handle EXCEPT ![own[t]] = name[t]]
    /\ refs' = [refs EXCEPT ![name[t]] = @ + 1]
    /\ Goto(t, "resolve")
    /\ UNCHANGED <<serial, phase, todo, db, alive, inits, own, name, peek>>

\* what Main does next, when t is Main and its call returned or threw
MainGoesOn(t, next) ==
    /\ phase' = IF t = Main /\ phase = "starting" THEN next ELSE phase
    /\ UNCHANGED todo

Reply(t) ==
    /\ Goto(t, "idle")
    /\ name' = [name EXCEPT ![t] = None]

\* no such library, or one without the six functions: the constructor throws, and
\* its dl_loader member is destroyed
LoadThrows(t) ==
    /\ at[t] \in {"open", "resolve"}
    /\ Assign(db, [own EXCEPT ![t] = None])
    /\ Reply(t)
    /\ MainGoesOn(t, "failed")
    /\ UNCHANGED <<serial, peek>>

\* load_all_functions succeeds; install_ops: register_ops, then planet_mod_init
Register(t) ==
    /\ at[t] = "resolve"
    /\ db' = Append(db, own[t])
    /\ Goto(t, "init")
    /\ UNCHANGED <<serial, phase, todo, alive, handle, refs, inits, own, name, peek>>

ModInit(t) ==
    /\ at[t] = "init"
    /\ Assign(db, [own EXCEPT ![t] = None])
    /\ Reply(t)
    /\ MainGoesOn(t, "mounted")
    /\ UNCHANGED <<serial, peek>>

\* the finalizer of install_ops unregisters by name
ModInitFails(t) ==
    /\ at[t] = "init"
    /\ Assign(Without(db, name[t]), [own EXCEPT ![t] = None])
    /\ Reply(t)
    /\ MainGoesOn(t, "failed")
    /\ UNCHANGED <<serial, peek>>

-----------------------------------------------------------------------------
(* uninstall_module, and the calls of the other functions *)

UnloadBegin(t, l) ==
    /\ Ready(t)
    /\ IsRegistered(l)
    /\ own' = [own EXCEPT ![t] = GetOps(l)]
    /\ name' = [name EXCEPT ![t] = l]
    /\ Goto(t, "fin")
    /\ UNCHANGED <<serial, phase, todo, db, alive, handle, refs, inits, peek>>

\* no such module: get_ops throws, and the finalizer of uninstall_ops runs all the same
UnloadMissing(t, l) ==
    /\ Ready(t)
    /\ ~IsRegistered(l)
    /\ name' = [name EXCEPT ![t] = l]
    /\ Goto(t, "forget")
    /\ UNCHANGED <<serial, phase, todo, db, alive, handle, refs, inits, own, peek>>

\* planet_mod_fin returns or throws, and the temporary shared_ptr is gone
ModFin(t) ==
    /\ at[t] = "fin"
    /\ Assign(db, [own EXCEPT ![t] = None])
    /\ IF t = Main THEN Reply(t) ELSE Goto(t, "forget") /\ UNCHANGED name
    /\ UNCHANGED <<serial, phase, todo, peek>>

\* the finalizer, by name: it may take what another thread has registered since
Forget(t) ==
    /\ at[t] = "forget"
    /\ Assign(Without(db, name[t]), own)
    /\ Reply(t)
    /\ UNCHANGED <<serial, phase, todo, peek>>

\* mknod, unlink, open and the like: create_op, mknod or rmnod of an entry's type
HookBegin(t, l) ==
    /\ Ready(t)
    /\ IsRegistered(l)
    /\ own' = [own EXCEPT ![t] = GetOps(l)]
    /\ Goto(t, "hook")
    /\ UNCHANGED <<serial, phase, todo, db, alive, handle, refs, inits, name, peek>>

HookEnd(t) ==
    /\ at[t] = "hook"
    /\ Assign(db, [own EXCEPT ![t] = None])
    /\ Reply(t)
    /\ UNCHANGED <<serial, phase, todo, peek>>

\* get_name_by_path asks one of the types
MatchBegin(t, o) ==
    /\ Ready(t)
    /\ o \in Range(db)
    /\ peek' = [peek EXCEPT ![t] = o]
    /\ Goto(t, "match")
    /\ UNCHANGED <<serial, phase, todo, db, alive, handle, refs, inits, own, name>>

MatchEnd(t) ==
    /\ at[t] = "match"
    /\ peek' = [peek EXCEPT ![t] = None]
    /\ Reply(t)
    /\ UNCHANGED <<serial, phase, todo, db, alive, handle, refs, inits, own>>

-----------------------------------------------------------------------------
(* main: start_main returns, or the start failed; then ~filesystem *)

\* uninstal_all takes the names of what is registered
Unmount ==
    /\ phase \in {"mounted", "failed"}
    /\ \A t \in Threads : at[t] = "idle"
    /\ phase' = "uninstalling"
    /\ todo' = [i \in DOMAIN db |-> handle[db[i]]]
    /\ UNCHANGED <<serial, db, alive, handle, refs, inits, at, own, name, peek>>

UninstallNext ==
    /\ phase = "uninstalling"
    /\ at[Main] = "idle"
    /\ todo # <<>>
    /\ todo' = Tail(todo)
    /\ own' = [own EXCEPT ![Main] = GetOps(Head(todo))]
    /\ Goto(Main, "fin")
    /\ UNCHANGED <<serial, phase, db, alive, handle, refs, inits, name, peek>>

\* ops_db_->clear()
ClearDb ==
    /\ phase = "uninstalling"
    /\ at[Main] = "idle"
    /\ todo = <<>>
    /\ phase' = "over"
    /\ Assign(<<>>, own)
    /\ UNCHANGED <<serial, todo, at, name, peek>>

-----------------------------------------------------------------------------
ThreadStep(t) ==
    \/ LoadOpens(t) \/ LoadThrows(t) \/ Register(t) \/ ModInit(t) \/ ModInitFails(t)
    \/ ModFin(t) \/ Forget(t) \/ HookEnd(t) \/ MatchEnd(t)
    \/ \E l \in Libraries :
          \/ LoadBegin(t, l) \/ UnloadBegin(t, l) \/ UnloadMissing(t, l)
          \/ HookBegin(t, l)
    \/ \E o \in Objects : MatchBegin(t, o)

Next ==
    \/ \E t \in Threads : ThreadStep(t)
    \/ Unmount \/ UninstallNext \/ ClearDb

Spec == Init /\ [][Next]_vars

-----------------------------------------------------------------------------
(* Properties *)

TypeOK ==
    /\ serial \in BOOLEAN
    /\ phase \in {"starting", "failed", "mounted", "uninstalling", "over"}
    /\ todo \in Seq(Libraries)
    /\ alive \subseteq Objects
    /\ db \in Seq(alive)
    /\ handle \in [Objects -> Libraries \union {None}]
    /\ refs \in [Libraries -> Nat] /\ inits \in Nat
    /\ at \in [Threads -> {"idle", "open", "resolve", "init", "fin", "forget",
                           "hook", "match", "opening", "using", "closing"}]
    /\ own \in [Threads -> Objects \union {None}]
    /\ name \in [Threads -> Libraries \union {None}]
    /\ peek \in [Threads -> Objects \union {None}]

Mapped(l) == l \in Libraries /\ refs[l] > 0

\* No function of a library is called after the library was closed: the init, fin,
\* create_op, mknod and rmnod hooks run under a shared_ptr of the type, whatever
\* other threads load and unload meanwhile, and so does the unloading of a module
\* by itself.  match_path has no such shared_ptr and is safe with -s only.
CallsMapped ==
    \A t \in Threads :
        /\ at[t] \in {"init", "fin", "hook"} => own[t] \in alive /\ Mapped(handle[own[t]])
        /\ at[t] = "match" /\ serial => peek[t] \in alive /\ Mapped(handle[peek[t]])

\* A library stays in memory only while a type of it is registered or some thread
\* has one, on every path out of a constructor or an installation that fails and
\* for modules that were loaded twice; at the end nothing of libltdl is left.
MappedForAReason ==
    /\ \A l \in Libraries : Mapped(l) =>
          \E o \in Range(db) \union Range(own) : o # None /\ handle[o] = l
    /\ phase = "over" => inits = 0
=============================================================================
