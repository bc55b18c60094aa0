------------------------------- MODULE FsCore -------------------------------
(***************************************************************************)
(* The tree of entries, planet::core_file_system (planet/fs_core.cpp), the *)
(* hooks that the operation types run when an entry comes and goes, and    *)
(* the loading and unloading of types through /modules.                    *)
(*                                                                         *)
(* One step is one request from beginning to end.  A file is open through  *)
(* at most one handle of the kernel (a bound); libfuse answers an unlink   *)
(* of an open file by itself, a rmdir it always passes on.  The kernel     *)
(* sends mknod and mkdir only for a name that is not there, below a        *)
(* directory that is.                                                      *)
(***************************************************************************)
EXTENDS OpsTypeDb, Functions, FiniteSets

CONSTANTS
    SessionNames,  \* bound: the names of session directories, "0" first
    Interfaces,    \* what if_nameindex(3) returns
    HostPorts,     \* the names of peers or ports that a socket can be had for
    Workloads      \* what programs do, each workload a record of the paths they make
                   \* with mknod (files) and mkdir (dirs), open (opens) and unlink
                   \* or rmdir (removes), of the modules they load (loads), those
                   \* that cannot be loaded, or not always (fails), and of the
                   \* type names they unload (unloads)

\* A client file's name without a '!' is host and port at once: there is no port
\* clone, and the number n of a session would be port n of 0.0.0.n, which cannot
\* be reached.
ASSUME NamesAssumption ==
    /\ SessionNames \in Seq(Numbers) \ {<<>>}
    /\ Numbers \intersect (Starred \union HostPorts) = {}
    /\ "clone" \notin Numbers \union Starred \union HostPorts

ASSUME WorkloadsAssumption ==
    \A w \in Workloads :
        /\ w.loads \subseteq Loadable
        /\ \A p \in w.files \union w.dirs : p \in Seq(Range(p)) \ {<<>>}

VARIABLES
    tree,          \* the entries: path -> type, which is the entry's ops_name
    socks,         \* the path keys of fdtable: those of client and server files
    open,          \* the paths of the files programs have open
    current,       \* clone_type::current_fd_, an index into SessionNames
    ret,           \* whether the last call failed
    work           \* the workload, chosen once

vars == <<db, tree, socks, open, current, ret, work>>

DirTypes == {"dir", "eth_dir", "tcp_dir", "session_dir"}

IsDir(p) == p = <<>> \/ (p \in DOMAIN tree /\ tree[p] \in DirTypes)
IsFile(p) == p \in DOMAIN tree /\ tree[p] \notin DirTypes
Parent(p) == Front(p)
Without(f, S) == Restrict(f, DOMAIN f \ S)
Under(f, d) == {p \in DOMAIN f : IsPrefix(d, p)}
Below(d) == Under(tree, d)

\* dentry::remove_entry: a directory goes with what is below it
RemoveEntry(f, p) == Without(f, Under(f, p))

clone == <<"tcp", "clone">>
modules == <<"modules">>
SessionDir(n) == <<"tcp", SessionNames[n]>>
Ctl(n) == Append(SessionDir(n), "ctl")

-----------------------------------------------------------------------------
(* mknod and mkdir *)

FileType(p) == GetNameByPath(db, p, "regular_file")
DirType(p) == GetNameByPath(db, p, "directory")

\* what the mknod hook of a directory's type makes in it
EthChildren == Interfaces
TcpChildren == {"clone"}
SessionOrder == <<"data", "ctl", "local", "remote", "listen">>
SessionChildren == Range(SessionOrder)

ChildNames(t) ==
    CASE t = "eth_dir" -> EthChildren
      [] t = "tcp_dir" -> TcpChildren
      [] t = "session_dir" -> SessionChildren
      [] OTHER -> {}

Children(p) == {Append(p, c) : c \in ChildNames(DirType(p))}

\* no type matches, or the hook of the type throws
MknodMustFail(p) ==
    \/ FileType(p) = NoType
    \/ FileType(p) \in {"client", "server"} /\ p[2] \notin HostPorts

MkdirFails(p) == DirType(p) = NoType \/ \E c \in Children(p) : MknodMustFail(c)

WithFile(p) == [q \in DOMAIN tree \union {p} |-> IF q = p THEN FileType(p) ELSE tree[q]]

\* The hook makes them one by one, those of a session in this order, and stops
\* at the first that fails.  (Of the interfaces all can be made, or none.)
AtOrAfter(c, f) ==
    \/ c = f
    \/ \E i, j \in DOMAIN SessionOrder :
           i <= j /\ Last(f) = SessionOrder[i] /\ Last(c) = SessionOrder[j]

ChildrenMade(p) ==
    LET failing == {f \in Children(p) : MknodMustFail(f)}
    IN  {c \in Children(p) : \A f \in failing : ~AtOrAfter(c, f)}

\* the entry of p, and what its hook made
WithDir(p) ==
    LET made == ChildrenMade(p)
    IN  [q \in DOMAIN tree \union made \union {p} |->
            IF q = p THEN DirType(p) ELSE IF q \in made THEN FileType(q) ELSE tree[q]]

\* Mutant of Made: what was made before the hook threw is not removed.
MadeInPart(p) == IF DirType(p) = NoType THEN tree ELSE WithDir(p)

\* core_file_system::mkdir of a missing p: the entry is added and the hook run;
\* when that throws, the entry is removed again
Made(p) ==
    IF DirType(p) = NoType THEN tree
    ELSE IF MkdirFails(p) THEN RemoveEntry(WithDir(p), p) ELSE WithDir(p)

Missing(p) == p \notin DOMAIN tree /\ IsDir(Parent(p))

\* core_file_system::mknod; the hooks of client and server leave a socket
Mknod(p) ==
    /\ Missing(p)
    /\ ~MknodMustFail(p)
    /\ tree' = WithFile(p)
    /\ socks' = IF FileType(p) \in {"client", "server"} THEN socks \union {p} ELSE socks
    /\ ret' = "ok"
    /\ UNCHANGED <<db, open, current>>

\* ... no type is found before anything is added, or the hook throws and the
\* entry that was added is removed again
MknodFails(p) ==
    /\ Missing(p)
    /\ MknodMustFail(p) \/ FileType(p) \in {"client", "server"}
    /\ tree' = IF FileType(p) = NoType THEN tree ELSE RemoveEntry(WithFile(p), p)
    /\ ret' = "error"
    /\ UNCHANGED <<db, socks, open, current>>

Mkdir(p) ==
    /\ Missing(p)
    /\ tree' = Made(p)
    /\ ret' = IF MkdirFails(p) THEN "error" ELSE "ok"
    /\ UNCHANGED <<db, socks, open, current>>

-----------------------------------------------------------------------------
(* unlink and rmdir *)

\* the types whose rmnod hook refuses
Refusing == {"clone", "ctl", "data", "raw", "mod_net_eth", "tcp_dir", "eth_dir"}

\* a type that is not registered any more is not asked
Refuses(p) == IsRegistered(db, tree[p]) /\ tree[p] \in Refusing

\* Mutant of RmnodSocks: the hook does not close the socket.
RmnodSocksKept(p) == socks

\* the rmnod hook of client and server closes the socket
RmnodSocks(p) ==
    IF IsRegistered(db, tree[p]) /\ tree[p] \in {"client", "server"}
    THEN socks \ {p} ELSE socks

\* Mutant of Unlink: the answer of the rmnod hook is ignored.
UnlinkForced(p) ==
    /\ IsFile(p) /\ p \notin open
    /\ tree' = Without(tree, {p})
    /\ socks' = RmnodSocks(p)
    /\ ret' = "ok"
    /\ UNCHANGED <<db, open, current>>

\* core_file_system::unlink
Unlink(p) ==
    /\ IsFile(p) /\ p \notin open
    /\ IF Refuses(p)
       THEN ret' = "error" /\ UNCHANGED <<tree, socks>>
       ELSE ret' = "ok" /\ tree' = Without(tree, {p}) /\ socks' = RmnodSocks(p)
    /\ UNCHANGED <<db, open, current>>

\* Mutant of Rmdir: what is below stays.
RmdirLeavesBelow(p) ==
    /\ p \in DOMAIN tree /\ IsDir(p)
    /\ ~Refuses(p)
    /\ ret' = "ok"
    /\ tree' = Without(tree, {p})
    /\ UNCHANGED <<db, socks, open, current>>

\* core_file_system::rmdir: whatever is below goes too, without being asked;
\* libfuse answers for the handles below by itself from now on
Rmdir(p) ==
    /\ p \in DOMAIN tree /\ IsDir(p)
    /\ IF Refuses(p)
       THEN ret' = "error" /\ UNCHANGED <<tree, open>>
       ELSE /\ ret' = "ok"
            /\ tree' = RemoveEntry(tree, p)
            /\ open' = {q \in open : ~IsPrefix(p, q)}
    /\ UNCHANGED <<db, socks, current>>

-----------------------------------------------------------------------------
(* open and close *)

Openable(p) == IsFile(p) /\ p \notin open

\* the types whose open hook may fail: a socket is needed, or had
Devices == {"raw", "mod_net_eth", "client", "server", "data", "local", "remote"}

\* core_file_system::open; the hooks of these types leave the tree alone
Open(p) ==
    /\ Openable(p)
    /\ tree[p] # "clone"
    /\ IsRegistered(db, tree[p])
    /\ ret' = "ok"
    /\ open' = open \union {p}
    /\ UNCHANGED <<db, tree, socks, current>>

OpenFails(p) ==
    /\ Openable(p)
    /\ IsRegistered(db, tree[p]) => tree[p] \in Devices
    /\ ret' = "error"
    /\ UNCHANGED <<db, tree, socks, open, current>>

\* clone_op::open confirms the directory of session n ...
Confirmed(n) ==
    IF SessionDir(n) \in DOMAIN tree THEN tree ELSE Made(SessionDir(n))

\* ... and opens its ctl
CtlOpens(n) ==
    /\ Ctl(n) \in DOMAIN Confirmed(n)
    /\ IsRegistered(db, Confirmed(n)[Ctl(n)])

\* clone_type::create_op opens the ctl of the current session, if there is
\* one, and goes on to session n when that has a connected or listening
\* socket, which is the sessions' business; then clone_op::open
CloneTurnsTo(n) ==
    /\ clone \in DOMAIN tree
    /\ tree[clone] = "clone"
    /\ IsRegistered(db, "clone")
    /\ IF Ctl(current) \in DOMAIN tree
       THEN CtlOpens(current) /\ n \in {current, current + 1}
       ELSE n = current
    /\ current' = n
    /\ tree' = Confirmed(n)
    /\ UNCHANGED <<db, socks>>

\* a failure at the end leaves the counter and the directory behind
OpenClone(n) ==
    /\ clone \notin open
    /\ CloneTurnsTo(n)
    /\ ret' = IF CtlOpens(n) THEN "ok" ELSE "error"
    /\ open' = IF CtlOpens(n) THEN open \union {clone} ELSE open

\* create_op finds a ctl without a type
CloneStuck ==
    /\ Openable(clone)
    /\ tree[clone] = "clone"
    /\ IsRegistered(db, "clone")
    /\ Ctl(current) \in DOMAIN tree
    /\ ~CtlOpens(current)
    /\ ret' = "error"
    /\ UNCHANGED <<db, tree, socks, open, current>>

\* listen_op::read: a connection is accepted, open_new_session opens clone
\* and closes it again
Accept(p, n) ==
    /\ p \in open \intersect DOMAIN tree
    /\ tree[p] = "listen"
    /\ CloneTurnsTo(n)
    /\ ret' = IF CtlOpens(n) THEN "ok" ELSE "error"
    /\ UNCHANGED open

Close(p) ==
    /\ p \in open
    /\ open' = open \ {p}
    /\ ret' = "ok"
    /\ UNCHANGED <<db, tree, socks, current>>

-----------------------------------------------------------------------------
(* module_loader_op::write, through a handle on /modules; a request that   *)
(* names several modules is that many steps                                *)

\* Mutant of Load: modules are loaded as the least specific types.
LoadLow(m) ==
    /\ modules \in open
    /\ Len(InstallOps(db, low, m)) <= MaxTypes
    /\ db' = InstallOps(db, low, m)
    /\ ret' = "ok"
    /\ UNCHANGED <<tree, socks, open, current>>

\* "load": install_module
Load(m) ==
    /\ modules \in open
    /\ Len(InstallOps(db, normal, m)) <= MaxTypes
    /\ db' = InstallOps(db, normal, m)
    /\ ret' = "ok"
    /\ UNCHANGED <<tree, socks, open, current>>

\* the module is not found, or its planet_mod_init refuses and install_ops
\* unregisters by name, which an earlier load of the same module has too
LoadFails(m) ==
    /\ modules \in open
    /\ db' \in {db, UnregisterOps(db, m)}
    /\ ret' = "error"
    /\ UNCHANGED <<tree, socks, open, current>>

\* "unload": the uninstall hook, then unregister_ops whatever came of it; that
\* of module_loader unlinks its file
Unload(n) ==
    /\ modules \in open
    /\ db' = UninstallOps(db, n)
    /\ LET unlinks == n = "module_loader" /\ IsRegistered(db, n)
       IN  /\ tree' = IF unlinks THEN Without(tree, {modules}) ELSE tree
           /\ ret' = IF \/ ~IsRegistered(db, n)
                        \/ UninstallThrows(db, n)
                        \/ unlinks /\ modules \notin DOMAIN tree
                     THEN "error" ELSE "ok"
    /\ UNCHANGED <<socks, open, current>>

-----------------------------------------------------------------------------
\* planetfs_create_initial_fs_structure makes these, and the hooks the others
InitDirs == {<<"ip">>, <<"tcp">>, <<"eth">>}
InitFiles == {modules, <<"dns">>} \union UNION {Children(d) : d \in InitDirs}

\* planetfs_install_file_operations, planetfs_create_initial_fs_structure
Init ==
    /\ db = StartupDb
    /\ tree = [p \in InitDirs \union InitFiles |->
                  IF p \in InitDirs THEN DirType(p) ELSE FileType(p)]
    /\ socks = {}
    /\ open = {}
    /\ current = 1
    /\ ret = "ok"
    /\ work \in Workloads

Request ==
    \/ \E p \in work.files : Mknod(p) \/ MknodFails(p)
    \/ \E p \in work.dirs : Mkdir(p)
    \/ \E p \in work.removes : Unlink(p) \/ Rmdir(p)
    \/ \E p \in work.opens : Open(p) \/ OpenFails(p)
    \/ clone \in work.opens /\ (CloneStuck \/ \E n \in DOMAIN SessionNames : OpenClone(n))
    \/ \E p \in open, n \in DOMAIN SessionNames : Accept(p, n)
    \/ \E p \in open : Close(p)
    \/ \E m \in work.loads : Load(m)
    \/ \E m \in work.fails : LoadFails(m)
    \/ \E n \in work.unloads : Unload(n)

Next == Request /\ UNCHANGED work

Spec == Init /\ [][Next]_vars

-----------------------------------------------------------------------------
(* Properties *)

PathsOf(f) == {p \in DOMAIN f : f[p] \in {"client", "server"}}

\* The registry holds registrations, every entry is below directories, and
\* the other variables are about paths and sessions.
TypeOK ==
    /\ \A i \in DOMAIN db : db[i].type \in Types /\ db[i].prio \in Priorities
    /\ \A p \in DOMAIN tree : tree[p] \in Types /\ IsDir(Parent(p))
    /\ \A p \in socks \union open : Len(p) > 0
    /\ current \in DOMAIN SessionNames
    /\ ret \in {"ok", "error"}

Registered(S) == \A t \in S : IsRegistered(db, t)

\* What programs rely on to get a connection at all: as long as the TCP
\* types are registered, whatever else was made, removed, loaded or
\* unloaded, /tcp/clone is there, opening it gets a ctl, and every session
\* directory has its ctl and its data.  (The type of client files is one of
\* them: without it mknod makes a plain file of a session's name.)
TcpServed ==
    Registered({"tcp_dir", "clone", "ctl", "data", "session_dir", "client", "file"}) =>
        /\ clone \in DOMAIN tree /\ tree[clone] = "clone"
        /\ CtlOpens(current)
        /\ \A d \in DOMAIN tree : tree[d] = "session_dir" =>
               \A f \in {"ctl", "data"} :
                   Append(d, f) \in DOMAIN tree /\ tree[Append(d, f)] = f

\* The sockets of client and server files are closed with their entries, by
\* unlink and by the clean-up of a failed mknod: fdtable has the path of an
\* entry exactly while the entry exists, unless the types that look after
\* them were unloaded.
SocketsMatchEntries ==
    Registered({"tcp_dir", "client", "server"}) => socks = PathsOf(tree)

OnlyDefaultMatches(p, default, kind) ==
    \A i \in DOMAIN db : db[i].type # default => ~match_path(db[i].type, p, kind)

\* The default operations are used "if no other operations match the target
\* path" (basic_operation.hpp): no entry is made a plain file or directory
\* while another registered type matches its path, in whatever order the
\* types were loaded.
DefaultsComeLast ==
    [][\A p \in DOMAIN tree' \ DOMAIN tree :
          /\ tree'[p] = "file" => OnlyDefaultMatches(p, "file", "regular_file")
          /\ tree'[p] = "dir" => OnlyDefaultMatches(p, "dir", "directory")]_vars

\* What makes or removes entries does all of it or nothing: a directory comes
\* with everything its type puts in it, also when clone makes it, and after a
\* call that fails, also half-way through a hook, the entries and sockets are
\* those from before.  Only an open of clone that fails after it confirmed its
\* session leaves something: the whole directory of that session.
AllOrNothing ==
    [][/\ \A d \in DOMAIN tree' \ DOMAIN tree :
              tree'[d] \in DirTypes => Children(d) \subseteq DOMAIN tree'
       /\ ret' = "error" =>
              /\ \A p \in DOMAIN tree :
                     p \in DOMAIN tree' /\ tree'[p] = tree[p]
              /\ UNCHANGED socks
              /\ \/ DOMAIN tree' = DOMAIN tree
                 \/ \E n \in DOMAIN SessionNames :
                        DOMAIN tree' \ DOMAIN tree = Under(tree', SessionDir(n))]_vars
=============================================================================
