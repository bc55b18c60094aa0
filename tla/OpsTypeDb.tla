----------------------------- MODULE OpsTypeDb -----------------------------
(***************************************************************************)
(* The registry of operation types, planet::ops_type_db                    *)
(* (planet/ops_type_db.cpp), and the match_path of every type that the     *)
(* program installs.  A type is known by its name, shortened here: "clone" *)
(* is planet.net.tcp.clone, "file" is planet.file_ops_type.                *)
(*                                                                         *)
(* A path is the sequence of its names, without the root.  Of a name the   *)
(* model keeps what the types look at: whether it is a number, begins with *)
(* a star or is one of the fixed names.                                    *)
(***************************************************************************)
EXTENDS Subsequences, SequencesExt

CONSTANTS
    Numbers,       \* the names that match \d+
    Starred,       \* the names that begin with '*'
    Loadable,      \* the dynamic modules that can be found
    MaxTypes       \* bound: registrations at one time

StaticTypes ==
    {"file", "dir", "dns_installer", "resolver", "eth_installer", "eth_dir",
     "raw", "tcp_installer", "tcp_dir", "clone", "ctl", "data", "remote",
     "local", "listen", "session_dir", "client", "server", "module_loader"}

Types == StaticTypes \union Loadable \union {"mod_dummy"}

NoType == "no_such_ops_type"

\* a module's type is named after its library
ASSUME ModulesAssumption == Loadable \intersect (StaticTypes \union {NoType}) = {}

high == 3
normal == 2
low == 1
Priorities == {high, normal, low}

VARIABLE db      \* ops_types_, a sequence of (type, priority)

-----------------------------------------------------------------------------
(* match_path *)

InDir(p, d) == Len(p) = 2 /\ p[1] = d

RawPath(p) == InDir(p, "eth") \/ InDir(p, "ip")
ClonePath(p) == p = <<"tcp", "clone">>
SessionFile(p, f) == Len(p) = 3 /\ p[1] = "tcp" /\ p[2] \in Numbers /\ p[3] = f
ClientPath(p) == InDir(p, "tcp") /\ p[2] \notin Starred
ServerPath(p) == InDir(p, "tcp") /\ p[2] \in Starred
ResolverPath(p) == p = <<"dns">>
ModulesPath(p) == p = <<"modules">>

EthDirPath(p) == p \in {<<"eth">>, <<"ip">>}
TcpDirPath(p) == p = <<"tcp">>
SessionDirPath(p) == InDir(p, "tcp") /\ p[2] \in Numbers

MatchesFile(t, p) ==
    \/ t = "file"
    \/ t \in {"resolver", "mod_net_dns"} /\ ResolverPath(p)
    \/ t \in {"raw", "mod_net_eth"} /\ RawPath(p)
    \/ t = "clone" /\ ClonePath(p)
    \/ t \in {"ctl", "data", "remote", "local", "listen"} /\ SessionFile(p, t)
    \/ t = "client" /\ ClientPath(p)
    \/ t = "server" /\ ServerPath(p)
    \/ t = "module_loader" /\ ModulesPath(p)

MatchesDir(t, p) ==
    \/ t = "dir"
    \/ t = "eth_dir" /\ EthDirPath(p)
    \/ t = "tcp_dir" /\ TcpDirPath(p)
    \/ t = "session_dir" /\ SessionDirPath(p)

\* the installers and mod_dummy match nothing
match_path(t, p, kind) ==
    IF kind = "regular_file" THEN MatchesFile(t, p) ELSE MatchesDir(t, p)

-----------------------------------------------------------------------------
(* the registry *)

OfPriority(d, p) == Picked(d, {i \in DOMAIN d : d[i].prio = p})

\* Mutant of Sorted: lower priorities come first.
SortedLowFirst(d) == OfPriority(d, low) \o OfPriority(d, normal) \o OfPriority(d, high)

\* std::stable_sort, higher priorities first
Sorted(d) == OfPriority(d, high) \o OfPriority(d, normal) \o OfPriority(d, low)

\* register_ops
RegisterOps(d, p, t) == Sorted(Append(d, [type |-> t, prio |-> p]))

\* unregister_ops: every registration of that name goes
UnregisterOps(d, t) == Picked(d, {i \in DOMAIN d : d[i].type # t})

\* is_registered, and get_ops does not throw
IsRegistered(d, t) == \E i \in DOMAIN d : d[i].type = t

\* get_name_by_path: the first registration that matches
GetNameByPath(d, p, kind) ==
    LET hits == {i \in DOMAIN d : match_path(d[i].type, p, kind)}
    IN  IF hits = {} THEN NoType
        ELSE d[CHOOSE i \in hits : \A j \in hits : i <= j].type

-----------------------------------------------------------------------------
(* what the installers do *)

\* register_ops of one after the other; they need only be sorted in once
RegisterAll(d, p, ts) ==
    Sorted(d \o [i \in DOMAIN ts |-> [type |-> ts[i], prio |-> p]])

TcpTypes == <<"tcp_dir", "clone", "ctl", "data", "remote", "local", "listen",
              "session_dir", "client", "server">>
EthTypes == <<"eth_dir", "raw">>

ModEthTypes == <<"eth_dir">>

\* fs_ops_type::install, of the types that register others
Install(d, t) ==
    CASE t = "dns_installer" -> RegisterAll(d, normal, <<"resolver">>)
      [] t = "eth_installer" -> RegisterAll(d, normal, EthTypes)
      [] t = "tcp_installer" -> RegisterAll(d, normal, TcpTypes)
      [] t = "mod_net_eth" -> RegisterAll(d, normal, ModEthTypes)
      [] OTHER -> d

\* uninstall_ops of one after the other, up to the first that is missing
UninstallUpToMissing(d, ts) ==
    LET gone == {i \in DOMAIN ts : \A j \in 1 .. i : IsRegistered(d, ts[j])}
    IN  Picked(d, {k \in DOMAIN d : \A i \in gone : d[k].type # ts[i]})

UninstallTcp(d) == UninstallUpToMissing(d, Reverse(TcpTypes))
UninstallEth(d) == UninstallUpToMissing(d, EthTypes)
UninstallDns(d) == UnregisterOps(d, "resolver")
UninstallModEth(d) == UninstallUpToMissing(d, ModEthTypes)

\* fs_ops_type::uninstall, likewise
Uninstall(d, t) ==
    CASE t = "dns_installer" -> UninstallDns(d)
      [] t = "eth_installer" -> UninstallEth(d)
      [] t = "tcp_installer" -> UninstallTcp(d)
      [] t = "mod_net_eth" -> UninstallModEth(d)
      [] OTHER -> d

\* ... which throws when a type it asks for is not there; the TCP installer
\* catches that
UninstallThrows(d, t) ==
    \/ t = "dns_installer" /\ ~IsRegistered(d, "resolver")
    \/ t = "eth_installer" /\ \E i \in DOMAIN EthTypes : ~IsRegistered(d, EthTypes[i])
    \/ t = "mod_net_eth" /\ ~IsRegistered(d, "eth_dir")

\* core_file_system::uninstall_ops: get_ops throws before any hook is run when
\* there is no such type
UninstallOps(d, t) ==
    IF IsRegistered(d, t) THEN UnregisterOps(Uninstall(d, t), t) ELSE d

\* core_file_system::install_ops
InstallOps(d, p, t) == Install(RegisterOps(d, p, t), t)

\* planetfs_install_file_operations, after the two defaults of filesystem()
StartupDb ==
    LET defaults == RegisterAll(<<>>, low, <<"file", "dir">>)
        services == InstallOps(InstallOps(InstallOps(
                       InstallOps(defaults, normal, "mod_dummy"),
                       low, "dns_installer"),
                       low, "eth_installer"),
                       low, "tcp_installer")
    IN  InstallOps(services, normal, "module_loader")
=============================================================================
