----------------------------- MODULE DeviceFiles -----------------------------
(***************************************************************************)
(* The files that are sockets: /tcp/host!port, whose mknod connects        *)
(* (client), /tcp/*!port, whose mknod listens and whose open accepts       *)
(* (server), and the interfaces below /eth and /ip, whose open makes a     *)
(* packet socket (raw).  Who has which descriptor, and what is left behind *)
(* when one of the calls fails.                                            *)
(*                                                                         *)
(* A handler is cut where it waits (connect, accept, the lock of a path)   *)
(* and where it gives a descriptor up before it forgets it.                *)
(*                                                                         *)
(* External: the kernel makes and removes one name of a directory at a     *)
(* time, and looks none up meanwhile that it does not know; libfuse lets   *)
(* an unlink wait for the opens of that file, lets later opens wait for    *)
(* the unlink, and refuses to unlink a file that is open.                  *)
(* Every program has one file open (a bound).  Session sockets are in      *)
(* TcpSessions; the two share the numbers only.                            *)
(***************************************************************************)
EXTENDS Naturals, FiniteSets, Functions, FiniteSetsExt, TLC

CONSTANTS
    Programs,      \* the callers, each with one request at a time
    Clients,       \* the paths of client,
    Servers,       \* server
    Packets,       \* and packet files
    MaxAddresses,  \* bound: the addresses getaddrinfo finds for a host
    MaxFd,         \* bound: the descriptors of the process
    MaxPending,    \* bound: listen(2)'s queue
    None           \* no path, no descriptor, no file

ASSUME DeviceAssumption ==
    /\ MaxAddresses \in Nat \ {0} /\ MaxFd \in Nat /\ MaxPending \in Nat
    /\ Clients \intersect Servers = {}
    /\ (Clients \union Servers) \intersect Packets = {}
    /\ None \notin Nat /\ None \notin Clients \union Servers \union Packets
    /\ None \notin [path : Clients \union Servers \union Packets, fd : 1 .. MaxFd]

Fd == 1 .. MaxFd
Paths == Clients \union Servers

VARIABLES
    entries,       \* the client and server files that exist
    table,         \* fdtable, its path keys: path -> descriptor
    os,            \* descriptor -> Free, or whom the socket was made for and what it is
    pending,       \* connections of peers that nobody accepted yet
    at, path,      \* where the handler of each program is, and its path argument
    fd, tries,     \* the descriptor it has made or works with, and the addresses left
    file,          \* the open file of each program: its path and its operation's fd_
    lost           \* descriptors that are open and that nobody knows any more

vars == <<entries, table, os, pending, at, path, fd, tries, file, lost>>

Steps == {"idle", "socket", "connecting", "insert", "accepting", "unlinking", "erasing"}
Uses == {"new", "connected", "listening", "accepted", "packet"}

Free == [of |-> None, as |-> "free"]
Socket(p, use) == [of |-> p, as |-> use]

Init ==
    /\ entries = {}
    /\ table = <<>>
    /\ os = [f \in Fd |-> Free]
    /\ pending = [p \in Servers |-> 0]
    /\ at = [c \in Programs |-> "idle"]
    /\ path = [c \in Programs |-> None]
    /\ fd = [c \in Programs |-> None]
    /\ tries = [c \in Programs |-> 0]
    /\ file = [c \in Programs |-> None]
    /\ lost = {}

-----------------------------------------------------------------------------
FreeFds == {f \in Fd : os[f] = Free}
LowestFree == Min(FreeFds)

\* the request of c goes on, or is answered
Goto(c, pc, p, f, n) ==
    /\ at' = [at EXCEPT ![c] = pc]
    /\ path' = [path EXCEPT ![c] = p]
    /\ fd' = [fd EXCEPT ![c] = f]
    /\ tries' = [tries EXCEPT ![c] = n]

Reply(c) == Goto(c, "idle", None, None, 0)

\* names of the directory are made and removed one at a time
DirectoryFree == \A c \in Programs : at[c] \in {"idle", "accepting"}

\* an open of p begins: p is there, and nobody makes or removes it
CanOpen(c, p) ==
    /\ at[c] = "idle" /\ file[c] = None
    /\ \A d \in Programs : at[d] \in {"idle", "accepting"} \/ path[d] # p

\* the lock that an unlink of p waits for
PathFree(p) == \A d \in Programs : ~(at[d] = "accepting" /\ path[d] = p)

IsOpen(p) == \E d \in Programs : file[d] # None /\ file[d].path = p

-----------------------------------------------------------------------------
(* mknod of a client file: sock_connect_to *)

\* Mutant of MakeClient: the path is in the table before there is a socket.
MakeClientReserves(c, p, n) ==
    /\ at[c] = "idle" /\ DirectoryFree
    /\ p \notin entries
    /\ entries' = entries \union {p}
    /\ table' = p :> None @@ table
    /\ Goto(c, "socket", p, None, n)
    /\ UNCHANGED <<os, pending, file, lost>>

\* add_entry, then client_type::mknod with the n addresses of the host
MakeClient(c, p, n) ==
    /\ at[c] = "idle" /\ DirectoryFree
    /\ p \notin entries
    /\ entries' = entries \union {p}
    /\ Goto(c, "socket", p, None, n)
    /\ UNCHANGED <<table, os, pending, file, lost>>

\* socket(2) for the next address
NextSocket(c) ==
    /\ at[c] = "socket"
    /\ FreeFds # {}
    /\ os' = [os EXCEPT ![LowestFree] = Socket(path[c], "new")]
    /\ Goto(c, "connecting", path[c], LowestFree, tries[c])
    /\ UNCHANGED <<entries, table, pending, file, lost>>

\* the exception removes the entry
MknodThrows(c) ==
    /\ entries' = entries \ {path[c]}
    /\ Reply(c)

NoSocket(c) ==
    /\ at[c] = "socket"
    /\ FreeFds = {}
    /\ MknodThrows(c)
    /\ UNCHANGED <<table, os, pending, file, lost>>

\* connect(2) to an address that is not the last returns, however: the loop
\* goes on to the next one and forgets this socket
GoesOn(c) ==
    /\ at[c] = "connecting" /\ tries[c] > 1
    /\ os' \in {os, [os EXCEPT ![fd[c]].as = "connected"]}
    /\ lost' = lost \union {fd[c]}
    /\ Goto(c, "socket", path[c], None, tries[c] - 1)
    /\ UNCHANGED <<entries, table, pending, file>>

\* ... to the last one succeeds
Connected(c) ==
    /\ at[c] = "connecting" /\ tries[c] = 1
    /\ os' = [os EXCEPT ![fd[c]].as = "connected"]
    /\ Goto(c, "insert", path[c], fd[c], 0)
    /\ UNCHANGED <<entries, table, pending, file, lost>>

\* ... or fails, and the socket stays open
ConnectFails(c) ==
    /\ at[c] = "connecting" /\ tries[c] = 1
    /\ lost' = lost \union {fd[c]}
    /\ MknodThrows(c)
    /\ UNCHANGED <<table, os, pending, file>>

-----------------------------------------------------------------------------
(* mknod of a server file: establish_server *)

\* Mutant of MakeServer: the socket is bound, and never listens.
MakeServerUnheard(c, p) ==
    /\ at[c] = "idle" /\ DirectoryFree
    /\ p \notin entries
    /\ FreeFds # {}
    /\ entries' = entries \union {p}
    /\ os' = [os EXCEPT ![LowestFree] = Socket(p, "new")]
    /\ Goto(c, "insert", p, LowestFree, 0)
    /\ UNCHANGED <<table, pending, file, lost>>

\* socket(2), bind(2) and listen(2)
MakeServer(c, p) ==
    /\ at[c] = "idle" /\ DirectoryFree
    /\ p \notin entries
    /\ FreeFds # {}
    /\ entries' = entries \union {p}
    /\ os' = [os EXCEPT ![LowestFree] = Socket(p, "listening")]
    /\ Goto(c, "insert", p, LowestFree, 0)
    /\ UNCHANGED <<table, pending, file, lost>>

\* bind(2) or listen(2) fails: the entry goes, the socket stays
MakeServerFails(c, p) ==
    /\ at[c] = "idle" /\ DirectoryFree
    /\ p \notin entries
    /\ FreeFds # {}
    /\ os' = [os EXCEPT ![LowestFree] = Socket(p, "new")]
    /\ lost' = lost \union {LowestFree}
    /\ UNCHANGED <<entries, table, pending, at, path, fd, tries, file>>

\* fd_table::insert: an old socket under this path would be closed
Insert(c) ==
    /\ at[c] = "insert"
    /\ os' = IF path[c] \in DOMAIN table
             THEN [os EXCEPT ![table[path[c]]] = Free] ELSE os
    /\ table' = [p \in DOMAIN table \union {path[c]} |->
                    IF p = path[c] THEN fd[c] ELSE table[p]]
    /\ Reply(c)
    /\ UNCHANGED <<entries, pending, file, lost>>

-----------------------------------------------------------------------------
(* open and release *)

\* client_op::open
OpenClient(c, p) ==
    /\ CanOpen(c, p)
    /\ p \in entries \intersect DOMAIN table
    /\ file' = [file EXCEPT ![c] = [path |-> p, fd |-> table[p]]]
    /\ UNCHANGED <<entries, table, os, pending, at, path, fd, tries, lost>>

\* server_op::open: server_fd_ is looked up ...
OpenServer(c, p) ==
    /\ CanOpen(c, p)
    /\ p \in entries \intersect DOMAIN table
    /\ Goto(c, "accepting", p, table[p], 0)
    /\ UNCHANGED <<entries, table, os, pending, file, lost>>

\* ... accept(2) returns a connection
Accept(c) ==
    /\ at[c] = "accepting"
    /\ os[fd[c]].as = "listening"
    /\ pending[os[fd[c]].of] > 0
    /\ FreeFds # {}
    /\ pending' = [pending EXCEPT ![os[fd[c]].of] = @ - 1]
    /\ os' = [os EXCEPT ![LowestFree] = Socket(os[fd[c]].of, "accepted")]
    /\ file' = [file EXCEPT ![c] = [path |-> path[c], fd |-> LowestFree]]
    /\ Reply(c)
    /\ UNCHANGED <<entries, table, lost>>

\* ... or fails: a signal, or no descriptor
AcceptFails(c) ==
    /\ at[c] = "accepting"
    /\ Reply(c)
    /\ UNCHANGED <<entries, table, os, pending, file, lost>>

\* raw_op::open: socket(2), and bind(2) to the interface
OpenPacket(c, p) ==
    /\ CanOpen(c, p)
    /\ FreeFds # {}
    /\ os' = [os EXCEPT ![LowestFree] = Socket(p, "packet")]
    /\ file' = [file EXCEPT ![c] = [path |-> p, fd |-> LowestFree]]
    /\ UNCHANGED <<entries, table, pending, at, path, fd, tries, lost>>

\* ... which may fail after the socket was made
OpenPacketFails(c, p) ==
    /\ CanOpen(c, p)
    /\ FreeFds # {}
    /\ os' = [os EXCEPT ![LowestFree] = Socket(p, "new")]
    /\ lost' = lost \union {LowestFree}
    /\ UNCHANGED <<entries, table, pending, at, path, fd, tries, file>>

\* Mutant of Closes: a client file closes its socket too.
ClosesAlways(f) == TRUE

\* server_op and raw_op close what their open made; client_op leaves the
\* socket to the entry
Closes(f) == f.path \notin Clients

Release(c) ==
    /\ at[c] = "idle" /\ file[c] # None
    /\ os' = IF Closes(file[c]) THEN [os EXCEPT ![file[c].fd] = Free] ELSE os
    /\ file' = [file EXCEPT ![c] = None]
    /\ UNCHANGED <<entries, table, pending, at, path, fd, tries, lost>>

-----------------------------------------------------------------------------
(* unlink, and the peers *)

Unlink(c, p) ==
    /\ at[c] = "idle" /\ DirectoryFree
    /\ p \in entries
    /\ Goto(c, "unlinking", p, None, 0)
    /\ UNCHANGED <<entries, table, os, pending, file, lost>>

UnlinkRefused(c) ==
    /\ at[c] = "unlinking"
    /\ PathFree(path[c])
    /\ IsOpen(path[c])
    /\ Reply(c)
    /\ UNCHANGED <<entries, table, os, pending, file, lost>>

\* Mutant of CloseSocket: the rmnod hook erases the key only.
CloseSocketKept(c) ==
    /\ at[c] = "unlinking"
    /\ PathFree(path[c])
    /\ ~IsOpen(path[c])
    /\ Goto(c, "erasing", path[c], None, 0)
    /\ UNCHANGED <<entries, table, os, pending, file, lost>>

\* the rmnod hook: fd_table::erase closes the socket ...
CloseSocket(c) ==
    /\ at[c] = "unlinking"
    /\ PathFree(path[c])
    /\ ~IsOpen(path[c])
    /\ os' = IF path[c] \in DOMAIN table
             THEN [os EXCEPT ![table[path[c]]] = Free] ELSE os
    /\ pending' = [p \in Servers |-> IF p = path[c] THEN 0 ELSE pending[p]]
    /\ Goto(c, "erasing", path[c], None, 0)
    /\ UNCHANGED <<entries, table, file, lost>>

\* ... and then erases the key; the entry goes
Erase(c) ==
    /\ at[c] = "erasing"
    /\ table' = Restrict(table, DOMAIN table \ {path[c]})
    /\ entries' = entries \ {path[c]}
    /\ Reply(c)
    /\ UNCHANGED <<os, pending, file, lost>>

\* a peer connects to the port of a server file
PeerConnects(p) ==
    /\ \E f \in Fd : os[f] = Socket(p, "listening")
    /\ pending[p] < MaxPending
    /\ pending' = [pending EXCEPT ![p] = @ + 1]
    /\ UNCHANGED <<entries, table, os, at, path, fd, tries, file, lost>>

-----------------------------------------------------------------------------
Requests(c) ==
    \/ \E p \in Clients :
          OpenClient(c, p) \/ \E n \in 1 .. MaxAddresses : MakeClient(c, p, n)
    \/ \E p \in Servers : MakeServer(c, p) \/ MakeServerFails(c, p) \/ OpenServer(c, p)
    \/ \E p \in Packets : OpenPacket(c, p) \/ OpenPacketFails(c, p)
    \/ \E p \in Paths : Unlink(c, p)
    \/ Release(c)

\* what a handler does by itself: connect(2) succeeds or fails in finite time
Handler(c) ==
    \/ NextSocket(c) \/ NoSocket(c) \/ GoesOn(c) \/ Connected(c) \/ ConnectFails(c)
    \/ Insert(c)
    \/ UnlinkRefused(c) \/ CloseSocket(c) \/ Erase(c)

Next ==
    \/ \E c \in Programs : Requests(c) \/ Handler(c) \/ Accept(c) \/ AcceptFails(c)
    \/ \E p \in Servers : PeerConnects(p)

Spec == Init /\ [][Next]_vars

\* worker threads go on, and accept(2) serves those who wait in turn
Fairness == \A c \in Programs : WF_vars(Handler(c)) /\ SF_vars(Accept(c))

FairSpec == Spec /\ Fairness

-----------------------------------------------------------------------------
(* Properties *)

File == [path : Paths \union Packets, fd : Fd]

TypeOK ==
    /\ entries \subseteq Paths
    /\ DOMAIN table \subseteq Paths /\ \A p \in DOMAIN table : table[p] \in Fd
    /\ os \in [Fd -> {Free} \union [of : Paths \union Packets, as : Uses]]
    /\ pending \in [Servers -> 0 .. MaxPending]
    /\ at \in [Programs -> Steps]
    /\ path \in [Programs -> Paths \union {None}]
    /\ fd \in [Programs -> Fd \union {None}]
    /\ tries \in [Programs -> 0 .. MaxAddresses]
    /\ file \in [Programs -> File \union {None}]
    /\ lost \subseteq Fd

\* what the socket of a path is
UseOf(p) == IF p \in Clients THEN "connected" ELSE "listening"

Erasing(p) == \E c \in Programs : at[c] = "erasing" /\ path[c] = p

\* A file is read and written through its own socket: the descriptor that the
\* table or an open file has kept is the socket that was made for that path, a
\* connection, a listening socket or a packet socket as the file needs it, and not
\* one that got the number after it was closed; and every accepted connection and
\* packet socket belongs to one open file.
OwnSocket ==
    /\ \A p \in DOMAIN table : ~Erasing(p) => os[table[p]] = Socket(p, UseOf(p))
    /\ \A c \in Programs : file[c] # None =>
          LET p == file[c].path
          IN  os[file[c].fd] = Socket(p, IF p \in Clients THEN "connected"
                                         ELSE IF p \in Servers THEN "accepted" ELSE "packet")
    /\ \A c, d \in Programs :
          /\ c # d /\ file[c] # None /\ file[d] # None
          /\ file[c].fd = file[d].fd
          => file[c] = file[d] /\ file[c].path \in Clients

Opened == {f \in Fd : os[f] # Free}
Tabled == {table[p] : p \in {q \in DOMAIN table : ~Erasing(q)}}
Held == {file[c].fd : c \in {d \in Programs : file[d] # None}}
Handled == {fd[c] : c \in {d \in Programs : at[d] \in {"connecting", "insert"}}}

\* No descriptor stays open without a file but those that a failed attempt left: the
\* socket of an address that did not answer, or was not the last, and one that could
\* not be bound.  An entry that is removed, a file that is closed and a mknod that
\* fails leave no listening socket and no accepted connection.
NothingElseOpen ==
    /\ Opened = Tabled \union Held \union Handled \union lost
    /\ lost \intersect (Tabled \union Held \union Handled) = {}
    /\ \A f \in lost : os[f].as \in {"new", "connected"}
    /\ DirectoryFree => DOMAIN table = entries

\* While peers keep connecting to the ports of server files and descriptors do not
\* run out, every call ends: the opens that wait in accept(2), and the unlink that
\* waits for them and keeps everybody else from making and removing files.
EveryCallEnds ==
    /\ \A p \in Servers : WF_vars(PeerConnects(p))
    /\ []<>(FreeFds # {})
    => \A c \in Programs : at[c] # "idle" ~> at[c] = "idle"
=============================================================================
