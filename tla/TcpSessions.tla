---------------------------- MODULE TcpSessions ----------------------------
(***************************************************************************)
(* TCP sessions: /tcp/clone, /tcp/<n>/ctl, data and listen, the table of   *)
(* session sockets (fd_table, net/common.cpp) and the descriptors of the   *)
(* process under them.                                                     *)
(*                                                                         *)
(* Nothing here is locked.  A handler is cut where another request can     *)
(* come in between and change what it goes on with: between the questions  *)
(* clone asks, each load and store of the counter, the directory and the   *)
(* ctl; around connect(2); and inside fd_table, between close(2) and the   *)
(* change of the table.  The two questions clone asks of one ctl are one   *)
(* step, a directory comes with its files in one, and a socket is closed   *)
(* in the step that looks it up.  A failed request that changes nothing is *)
(* left out.                                                               *)
(*                                                                         *)
(* Every program has at most one ctl (its own or that of a clone file) and *)
(* one data file open (a bound).  The types stay registered; FsCore has    *)
(* what happens when they do not.                                          *)
(***************************************************************************)
EXTENDS Naturals, FiniteSets, Functions, FiniteSetsExt, TLC

CONSTANTS
    Programs,      \* the callers, each with one request at a time
    Readers,       \* bound: those that open data files, which no other action reads
    Serial,        \* mounted with -s: one request is served at a time
    MaxSession,    \* bound: the last session that clone turns to
    MaxFd,         \* bound: the descriptors of the process
    None           \* no session, no file, no descriptor

ASSUME SessionAssumption ==
    /\ Readers \subseteq Programs
    /\ MaxSession \in Nat /\ MaxFd \in Nat
    /\ Serial \in BOOLEAN
    /\ None \notin Nat

VARIABLES
    current,       \* clone_type::current_fd_
    dirs,          \* the sessions n that have a directory /tcp/n
    byhand,        \* those of them that a program made, not clone (history)
    table,         \* fdtable, its session keys: session -> descriptor
    os,            \* the descriptors: what the kernel has behind each
    job, at,       \* the request of each program, and where its handler is
    sess, newfd,   \* the handler's session, and the socket it has made
    ctl,           \* the open ctl or clone file of each program
    data           \* the open data file of each program

Jobs == {"idle", "clone", "connect", "announce", "hangup", "accept",
         "accept_new", "rmdir"}
Steps == {"idle", "ask", "take", "advance", "store", "construct", "confirm",
          "mkdir", "open_ctl", "connecting", "close_old", "erase", "insert", "remove_entry"}

vars == <<current, dirs, byhand, table, os, job, at, sess, newfd, ctl, data>>

Session == 0 .. MaxSession
Fd == 1 .. MaxFd

Init ==
    /\ current = 0
    /\ dirs = {}
    /\ byhand = {}
    /\ table = <<>>
    /\ os = [f \in Fd |-> "free"]
    /\ job = [c \in Programs |-> "idle"]
    /\ at = [c \in Programs |-> "idle"]
    /\ sess = [c \in Programs |-> None]
    /\ newfd = [c \in Programs |-> None]
    /\ ctl = [c \in Programs |-> None]
    /\ data = [c \in Programs |-> None]

-----------------------------------------------------------------------------
FreeFds == {f \in Fd : os[f] = "free"}
LowestFree == Min(FreeFds)

\* Mutant of InUse: clone asks "is_announced" only.
InUseListening(n) == n \in DOMAIN table /\ os[table[n]] = "listening"

\* sock_is_connected, or a socket in state TCP_LISTEN
InUse(n) == n \in DOMAIN table /\ os[table[n]] \in {"connected", "listening"}

\* getsockopt(2) and accept(2) fail for a descriptor that is closed
Valid(n) == n \in DOMAIN table => os[table[n]] # "free"

Available(c) ==
    /\ job[c] = "idle"
    /\ Serial => \A d \in Programs : job[d] = "idle"

Start(c, j, pc, n, f) ==
    /\ Available(c)
    /\ job' = [job EXCEPT ![c] = j]
    /\ at' = [at EXCEPT ![c] = pc]
    /\ sess' = [sess EXCEPT ![c] = n]
    /\ newfd' = [newfd EXCEPT ![c] = f]

Goto(c, pc) == at' = [at EXCEPT ![c] = pc] /\ UNCHANGED <<job, sess, newfd>>

Reply(c) ==
    /\ job' = [job EXCEPT ![c] = "idle"]
    /\ at' = [at EXCEPT ![c] = "idle"]
    /\ sess' = [sess EXCEPT ![c] = None]
    /\ newfd' = [newfd EXCEPT ![c] = None]

-----------------------------------------------------------------------------
(* open of /tcp/clone, by a program or by listen_op::read *)

\* create_op: is there a ctl of the current session to be asked?
CloneStart(c, j, f) ==
    Start(c, j, IF current \in dirs THEN "ask" ELSE "construct", current, f)

OpenClone(c) ==
    /\ ctl[c] = None
    /\ CloneStart(c, "clone", None)
    /\ UNCHANGED <<current, dirs, byhand, table, os, ctl, data>>

\* target_ctl_is_connected with "is_connected" and "is_announced"
CloneAsk(c) ==
    /\ at[c] = "ask"
    /\ sess[c] \in dirs
    /\ Valid(sess[c])
    /\ Goto(c, IF InUse(sess[c]) THEN "advance" ELSE "take")
    /\ UNCHANGED <<current, dirs, byhand, table, os, ctl, data>>

\* the number it turns to is worked out from the counter ...
CloneTake(c) ==
    /\ \/ at[c] = "take" /\ sess' = [sess EXCEPT ![c] = current]
       \/ at[c] = "advance" /\ current < MaxSession /\ sess' = [sess EXCEPT ![c] = current + 1]
    /\ at' = [at EXCEPT ![c] = "store"]
    /\ UNCHANGED <<current, dirs, byhand, table, os, job, newfd, ctl, data>>

\* Mutant of CloneStore: the finalizer takes the advance back although nothing was
\* thrown, after the clone_op was made.
CloneStoreTakenBack(c) ==
    /\ at[c] = "store"
    /\ Goto(c, "confirm")
    /\ UNCHANGED <<current, dirs, byhand, table, os, ctl, data>>

\* ... and stored, whatever the counter has become
CloneStore(c) ==
    /\ at[c] = "store"
    /\ current' = sess[c]
    /\ Goto(c, "construct")
    /\ UNCHANGED <<dirs, byhand, table, os, ctl, data>>

\* the clone_op is made with the counter, which is read again
CloneConstruct(c) ==
    /\ at[c] = "construct"
    /\ sess' = [sess EXCEPT ![c] = current]
    /\ at' = [at EXCEPT ![c] = "confirm"]
    /\ UNCHANGED <<current, dirs, byhand, table, os, job, newfd, ctl, data>>

\* clone_op::open
CloneConfirm(c) ==
    /\ at[c] = "confirm"
    /\ Goto(c, IF sess[c] \in dirs THEN "open_ctl" ELSE "mkdir")
    /\ UNCHANGED <<current, dirs, byhand, table, os, ctl, data>>

\* two entries of one name are as good as one: rmdir removes both; listen_op is
\* remembered to have made the directory
CloneMkdir(c) ==
    /\ at[c] = "mkdir"
    /\ dirs' = dirs \union {sess[c]}
    /\ at' = [at EXCEPT ![c] = "open_ctl"]
    /\ job' = [job EXCEPT ![c] = IF @ = "accept" THEN "accept_new" ELSE @]
    /\ UNCHANGED <<current, byhand, table, os, sess, newfd, ctl, data>>

\* a program has its clone file; listen_op reads the number, closes it again
\* and inserts the connection it accepted
CloneDone(c) ==
    /\ at[c] = "open_ctl"
    /\ sess[c] \in dirs
    /\ IF job[c] = "clone"
       THEN ctl' = [ctl EXCEPT ![c] = [s |-> sess[c], of |-> "clone"]] /\ Reply(c)
       ELSE Goto(c, "close_old") /\ UNCHANGED ctl
    /\ UNCHANGED <<current, dirs, byhand, table, os, data>>

\* the directory or the socket went away: the exception closes what listen_op
\* accepted
CloneThrows(c) ==
    /\ \/ at[c] = "ask" /\ ~(sess[c] \in dirs /\ Valid(sess[c]))
       \/ at[c] = "open_ctl" /\ sess[c] \notin dirs
    /\ os' = IF newfd[c] = None THEN os ELSE [os EXCEPT ![newfd[c]] = "free"]
    /\ Reply(c)
    /\ UNCHANGED <<current, dirs, byhand, table, ctl, data>>

\* the number of the new session does not fit in the reader's buffer: -ENAMETOOLONG,
\* and the connection stays open in no session
AcceptDropped(c) ==
    /\ at[c] = "open_ctl"
    /\ sess[c] \in dirs
    /\ job[c] # "clone"
    /\ Reply(c)
    /\ UNCHANGED <<current, dirs, byhand, table, os, ctl, data>>

-----------------------------------------------------------------------------
(* ctl_op::write, listen_op::read and rmdir of a session directory *)

\* "connect": socket(2), then connect(2) takes its time
Connect(c) ==
    /\ ctl[c] # None
    /\ Valid(ctl[c].s)
    /\ ~(ctl[c].s \in DOMAIN table /\ os[table[ctl[c].s]] = "connected")
    /\ FreeFds # {}
    /\ os' = [os EXCEPT ![LowestFree] = "other"]
    /\ Start(c, "connect", "connecting", ctl[c].s, LowestFree)
    /\ UNCHANGED <<current, dirs, byhand, table, ctl, data>>

\* it succeeds
Connected(c) ==
    /\ at[c] = "connecting"
    /\ os' = [os EXCEPT ![newfd[c]] = "connected"]
    /\ Goto(c, "close_old")
    /\ UNCHANGED <<current, dirs, byhand, table, ctl, data>>

\* connect(2) fails: the exception leaves the socket open
SocketFails(c) ==
    /\ at[c] = "connecting"
    /\ Reply(c)
    /\ UNCHANGED <<current, dirs, byhand, table, os, ctl, data>>

\* "announce": whatever socket the session has
Announce(c) ==
    /\ ctl[c] # None
    /\ FreeFds # {}
    /\ os' = [os EXCEPT ![LowestFree] = "listening"]
    /\ Start(c, "announce", "close_old", ctl[c].s, LowestFree)
    /\ UNCHANGED <<current, dirs, byhand, table, ctl, data>>

\* ... or bind(2) or listen(2) fails, likewise
AnnounceFails(c) ==
    /\ Available(c)
    /\ ctl[c] # None
    /\ FreeFds # {}
    /\ os' = [os EXCEPT ![LowestFree] = "other"]
    /\ UNCHANGED <<current, dirs, byhand, table, job, at, sess, newfd, ctl, data>>

\* "hangup"
Hangup(c) ==
    /\ ctl[c] # None
    /\ Start(c, "hangup", "close_old", ctl[c].s, None)
    /\ UNCHANGED <<current, dirs, byhand, table, os, ctl, data>>

\* read of /tcp/n/listen when a connection has come in
Accept(c, n) ==
    /\ n \in dirs \intersect DOMAIN table
    /\ os[table[n]] = "listening"
    /\ FreeFds # {}
    /\ os' = [os EXCEPT ![LowestFree] = "connected"]
    /\ CloneStart(c, "accept", LowestFree)
    /\ UNCHANGED <<current, dirs, byhand, table, ctl, data>>

\* mkdir of a session directory by a program, which clone does not hear of
Mkdir(c, n) ==
    /\ Available(c)
    /\ n \notin dirs
    /\ dirs' = dirs \union {n}
    /\ byhand' = byhand \union {n}
    /\ UNCHANGED <<current, table, os, job, at, sess, newfd, ctl, data>>

\* session_dir_type::rmnod, then the entry goes
Rmdir(c, n) ==
    /\ n \in dirs
    /\ Start(c, "rmdir", "close_old", n, None)
    /\ UNCHANGED <<current, dirs, byhand, table, os, ctl, data>>

-----------------------------------------------------------------------------
(* fd_table::insert and fd_table::erase *)

\* Mutant of CloseOld: the new descriptor is closed in the old one's place.
CloseNew(c) ==
    /\ at[c] = "close_old"
    /\ os' = IF newfd[c] = None THEN os ELSE [os EXCEPT ![newfd[c]] = "free"]
    /\ Goto(c, "erase")
    /\ UNCHANGED <<current, dirs, byhand, table, ctl, data>>

\* close(2) of the session's socket; insert calls erase only when there is one
CloseOld(c) ==
    /\ at[c] = "close_old"
    /\ IF sess[c] \in DOMAIN table
       THEN os' = [os EXCEPT ![table[sess[c]]] = "free"] /\ Goto(c, "erase")
       ELSE Goto(c, IF newfd[c] = None THEN "erase" ELSE "insert") /\ UNCHANGED os
    /\ UNCHANGED <<current, dirs, byhand, table, ctl, data>>

\* Mutant of Erase: a request without a new descriptor inserts it as well.
EraseThenInsert(c) ==
    /\ at[c] = "erase"
    /\ table' = Restrict(table, DOMAIN table \ {sess[c]})
    /\ Goto(c, "insert")
    /\ UNCHANGED <<current, dirs, byhand, os, ctl, data>>

Erase(c) ==
    /\ at[c] = "erase"
    /\ table' = Restrict(table, DOMAIN table \ {sess[c]})
    /\ CASE job[c] = "hangup" -> Reply(c)
         [] job[c] = "rmdir" -> Goto(c, "remove_entry")
         [] OTHER -> Goto(c, "insert")
    /\ UNCHANGED <<current, dirs, byhand, os, ctl, data>>

\* std::map::insert, which leaves a key that is there alone
Insert(c) ==
    /\ at[c] = "insert"
    /\ table' = [n \in DOMAIN table \union {sess[c]} |->
                   IF n \in DOMAIN table THEN table[n] ELSE newfd[c]]
    /\ Reply(c)
    /\ UNCHANGED <<current, dirs, byhand, os, ctl, data>>

\* libfuse refuses the files below from now on, a clone file is not below
RemoveEntry(c) ==
    /\ at[c] = "remove_entry"
    /\ dirs' = dirs \ {sess[c]}
    /\ byhand' = byhand \ {sess[c]}
    /\ ctl' = [d \in Programs |->
                 IF ctl[d] = [s |-> sess[c], of |-> "session"] THEN None ELSE ctl[d]]
    /\ data' = [d \in Programs |->
                 IF data[d] # None /\ data[d].s = sess[c] THEN None ELSE data[d]]
    /\ Reply(c)
    /\ UNCHANGED <<current, table, os>>

-----------------------------------------------------------------------------
(* the files of a session, and the peers *)

OpenCtl(c, n) ==
    /\ Available(c)
    /\ ctl[c] = None
    /\ n \in dirs
    /\ ctl' = [ctl EXCEPT ![c] = [s |-> n, of |-> "session"]]
    /\ UNCHANGED <<current, dirs, byhand, table, os, job, at, sess, newfd, data>>

CloseCtl(c) ==
    /\ Available(c)
    /\ ctl[c] # None
    /\ ctl' = [ctl EXCEPT ![c] = None]
    /\ UNCHANGED <<current, dirs, byhand, table, os, job, at, sess, newfd, data>>

\* data_op::open keeps the descriptor for the reads and writes to come
OpenData(c, n) ==
    /\ c \in Readers
    /\ Available(c)
    /\ data[c] = None
    /\ n \in dirs \intersect DOMAIN table
    /\ data' = [data EXCEPT ![c] = [s |-> n, fd |-> table[n]]]
    /\ UNCHANGED <<current, dirs, byhand, table, os, job, at, sess, newfd, ctl>>

CloseData(c) ==
    /\ Available(c)
    /\ data[c] # None
    /\ data' = [data EXCEPT ![c] = None]
    /\ UNCHANGED <<current, dirs, byhand, table, os, job, at, sess, newfd, ctl>>

\* the peer ends the connection
PeerCloses(f) ==
    /\ os[f] = "connected"
    /\ os' = [os EXCEPT ![f] = "other"]
    /\ UNCHANGED <<current, dirs, byhand, table, job, at, sess, newfd, ctl, data>>

-----------------------------------------------------------------------------
CloneSteps(c) ==
    \/ CloneAsk(c) \/ CloneTake(c) \/ CloneStore(c) \/ CloneConstruct(c) \/ CloneConfirm(c)
    \/ CloneMkdir(c) \/ CloneDone(c) \/ CloneThrows(c) \/ AcceptDropped(c)

Requests(c) ==
    \/ OpenClone(c) \/ Connect(c) \/ Announce(c) \/ AnnounceFails(c) \/ Hangup(c)
    \/ CloseCtl(c) \/ CloseData(c)
    \/ \E n \in Session :
          \/ Accept(c, n) \/ Mkdir(c, n) \/ Rmdir(c, n)
          \/ OpenCtl(c, n) \/ OpenData(c, n)

Next ==
    \/ \E c \in Programs :
          \/ Requests(c) \/ CloneSteps(c)
          \/ Connected(c) \/ SocketFails(c)
          \/ CloseOld(c) \/ Erase(c) \/ Insert(c) \/ RemoveEntry(c)
    \/ \E f \in Fd : PeerCloses(f)

Spec == Init /\ [][Next]_vars

-----------------------------------------------------------------------------
(* Properties *)

File == [s : Session, of : {"clone", "session"}]

TypeOK ==
    /\ current \in Session
    /\ dirs \subseteq Session /\ byhand \subseteq dirs
    /\ DOMAIN table \subseteq Session /\ \A n \in DOMAIN table : table[n] \in Fd
    /\ os \in [Fd -> {"free", "other", "connected", "listening"}]
    /\ job \in [Programs -> Jobs] /\ at \in [Programs -> Steps]
    /\ \A c \in Programs :
          /\ job[c] = "idle" <=> at[c] = "idle"
          /\ job[c] # "idle" => sess[c] \in Session
          /\ newfd[c] \in Fd \union {None}
          /\ job[c] \in {"connect", "announce", "accept", "accept_new"} => newfd[c] \in Fd
          /\ ctl[c] \in File \union {None}
          /\ data[c] = None \/ data[c] \in [s : Session, fd : Fd]

\* Mounted with -s, the counter is not behind: the sessions that clone gave a
\* directory, and the one that a handler is about to open, are not above it, so the
\* session it advances to is new unless a program made its directory.
CounterNotBehind ==
    Serial =>
        /\ \A n \in dirs \ byhand : n <= current
        /\ \A c \in Programs : at[c] \in {"confirm", "mkdir", "open_ctl"} => sess[c] <= current

\* fd_table is the "session socket descriptor set" (net/common.hpp): the
\* descriptors in it are open, but for the moment in which a request that
\* closed one erases it, and no two sessions have the same one.
TableSound ==
    /\ \A n \in DOMAIN table :
          os[table[n]] = "free" => \E c \in Programs : at[c] = "erase" /\ sess[c] = n
    /\ \A m, n \in DOMAIN table : table[m] = table[n] => m = n

\* Whose socket the handler of c is about to close, in a session of its own or of
\* one that clone did not ask: it had no directory (its connection was made through
\* a clone file that outlived the directory), or a program made the directory and
\* the counter turned to it.
MayDisconnect(c) ==
    \/ job[c] \in {"hangup", "announce", "rmdir", "accept_new"}
    \/ job[c] = "accept" /\ sess[c] \in byhand

\* Mounted with -s, an established connection is closed by a hangup, an announcement
\* or a rmdir of its session, or by an accepted connection that is given a session
\* clone did not ask about; never by a connect, by an open of clone, or by an accept
\* that is given a session clone made and asked.
ConnectionsKept ==
    [][Serial =>
          \A f \in Fd : os[f] = "connected" /\ os'[f] = "free" =>
              \E c \in Programs :
                  at[c] = "close_old" /\ at'[c] # at[c] /\ MayDisconnect(c)]_vars

\* listen_op::read opens clone "to create new session" (listen_op.cpp): the session
\* that an accepted connection is given has no connection yet.
AcceptedInNewSession ==
    [][\A c \in Programs :
          job[c] = "accept" /\ at[c] = "close_old" /\ at'[c] # at[c] =>
              sess[c] \notin DOMAIN table \/ os[table[sess[c]]] # "connected"]_vars

\* listen_op::read opens clone "to create new session" (listen_op.cpp): no
\* program has the files of the session that an accepted connection gets.
AcceptedAlone ==
    [][\A c \in Programs :
          job[c] = "accept" /\ at[c] = "open_ctl" /\ at'[c] = "close_old" =>
              \A d \in Programs : ctl[d] = None \/ ctl[d].s # sess[c]]_vars

\* What a program writes to /tcp/n/data goes to the connection of session n
\* (the example in clone_op.cpp): an open data file never has the descriptor
\* of another session's socket.
DataOfSession ==
    \A c \in Programs : \A n \in DOMAIN table :
        data[c] # None /\ data[c].fd = table[n] => data[c].s = n
=============================================================================
