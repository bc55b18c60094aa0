------------------------- MODULE TcpSessionsProofs -------------------------
(***************************************************************************)
(* Proofs about TcpSessions, for any number of programs, sessions and      *)
(* descriptors, and any order of mkdir, rmdir and opens of clone.  With    *)
(* and without -s: the variables have their types.  With -s: the counter   *)
(* of clone is not behind, the table of sockets is sound, and connections  *)
(* are kept.                                                               *)
(***************************************************************************)
EXTENDS TcpSessions, OrderTheorems, TLAPS

\* The sessions are numbers, and the counter counts within the bound.
LEMMA Sessions ==
    /\ Session \subseteq Nat
    /\ 0 \in Session
    /\ \A n \in Session : n < MaxSession => n + 1 \in Session
    /\ None \notin Session
    /\ \A n \in Session, f \in {"clone", "session"} : [s |-> n, of |-> f] \in File
BY SessionAssumption DEF Session, File
-----------------------------------------------------------------------------
(* The types, with and without -s *)

\* Which requests come to which steps.
JobsPlaced ==
    \A c \in Programs :
        /\ at[c] \in {"ask", "take", "advance", "store", "construct", "confirm",
                      "mkdir", "open_ctl"} =>
              job[c] \in {"clone", "accept", "accept_new"}
        /\ at[c] = "connecting" => job[c] = "connect"
        /\ at[c] \in {"close_old", "erase", "insert"} => job[c] # "clone"
        /\ at[c] = "insert" => job[c] \notin {"hangup", "rmdir"}
        /\ job[c] \in {"idle", "clone", "hangup", "rmdir"} => newfd[c] = None
        /\ at[c] = "remove_entry" => job[c] = "rmdir"

\* The types, for the functions as a whole.
SessionTypes ==
    /\ current \in Session
    /\ dirs \subseteq Session /\ byhand \subseteq dirs
    /\ DOMAIN table \subseteq Session /\ \A n \in DOMAIN table : table[n] \in Fd
    /\ os \in [Fd -> {"free", "other", "connected", "listening"}]
    /\ job \in [Programs -> Jobs] /\ at \in [Programs -> Steps]
    /\ sess \in [Programs -> Session \union {None}]
    /\ newfd \in [Programs -> Fd \union {None}]
    /\ ctl \in [Programs -> File \union {None}]
    /\ data \in [Programs -> [s : Session, fd : Fd] \union {None}]
    /\ \A c \in Programs :
          /\ job[c] = "idle" <=> at[c] = "idle"
          /\ job[c] # "idle" => sess[c] # None
          /\ job[c] \in {"connect", "announce", "accept", "accept_new"} => newfd[c] # None

TypesInv == SessionTypes /\ JobsPlaced
-----------------------------------------------------------------------------
(* With -s: one request at a time *)

\* The session has an established connection.
Connection(n) == n \in DOMAIN table /\ os[table[n]] = "connected"

\* What the one request that is served may rely on.
RequestPlaced ==
    \A c \in Programs :
        /\ \A d \in Programs : job[c] # "idle" /\ job[d] # "idle" => c = d
        /\ newfd[c] # None => /\ os[newfd[c]] # "free"
                              /\ \A n \in DOMAIN table : table[n] # newfd[c]
        /\ at[c] = "insert" => sess[c] \notin DOMAIN table
        /\ at[c] \in {"ask", "take", "construct", "confirm", "mkdir", "open_ctl"} =>
              sess[c] = current
        /\ at[c] = "store" => current <= sess[c]
        /\ at[c] \in {"ask", "open_ctl"} => sess[c] \in dirs
        /\ at[c] = "take" => ~Connection(sess[c])
        /\ at[c] \in {"store", "construct", "confirm"} /\ sess[c] \in dirs \ byhand =>
              ~Connection(sess[c])
        /\ job[c] = "accept" /\ at[c] \in {"open_ctl", "close_old"} =>
              sess[c] \in byhand \/ ~Connection(sess[c])
        /\ job[c] = "connect" /\ at[c] \in {"connecting", "close_old"} => ~Connection(sess[c])

\* The sessions that clone gave a directory were counted.
Counted == \A n \in dirs \ byhand : n <= current

\* What the one request and the table rely on depends on -s, the types do not.
SerialInv == Serial => RequestPlaced /\ TableSound /\ Counted
AllInv == TypesInv /\ SerialInv
-----------------------------------------------------------------------------
\* socket(2) and accept(2) return a descriptor that is free.
LEMMA LowestIsFree ==
    ASSUME FreeFds # {}
    PROVE  LowestFree \in Fd /\ os[LowestFree] = "free"
BY MinIsMember, SessionAssumption DEF LowestFree, FreeFds, Fd

\* The numbers are not None.
LEMMA Descriptors == None \notin Fd /\ None \notin Session
BY SessionAssumption DEF Fd, Session

\* fd_table::erase, on the table as a function.
LEMMA TableErase ==
    ASSUME NEW t, NEW n
    PROVE  Restrict(t, DOMAIN t \ {n}) = [m \in DOMAIN t \ {n} |-> t[m]]
BY DEF Restrict

\* The types hold when the file system is mounted.
LEMMA TypesInit == Init => TypesInv
<1> SUFFICES ASSUME Init PROVE TypesInv
    OBVIOUS
<1>1. DOMAIN table = {}
    BY DEF Init
<1> QED
    BY <1>1, Sessions, SessionAssumption
       DEF Init, TypesInv, SessionTypes, JobsPlaced, Jobs, Steps

\* fd_table::erase takes the session's key away, and the request goes on as its kind
\* requires.
LEMMA EraseEffects ==
    ASSUME TypesInv, NEW c \in Programs, Erase(c)
    PROVE  /\ at[c] = "erase"
           /\ DOMAIN table' = DOMAIN table \ {sess[c]}
           /\ \A m \in DOMAIN table' : table'[m] = table[m]
           /\ UNCHANGED <<current, dirs, byhand, os, ctl, data>>
           /\ \/ Reply(c)
              \/ job[c] = "rmdir" /\ Goto(c, "remove_entry")
              \/ job[c] \notin {"idle", "clone", "hangup", "rmdir"} /\ Goto(c, "insert")
<1>1. table' = [m \in DOMAIN table \ {sess[c]} |-> table[m]]
    BY TableErase DEF Erase
<1>2. job[c] \in Jobs \ {"idle", "clone"}
    BY DEF Erase, TypesInv, SessionTypes, JobsPlaced
<1> QED
    BY <1>1, <1>2 DEF Erase

\* fd_table::insert, under a key that is not there.
LEMMA InsertEffects ==
    ASSUME TypesInv, RequestPlaced, NEW c \in Programs, Insert(c)
    PROVE  /\ at[c] = "insert" /\ sess[c] \notin DOMAIN table
           /\ DOMAIN table' = DOMAIN table \union {sess[c]}
           /\ \A m \in DOMAIN table : table'[m] = table[m]
           /\ table'[sess[c]] = newfd[c] /\ newfd[c] \in Fd
           /\ UNCHANGED <<current, dirs, byhand, os, ctl, data>>
           /\ Reply(c)
<1>1. job[c] \in {"connect", "announce", "accept", "accept_new"}
    BY DEF Insert, TypesInv, SessionTypes, JobsPlaced, Jobs
<1> QED
    BY <1>1 DEF Insert, TypesInv, SessionTypes, RequestPlaced

\* Every step keeps the types.
LEMMA TypesStep == TypesInv /\ [Next]_vars => TypesInv'
<1> SUFFICES ASSUME TypesInv, [Next]_vars PROVE TypesInv'
    OBVIOUS
<1> USE Sessions, Descriptors DEF TypesInv, SessionTypes, JobsPlaced, Jobs, Steps
<1>0. CASE UNCHANGED vars
    BY <1>0 DEF vars
<1>1. ASSUME NEW c \in Programs, OpenClone(c) PROVE TypesInv'
    BY <1>1 DEF OpenClone, Start, Available, CloneStart
<1>2. ASSUME NEW c \in Programs, Connect(c) PROVE TypesInv'
    BY LowestIsFree, <1>2 DEF Connect, Start, Available, File
<1>3. ASSUME NEW c \in Programs, Announce(c) PROVE TypesInv'
    BY LowestIsFree, <1>3 DEF Announce, Start, Available, File
<1>4. ASSUME NEW c \in Programs, AnnounceFails(c) PROVE TypesInv'
    BY LowestIsFree, <1>4 DEF AnnounceFails, Available
<1>5. ASSUME NEW c \in Programs, Hangup(c) PROVE TypesInv'
    BY <1>5 DEF Hangup, Start, Available, File
<1>6. ASSUME NEW c \in Programs, CloseCtl(c) PROVE TypesInv'
    BY <1>6 DEF CloseCtl, Available
<1>7. ASSUME NEW c \in Programs, CloseData(c) PROVE TypesInv'
    BY <1>7 DEF CloseData, Available
<1>8. ASSUME NEW c \in Programs, NEW n \in Session, Accept(c, n) PROVE TypesInv'
    BY LowestIsFree, <1>8 DEF Accept, Start, Available, CloneStart
<1>9. ASSUME NEW c \in Programs, NEW n \in Session, Rmdir(c, n) PROVE TypesInv'
    BY <1>9 DEF Rmdir, Start, Available
<1>28. ASSUME NEW c \in Programs, NEW n \in Session, Mkdir(c, n) PROVE TypesInv'
    BY <1>28 DEF Mkdir, Available
<1>10. ASSUME NEW c \in Programs, NEW n \in Session, OpenCtl(c, n) PROVE TypesInv'
    BY <1>10 DEF OpenCtl, Available, File
<1>11. ASSUME NEW c \in Programs, NEW n \in Session, OpenData(c, n) PROVE TypesInv'
    BY <1>11 DEF OpenData, Available
<1>12. ASSUME NEW c \in Programs, CloneAsk(c) PROVE TypesInv'
    BY <1>12 DEF CloneAsk, Goto
<1>13. ASSUME NEW c \in Programs, CloneTake(c) PROVE TypesInv'
    BY <1>13 DEF CloneTake
<1>26. ASSUME NEW c \in Programs, CloneStore(c) PROVE TypesInv'
    BY <1>26 DEF CloneStore, Goto
<1>27. ASSUME NEW c \in Programs, CloneConstruct(c) PROVE TypesInv'
    BY <1>27 DEF CloneConstruct
<1>14. ASSUME NEW c \in Programs, CloneConfirm(c) PROVE TypesInv'
    BY <1>14 DEF CloneConfirm, Goto
<1>15. ASSUME NEW c \in Programs, CloneMkdir(c) PROVE TypesInv'
    BY <1>15 DEF CloneMkdir
<1>16. ASSUME NEW c \in Programs, CloneDone(c) PROVE TypesInv'
    <2>1. CASE job[c] = "clone"
        <3>1. PICK r \in File : ctl' = [ctl EXCEPT ![c] = r]
            BY <1>16, <2>1 DEF CloneDone
        <3> QED
            BY <1>16, <2>1, <3>1 DEF CloneDone, Reply
    <2>2. CASE job[c] # "clone"
        BY <1>16, <2>2 DEF CloneDone, Goto
    <2> QED
        BY <2>1, <2>2
<1>17. ASSUME NEW c \in Programs, CloneThrows(c) PROVE TypesInv'
    BY <1>17 DEF CloneThrows, Reply
<1>18. ASSUME NEW c \in Programs, AcceptDropped(c) PROVE TypesInv'
    BY <1>18 DEF AcceptDropped, Reply
<1>19. ASSUME NEW c \in Programs, Connected(c) PROVE TypesInv'
    BY <1>19 DEF Connected, Goto
<1>20. ASSUME NEW c \in Programs, SocketFails(c) PROVE TypesInv'
    BY <1>20 DEF SocketFails, Reply
<1>21. ASSUME NEW c \in Programs, CloseOld(c) PROVE TypesInv'
    BY <1>21 DEF CloseOld, Goto
<1>22. ASSUME NEW c \in Programs, Erase(c) PROVE TypesInv'
    <2>1. /\ DOMAIN table' \subseteq DOMAIN table
          /\ \A m \in DOMAIN table' : table'[m] = table[m]
          /\ UNCHANGED <<current, dirs, byhand, os, ctl, data>>
        BY <1>22, EraseEffects
    <2>2. CASE Reply(c)
        BY <2>1, <2>2 DEF Reply
    <2>3. CASE job[c] = "rmdir" /\ Goto(c, "remove_entry")
        BY <2>1, <2>3 DEF Goto
    <2>4. CASE job[c] \notin {"idle", "clone", "hangup", "rmdir"} /\ Goto(c, "insert")
        BY <2>1, <2>4 DEF Goto
    <2> QED
        BY <1>22, EraseEffects, <2>2, <2>3, <2>4
<1>23. ASSUME NEW c \in Programs, Insert(c) PROVE TypesInv'
    BY <1>23 DEF Insert, Reply
<1>24. ASSUME NEW c \in Programs, RemoveEntry(c) PROVE TypesInv'
    BY <1>24 DEF RemoveEntry, Reply
<1>25. ASSUME NEW f \in Fd, PeerCloses(f) PROVE TypesInv'
    BY <1>25 DEF PeerCloses
<1> QED
    BY <1>0, <1>1, <1>2, <1>3, <1>4, <1>5, <1>6, <1>7, <1>8, <1>9, <1>10, <1>11,
       <1>12, <1>13, <1>14, <1>15, <1>16, <1>17, <1>18, <1>19, <1>20, <1>21, <1>22,
       <1>23, <1>24, <1>25, <1>26, <1>27, <1>28 DEF Next, Requests, CloneSteps

\* With -s, every step keeps what the request relies on.
LEMMA RequestStep ==
    ASSUME Serial, TypesInv, RequestPlaced, TableSound, Counted, [Next]_vars
    PROVE  RequestPlaced' /\ TableSound'
<1> USE Descriptors DEF TypesInv, SessionTypes, JobsPlaced, RequestPlaced,
        TableSound, Connection
<1>0. CASE UNCHANGED vars
    BY <1>0 DEF vars
<1>1. ASSUME NEW c \in Programs, OpenClone(c)
      PROVE  RequestPlaced' /\ TableSound'
    <2>1. RequestPlaced'
        BY <1>1 DEF OpenClone, Start, Available, CloneStart
    <2>2. TableSound'
        BY <1>1 DEF OpenClone, Start, Available, CloneStart
    <2> QED
        BY <2>1, <2>2
<1>2. ASSUME NEW c \in Programs, Connect(c)
      PROVE  RequestPlaced' /\ TableSound'
    <2>1. RequestPlaced'
        BY LowestIsFree, <1>2 DEF Connect, Start, Available, File
    <2>2. TableSound'
        BY LowestIsFree, <1>2 DEF Connect, Start, Available, File
    <2> QED
        BY <2>1, <2>2
<1>3. ASSUME NEW c \in Programs, Announce(c)
      PROVE  RequestPlaced' /\ TableSound'
    <2>1. RequestPlaced'
        BY LowestIsFree, <1>3 DEF Announce, Start, Available, File
    <2>2. TableSound'
        BY LowestIsFree, <1>3 DEF Announce, Start, Available, File
    <2> QED
        BY <2>1, <2>2
<1>4. ASSUME NEW c \in Programs, AnnounceFails(c)
      PROVE  RequestPlaced' /\ TableSound'
    <2>1. RequestPlaced'
        BY LowestIsFree, <1>4 DEF AnnounceFails, Available
    <2>2. TableSound'
        BY LowestIsFree, <1>4 DEF AnnounceFails, Available
    <2> QED
        BY <2>1, <2>2
<1>5. ASSUME NEW c \in Programs, Hangup(c)
      PROVE  RequestPlaced' /\ TableSound'
    <2>1. RequestPlaced'
        BY <1>5 DEF Hangup, Start, Available, File
    <2>2. TableSound'
        BY <1>5 DEF Hangup, Start, Available, File
    <2> QED
        BY <2>1, <2>2
<1>6. ASSUME NEW c \in Programs, CloseCtl(c)
      PROVE  RequestPlaced' /\ TableSound'
    <2>1. RequestPlaced'
        BY <1>6 DEF CloseCtl, Available
    <2>2. TableSound'
        BY <1>6 DEF CloseCtl, Available
    <2> QED
        BY <2>1, <2>2
<1>7. ASSUME NEW c \in Programs, CloseData(c)
      PROVE  RequestPlaced' /\ TableSound'
    <2>1. RequestPlaced'
        BY <1>7 DEF CloseData, Available
    <2>2. TableSound'
        BY <1>7 DEF CloseData, Available
    <2> QED
        BY <2>1, <2>2
<1>8. ASSUME NEW c \in Programs, NEW n \in Session, Accept(c, n)
      PROVE  RequestPlaced' /\ TableSound'
    <2>1. RequestPlaced'
        BY LowestIsFree, <1>8 DEF Accept, Start, Available, CloneStart
    <2>2. TableSound'
        BY LowestIsFree, <1>8 DEF Accept, Start, Available, CloneStart
    <2> QED
        BY <2>1, <2>2
<1>9. ASSUME NEW c \in Programs, NEW n \in Session, Rmdir(c, n)
      PROVE  RequestPlaced' /\ TableSound'
    <2>1. RequestPlaced'
        BY <1>9 DEF Rmdir, Start, Available
    <2>2. TableSound'
        BY <1>9 DEF Rmdir, Start, Available
    <2> QED
        BY <2>1, <2>2
<1>28. ASSUME NEW c \in Programs, NEW n \in Session, Mkdir(c, n)
       PROVE  RequestPlaced' /\ TableSound'
    <2>1. RequestPlaced'
        BY <1>28 DEF Mkdir, Available
    <2>2. TableSound'
        BY <1>28 DEF Mkdir, Available
    <2> QED
        BY <2>1, <2>2
<1>10. ASSUME NEW c \in Programs, NEW n \in Session, OpenCtl(c, n)
       PROVE  RequestPlaced' /\ TableSound'
    <2>1. RequestPlaced'
        BY <1>10 DEF OpenCtl, Available, File
    <2>2. TableSound'
        BY <1>10 DEF OpenCtl, Available, File
    <2> QED
        BY <2>1, <2>2
<1>11. ASSUME NEW c \in Programs, NEW n \in Session, OpenData(c, n)
       PROVE  RequestPlaced' /\ TableSound'
    <2>1. RequestPlaced'
        BY <1>11 DEF OpenData, Available
    <2>2. TableSound'
        BY <1>11 DEF OpenData, Available
    <2> QED
        BY <2>1, <2>2
<1>12. ASSUME NEW c \in Programs, CloneAsk(c)
       PROVE  RequestPlaced' /\ TableSound'
    <2>1. RequestPlaced'
        BY <1>12 DEF CloneAsk, Goto, InUse
    <2>2. TableSound'
        BY <1>12 DEF CloneAsk, Goto, InUse
    <2> QED
        BY <2>1, <2>2
<1>13. ASSUME NEW c \in Programs, CloneTake(c)
       PROVE  RequestPlaced' /\ TableSound'
    <2>1. RequestPlaced'
        <3>1. CASE at[c] = "take"
            <4>1. \A d \in Programs : sess'[d] = sess[d]
                BY <1>13, <3>1 DEF CloneTake
            <4>2. sess[c] = current /\ current <= sess[c] /\ ~Connection(sess[c])
                BY <3>1, Sessions
            <4>3. /\ at' = [at EXCEPT ![c] = "store"]
                  /\ UNCHANGED <<current, dirs, byhand, table, os, job, newfd, ctl, data>>
                BY <1>13 DEF CloneTake
            <4> HIDE DEF Session
            <4> QED
                BY <3>1, <4>1, <4>2, <4>3
        <3>2. CASE at[c] = "advance"
            <4>1. sess[c]' = current + 1 /\ current \in Nat /\ dirs \subseteq Nat
                BY <1>13, <3>2, Sessions DEF CloneTake
            <4>2. sess[c]' \notin dirs \ byhand /\ current <= sess[c]'
                BY <4>1 DEF Counted
            <4>3. /\ \A d \in Programs \ {c} : sess'[d] = sess[d]
                  /\ at' = [at EXCEPT ![c] = "store"]
                  /\ UNCHANGED <<current, dirs, byhand, table, os, job, newfd, ctl, data>>
                BY <1>13 DEF CloneTake
            <4> HIDE DEF Session
            <4> QED
                BY <3>2, <4>2, <4>3
        <3> QED
            BY <1>13, <3>1, <3>2 DEF CloneTake
    <2>2. TableSound'
        BY <1>13 DEF CloneTake
    <2> QED
        BY <2>1, <2>2
<1>26. ASSUME NEW c \in Programs, CloneStore(c)
       PROVE  RequestPlaced' /\ TableSound'
    <2>1. RequestPlaced'
        BY <1>26 DEF CloneStore, Goto
    <2>2. TableSound'
        BY <1>26 DEF CloneStore, Goto
    <2> QED
        BY <2>1, <2>2
<1>27. ASSUME NEW c \in Programs, CloneConstruct(c)
       PROVE  RequestPlaced' /\ TableSound'
    <2>1. RequestPlaced'
        BY <1>27 DEF CloneConstruct
    <2>2. TableSound'
        BY <1>27 DEF CloneConstruct
    <2> QED
        BY <2>1, <2>2
<1>14. ASSUME NEW c \in Programs, CloneConfirm(c)
       PROVE  RequestPlaced' /\ TableSound'
    <2>1. RequestPlaced'
        BY <1>14 DEF CloneConfirm, Goto
    <2>2. TableSound'
        BY <1>14 DEF CloneConfirm, Goto
    <2> QED
        BY <2>1, <2>2
<1>15. ASSUME NEW c \in Programs, CloneMkdir(c)
       PROVE  RequestPlaced' /\ TableSound'
    <2>1. RequestPlaced'
        BY <1>15 DEF CloneMkdir
    <2>2. TableSound'
        BY <1>15 DEF CloneMkdir
    <2> QED
        BY <2>1, <2>2
<1>16. ASSUME NEW c \in Programs, CloneDone(c)
       PROVE  RequestPlaced' /\ TableSound'
    <2>1. RequestPlaced'
        BY <1>16 DEF CloneDone, Goto, Reply, File
    <2>2. TableSound'
        BY <1>16 DEF CloneDone, Goto, Reply, File
    <2> QED
        BY <2>1, <2>2
<1>17. ASSUME NEW c \in Programs, CloneThrows(c)
       PROVE  RequestPlaced' /\ TableSound'
    <2>1. RequestPlaced'
        <3>1. at[c] = "ask" /\ ~Valid(sess[c]) /\ sess[c] \in DOMAIN table
            BY <1>17 DEF CloneThrows, Valid
        <3> QED
            BY <3>1 DEF Valid
    <2>2. TableSound'
        BY <1>17 DEF CloneThrows, Reply
    <2> QED
        BY <2>1, <2>2
<1>18. ASSUME NEW c \in Programs, AcceptDropped(c)
       PROVE  RequestPlaced' /\ TableSound'
    <2>1. RequestPlaced'
        BY <1>18 DEF AcceptDropped, Reply
    <2>2. TableSound'
        BY <1>18 DEF AcceptDropped, Reply
    <2> QED
        BY <2>1, <2>2
<1>19. ASSUME NEW c \in Programs, Connected(c)
       PROVE  RequestPlaced' /\ TableSound'
    <2>1. RequestPlaced'
        BY <1>19 DEF Connected, Goto
    <2>2. TableSound'
        BY <1>19 DEF Connected, Goto
    <2> QED
        BY <2>1, <2>2
<1>20. ASSUME NEW c \in Programs, SocketFails(c)
       PROVE  RequestPlaced' /\ TableSound'
    <2>1. RequestPlaced'
        BY <1>20 DEF SocketFails, Reply
    <2>2. TableSound'
        BY <1>20 DEF SocketFails, Reply
    <2> QED
        BY <2>1, <2>2
<1>21. ASSUME NEW c \in Programs, CloseOld(c)
       PROVE  RequestPlaced' /\ TableSound'
    <2>1. RequestPlaced'
        BY <1>21 DEF CloseOld, Goto
    <2>2. TableSound'
        BY <1>21 DEF CloseOld, Goto
    <2> QED
        BY <2>1, <2>2
<1>22. ASSUME NEW c \in Programs, Erase(c)
       PROVE  RequestPlaced' /\ TableSound'
    <2> HIDE DEF RequestPlaced, TableSound
    <2>0. /\ at[c] = "erase"
          /\ DOMAIN table' = DOMAIN table \ {sess[c]}
          /\ \A m \in DOMAIN table' : table'[m] = table[m]
          /\ UNCHANGED <<current, dirs, byhand, os, ctl, data>>
        BY <1>22, EraseEffects
    <2>1. /\ at[c] = "erase" /\ sess[c] \notin DOMAIN table'
          /\ DOMAIN table' \subseteq DOMAIN table
          /\ \A m \in DOMAIN table : m # sess[c] => m \in DOMAIN table'
          /\ \A m \in DOMAIN table' : table'[m] = table[m]
          /\ UNCHANGED <<current, dirs, byhand, os, ctl, data>>
        BY <2>0
    <2> USE DEF RequestPlaced, TableSound
    <2>2. \/ Reply(c)
          \/ job[c] = "rmdir" /\ Goto(c, "remove_entry")
          \/ job[c] \notin {"idle", "clone", "hangup", "rmdir"} /\ Goto(c, "insert")
        BY <1>22, EraseEffects
    <2>3. \A d \in Programs : d # c => job[d] = "idle" /\ at[d] = "idle"
        BY <2>1
    <2>4. /\ \A d \in Programs : d # c => job'[d] = "idle" /\ at'[d] = "idle"
          /\ \A d \in Programs : newfd'[d] \in {newfd[d], None}
          /\ \A d \in Programs : job'[d] = "idle" => newfd'[d] = None
          /\ at'[c] \in {"idle", "remove_entry", "insert"}
          /\ at'[c] = "insert" => sess'[c] = sess[c]
        BY <2>2, <2>3 DEF Goto, Reply
    <2>5. RequestPlaced'
        BY <2>1, <2>4
    <2>6. TableSound'
        BY <2>1, <2>3
    <2> QED
        BY <2>5, <2>6
<1>23. ASSUME NEW c \in Programs, Insert(c)
       PROVE  RequestPlaced' /\ TableSound'
    <2>1. /\ at[c] = "insert" /\ sess[c] \notin DOMAIN table
          /\ DOMAIN table' = DOMAIN table \union {sess[c]}
          /\ \A m \in DOMAIN table : table'[m] = table[m]
          /\ table'[sess[c]] = newfd[c] /\ newfd[c] \in Fd
          /\ UNCHANGED <<current, dirs, byhand, os, ctl, data>>
          /\ Reply(c)
        BY <1>23, InsertEffects
    <2>2. \A d \in Programs : d # c => job[d] = "idle" /\ at[d] = "idle"
        BY <2>1
    <2>3. \A d \in Programs : job'[d] = "idle" /\ at'[d] = "idle" /\ newfd'[d] = None
        BY <2>1, <2>2 DEF Reply
    <2>4. os[newfd[c]] # "free" /\ \A m \in DOMAIN table : table[m] # newfd[c]
        BY <2>1
    <2>5. RequestPlaced'
        BY <2>1, <2>3
    <2>6. TableSound'
        BY <2>1, <2>2, <2>4
    <2> QED
        BY <2>5, <2>6
<1>24. ASSUME NEW c \in Programs, RemoveEntry(c)
       PROVE  RequestPlaced' /\ TableSound'
    <2>1. RequestPlaced'
        BY <1>24 DEF RemoveEntry, Reply
    <2>2. TableSound'
        BY <1>24 DEF RemoveEntry, Reply
    <2> QED
        BY <2>1, <2>2
<1>25. ASSUME NEW f \in Fd, PeerCloses(f) PROVE RequestPlaced' /\ TableSound'
    <2>1. RequestPlaced'
        BY <1>25 DEF PeerCloses
    <2>2. TableSound'
        BY <1>25 DEF PeerCloses
    <2> QED
        BY <2>1, <2>2
<1> QED
    BY <1>0, <1>1, <1>2, <1>3, <1>4, <1>5, <1>6, <1>7, <1>8, <1>9, <1>10, <1>11,
       <1>12, <1>13, <1>14, <1>15, <1>16, <1>17, <1>18, <1>19, <1>20, <1>21, <1>22,
       <1>23, <1>24, <1>25, <1>26, <1>27, <1>28 DEF Next, Requests, CloneSteps

\* With -s only a store moves the counter, and it moves it forwards; clone makes the
\* directory of the session it stands at.
LEMMA CountedStep ==
    ASSUME Serial, TypesInv, RequestPlaced, Counted, [Next]_vars
    PROVE  Counted'
<1> USE Sessions DEF Counted
<1>1. CASE UNCHANGED <<current, dirs, byhand>>
    BY <1>1
<1>2. ASSUME NEW c \in Programs, CloneStore(c) PROVE Counted'
    <2>1. current' = sess[c] /\ current <= sess[c] /\ UNCHANGED <<dirs, byhand>>
        BY <1>2 DEF CloneStore, RequestPlaced
    <2>2. current \in Nat /\ sess[c] \in Nat /\ dirs \subseteq Nat
        BY <1>2 DEF CloneStore, TypesInv, SessionTypes
    <2> QED
        BY <2>1, <2>2
<1>3. ASSUME NEW c \in Programs, CloneMkdir(c) PROVE Counted'
    <2>1. sess[c] = current /\ current \in Nat
        BY <1>3 DEF CloneMkdir, RequestPlaced, TypesInv, SessionTypes
    <2> QED
        BY <1>3, <2>1 DEF CloneMkdir
<1>4. ASSUME NEW c \in Programs, NEW n \in Session, Mkdir(c, n) PROVE Counted'
    BY <1>4 DEF Mkdir
<1>5. ASSUME NEW c \in Programs, RemoveEntry(c) PROVE Counted'
    BY <1>5 DEF RemoveEntry
<1>6. ASSUME NEW c \in Programs,
             \/ OpenClone(c) \/ Connect(c) \/ Announce(c) \/ AnnounceFails(c) \/ Hangup(c)
             \/ CloseCtl(c) \/ CloseData(c)
             \/ \E n \in Session : Accept(c, n) \/ Rmdir(c, n)
             \/ \E n \in Session : OpenCtl(c, n) \/ OpenData(c, n)
      PROVE  UNCHANGED <<current, dirs, byhand>>
    BY <1>6 DEF OpenClone, Connect, Announce, AnnounceFails, Hangup, CloseCtl,
           CloseData,
           Accept, Rmdir, OpenCtl, OpenData
<1>7. ASSUME NEW c \in Programs,
             \/ CloneAsk(c) \/ CloneTake(c) \/ CloneConstruct(c) \/ CloneConfirm(c)
             \/ CloneDone(c) \/ CloneThrows(c) \/ AcceptDropped(c)
             \/ Connected(c) \/ SocketFails(c) \/ CloseOld(c) \/ Erase(c) \/ Insert(c)
      PROVE  UNCHANGED <<current, dirs, byhand>>
    BY <1>7 DEF CloneAsk, CloneTake, CloneConstruct, CloneConfirm, CloneDone,
           CloneThrows, AcceptDropped, Connected, SocketFails, CloseOld, Erase,
               Insert
<1>8. ASSUME NEW f \in Fd, PeerCloses(f) PROVE UNCHANGED <<current, dirs, byhand>>
    BY <1>8 DEF PeerCloses
<1>9. CASE UNCHANGED vars
    BY <1>1, <1>9 DEF vars
<1> QED
    BY <1>1, <1>2, <1>3, <1>4, <1>5, <1>6, <1>7, <1>8, <1>9
       DEF Next, Requests, CloneSteps

\* With -s the request that is served keeps its part of the table, the table is sound,
\* and the counter goes forwards.
LEMMA SerialStep == AllInv /\ [Next]_vars => AllInv'
<1> SUFFICES ASSUME AllInv, [Next]_vars PROVE AllInv'
    OBVIOUS
<1>1. TypesInv'
    BY TypesStep DEF AllInv
<1>2. Serial => RequestPlaced' /\ TableSound' /\ Counted'
    BY RequestStep, CountedStep DEF AllInv, SerialInv
<1> QED
    BY <1>1, <1>2 DEF AllInv, SerialInv

\* The invariant holds when the file system is mounted.
LEMMA SerialInit == Init => AllInv
<1> SUFFICES ASSUME Init PROVE AllInv
    OBVIOUS
<1>1. DOMAIN table = {}
    BY DEF Init
<1> QED
    BY <1>1, TypesInit DEF Init, AllInv, SerialInv, RequestPlaced, TableSound,
           Counted

\* A file of the table is a session's, and the invariant includes the types.
LEMMA TypesAreCorrect == TypesInv => TypeOK
BY DEF TypesInv, SessionTypes, TypeOK

\* The variables have their types, with and without -s.
THEOREM SessionTypesHold == Spec => []TypeOK
BY TypesInit, TypesStep, TypesAreCorrect, PTL DEF Spec

\* Mounted with -s, the counter is not behind the directories clone made, nor behind the
\* session a handler is about to open, whatever directories programs make and remove.
THEOREM CounterNotBehindHolds == Spec => []CounterNotBehind
<1>1. AllInv => CounterNotBehind
    <2> SUFFICES ASSUME AllInv, Serial PROVE
            /\ \A n \in dirs \ byhand : n <= current
            /\ \A c \in Programs : at[c] \in {"confirm", "mkdir", "open_ctl"} =>
                   sess[c] <= current
        BY DEF CounterNotBehind
    <2>1. current \in Nat
        BY Sessions DEF AllInv, TypesInv, SessionTypes
    <2> QED
        BY <2>1 DEF AllInv, SerialInv, Counted, RequestPlaced
<1> QED
    BY SerialInit, SerialStep, <1>1, PTL DEF Spec

\* Mounted with -s, the table never has a descriptor that is closed, but for the moment
\* of its exchange, or one descriptor for two sessions.
THEOREM TableSoundHolds == Spec => [](Serial => TableSound)
<1>1. AllInv => (Serial => TableSound)
    BY DEF AllInv, SerialInv
<1> QED
    BY SerialInit, SerialStep, <1>1, PTL DEF Spec

\* A step that closes a connection is one of those that may.
LEMMA OnlyThoseClose ==
    ASSUME Serial, TypesInv, RequestPlaced, TableSound, Next,
           NEW f \in Fd, os[f] = "connected", os'[f] = "free"
    PROVE  \E c \in Programs :
              at[c] = "close_old" /\ at'[c] # at[c] /\ MayDisconnect(c)
<1> USE DEF TypesInv, SessionTypes
<1>1. \A s \in {"other", "connected", "listening"}, x \in Fd :
         os' = [os EXCEPT ![x] = s] => os'[f] # "free"
    OBVIOUS
<1>2. ASSUME NEW c \in Programs, Requests(c) PROVE FALSE
    <2>1. os' = os \/ \E s \in {"other", "connected", "listening"}, x \in Fd :
              os' = [os EXCEPT ![x] = s]
        BY <1>2, LowestIsFree DEF Requests, OpenClone, Connect, Announce,
               AnnounceFails,
               Hangup, CloseCtl, CloseData, Accept, Mkdir, Rmdir, OpenCtl, OpenData
    <2> QED
        BY <2>1, <1>1
<1>3. ASSUME NEW c \in Programs, CloneSteps(c) PROVE FALSE
    <2>1. CASE CloneThrows(c)
        BY <2>1 DEF CloneThrows, RequestPlaced, TableSound, Valid
    <2>2. CASE ~CloneThrows(c)
        BY <1>3, <2>2 DEF CloneSteps, CloneAsk, CloneTake, CloneStore,
               CloneConstruct,
               CloneConfirm, CloneMkdir,
               CloneDone, AcceptDropped
    <2> QED
        BY <2>1, <2>2
<1>4. ASSUME NEW c \in Programs,
             \/ Connected(c) \/ SocketFails(c) \/ Erase(c) \/ Insert(c) \/ RemoveEntry(c)
      PROVE  FALSE
    <2>1. Connected(c) => newfd[c] \in Fd
        BY DEF Connected, JobsPlaced
    <2> QED
        BY <1>1, <1>4, <2>1 DEF Connected, SocketFails, Erase, Insert, RemoveEntry
<1>5. ASSUME NEW c \in Programs, CloseOld(c)
      PROVE  at[c] = "close_old" /\ at'[c] # at[c] /\ MayDisconnect(c)
    <2>1. at[c] = "close_old" /\ at'[c] \in {"erase", "insert"}
        BY <1>5 DEF CloseOld, Goto
    <2>2. sess[c] \in DOMAIN table /\ f = table[sess[c]]
        BY <1>5 DEF CloseOld
    <2>3. Connection(sess[c])
        BY <2>2 DEF Connection
    <2>4. /\ job[c] \notin {"connect", "clone", "idle"}
          /\ job[c] = "accept" => sess[c] \in byhand
        BY <2>1, <2>3 DEF RequestPlaced, JobsPlaced
    <2> QED
        BY <2>1, <2>4 DEF Jobs, MayDisconnect
<1>6. ASSUME NEW g \in Fd, PeerCloses(g) PROVE FALSE
    BY <1>1, <1>6 DEF PeerCloses
<1> QED
    BY <1>2, <1>3, <1>4, <1>5, <1>6 DEF Next

\* Mounted with -s, an established connection is closed by a hangup, an announcement, a
\* rmdir, or an accepted connection that is given a session without a directory or with
\* one that a program made, and by nothing else.
THEOREM ConnectionsKeptHolds == Spec => ConnectionsKept
<1> DEFINE Kept == Serial => \A f \in Fd : os[f] = "connected" /\ os'[f] = "free" =>
                      \E c \in Programs :
                          at[c] = "close_old" /\ at'[c] # at[c] /\ MayDisconnect(c)
<1>1. AllInv /\ [Next]_vars => [Kept]_vars
    BY OnlyThoseClose DEF AllInv, SerialInv, vars
<1>2. ConnectionsKept <=> [][Kept]_vars
    BY DEF ConnectionsKept
<1> HIDE DEF Kept
<1> QED
    BY SerialInit, SerialStep, <1>1, <1>2, PTL DEF Spec
=============================================================================
