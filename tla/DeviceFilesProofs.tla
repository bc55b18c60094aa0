-------------------------- MODULE DeviceFilesProofs --------------------------
(* Proofs about DeviceFiles, for every set of programs, of paths and of         *)
(* descriptors: every file has its own socket, and nothing but failed attempts  *)
(* leaves a descriptor open.                                                    *)
EXTENDS DeviceFiles, OrderTheorems, TLAPS

\* The steps of the handlers that make a path, and of those that change the directory.
Making == {"socket", "connecting", "insert"}
Changing == Making \union {"unlinking", "erasing"}

\* What a handler works with, from one of its steps to the next.
HandlersPlaced ==
    \A c \in Programs :
        /\ at[c] # "idle" => path[c] \in Paths
        /\ at[c] \in Making => path[c] \in entries
        /\ at[c] \in {"socket", "connecting"} => path[c] \in Clients /\ tries[c] # 0
        /\ at[c] = "connecting" => fd[c] \in Fd /\ os[fd[c]] = Socket(path[c], "new")
        /\ at[c] = "insert" => fd[c] \in Fd /\ os[fd[c]] = Socket(path[c], UseOf(path[c]))
        /\ at[c] \in {"unlinking", "erasing"} => path[c] \in DOMAIN table
        /\ at[c] = "accepting" =>
              /\ path[c] \in Servers \intersect DOMAIN table /\ fd[c] = table[path[c]]
              /\ file[c] = None

\* The kernel's lock of the directory, carried through the handlers.
OneChanges ==
    \A c, d \in Programs : at[c] \in Changing /\ at[d] \in Changing => c = d

\* The paths in the table are the entries but the one that is being made.
EntriesTabled ==
    \A p \in Paths :
        p \in DOMAIN table <=>
            p \in entries /\ \A c \in Programs : at[c] \in Making => path[c] # p

\* A client file that is open is still in the table, with the descriptor the open
\* file has; what is being erased is neither open nor waiting in accept(2).
FilesPlaced ==
    /\ \A c \in Programs : file[c] # None /\ file[c].path \in Clients =>
          file[c].path \in DOMAIN table /\ file[c].fd = table[file[c].path]
    /\ \A c, d \in Programs : at[c] = "erasing" =>
          /\ file[d] # None => file[d].path # path[c]
          /\ at[d] = "accepting" => path[d] # path[c]

\* Who knows a descriptor: the table, an open file, or a handler that is making a path.
InTable(f) == \E p \in DOMAIN table : ~Erasing(p) /\ table[p] = f
InFile(f) == \E c \in Programs : file[c] # None /\ file[c].fd = f
InHand(f) == \E c \in Programs : at[c] \in {"connecting", "insert"} /\ fd[c] = f

\* A descriptor is open exactly as long as one of them knows it or it is lost, and what
\* is lost none of them knows.
DescriptorsKnown ==
    \A f \in Fd :
        /\ os[f] # Free <=> InTable(f) \/ InFile(f) \/ InHand(f) \/ f \in lost
        /\ f \in lost => /\ ~InTable(f) /\ ~InFile(f) /\ ~InHand(f)
                        /\ os[f].as \in {"new", "connected"}

DeviceInv ==
    /\ TypeOK
    /\ HandlersPlaced
    /\ OneChanges
    /\ EntriesTabled
    /\ FilesPlaced
    /\ OwnSocket
    /\ DescriptorsKnown
-----------------------------------------------------------------------------
\* socket(2) and accept(2) return a descriptor that nobody has.
LEMMA LowestIsFree ==
    ASSUME FreeFds # {}
    PROVE  LowestFree \in Fd /\ os[LowestFree] = Free
BY MinIsMember, DeviceAssumption DEF LowestFree, FreeFds, Fd

\* What the descriptors of the table and of the open files are.
LEMMA OpenSockets ==
    ASSUME DeviceInv
    PROVE  /\ \A p \in DOMAIN table : ~Erasing(p) =>
                /\ table[p] \in Fd /\ os[table[p]] # Free
                /\ os[table[p]].of = p /\ os[table[p]].as = UseOf(p)
           /\ \A c \in Programs : file[c] # None =>
                /\ file[c] \in File /\ os[file[c].fd] # Free
                /\ os[file[c].fd].of = file[c].path
                /\ os[file[c].fd].as = IF file[c].path \in Clients THEN "connected"
                                       ELSE IF file[c].path \in Servers THEN "accepted"
                                            ELSE "packet"
           /\ \A c \in Programs : at[c] \in {"connecting", "insert"} =>
                fd[c] \in Fd /\ os[fd[c]].as \in {"new", "connected", "listening"}
<1> USE DEF DeviceInv
<1>1. \A p, u : /\ Socket(p, u).of = p /\ Socket(p, u).as = u
                /\ u # "free" => Socket(p, u) # Free
    BY DEF Socket, Free
<1>2. \A p : UseOf(p) \in {"connected", "listening"}
    BY DEF UseOf
<1>3. ASSUME NEW p \in DOMAIN table, ~Erasing(p)
      PROVE  /\ table[p] \in Fd /\ os[table[p]] # Free
             /\ os[table[p]].of = p /\ os[table[p]].as = UseOf(p)
    BY <1>1, <1>2, <1>3 DEF OwnSocket, TypeOK
<1>4. ASSUME NEW c \in Programs, file[c] # None
      PROVE  /\ file[c] \in File /\ os[file[c].fd] # Free
             /\ os[file[c].fd].of = file[c].path
             /\ os[file[c].fd].as = IF file[c].path \in Clients THEN "connected"
                                    ELSE IF file[c].path \in Servers THEN "accepted"
                                         ELSE "packet"
    BY <1>1, <1>4 DEF OwnSocket, TypeOK
<1>5. ASSUME NEW c \in Programs, at[c] \in {"connecting", "insert"}
      PROVE  fd[c] \in Fd /\ os[fd[c]].as \in {"new", "connected", "listening"}
    BY <1>1, <1>2, <1>5 DEF HandlersPlaced
<1> QED
    BY <1>3, <1>4, <1>5

\* The invariant holds when the file system is mounted.
LEMMA DeviceInit == Init => DeviceInv
<1> SUFFICES ASSUME Init PROVE DeviceInv
    OBVIOUS
<1> USE DeviceAssumption DEF Init
<1>0. DOMAIN table = {}
    OBVIOUS
<1>1. TypeOK
    BY <1>0 DEF TypeOK, Steps, File
<1>2. HandlersPlaced /\ OneChanges /\ EntriesTabled /\ FilesPlaced
    BY <1>0 DEF HandlersPlaced, OneChanges, EntriesTabled, FilesPlaced, Making,
           Changing
<1>3. OwnSocket /\ DescriptorsKnown
    BY <1>0 DEF OwnSocket, DescriptorsKnown, InTable, InFile, InHand, Free
<1> QED
    BY <1>1, <1>2, <1>3 DEF DeviceInv

\* fd_table::erase, on the table as a function.
LEMMA TableErase ==
    ASSUME NEW t, NEW p
    PROVE  Restrict(t, DOMAIN t \ {p}) = [q \in DOMAIN t \ {p} |-> t[q]]
BY DEF Restrict

\* An open that makes a socket of its own: the other files keep theirs, and the
\* new one is nobody else's.
LEMMA NewSocketIsOwn ==
    ASSUME DeviceInv, NEW c \in Programs, file[c] = None,
           NEW p \in Servers \union Packets, FreeFds # {},
           os' = [os EXCEPT ![LowestFree] =
                     Socket(p, IF p \in Servers THEN "accepted" ELSE "packet")],
           file' = [file EXCEPT ![c] = [path |-> p, fd |-> LowestFree]],
           \A q : Erasing(q)' <=> Erasing(q),
           \A f \in Fd : InHand(f)' <=> InHand(f),
           table' = table, lost' = lost
    PROVE  OwnSocket' /\ DescriptorsKnown'
<1> DEFINE f0 == LowestFree
           s0 == Socket(p, IF p \in Servers THEN "accepted" ELSE "packet")
<1>1. f0 \in Fd /\ os[f0] = Free
    BY LowestIsFree
<1>2. /\ os'[f0] = s0 /\ s0 # Free /\ \A f \in Fd : f # f0 => os'[f] = os[f]
    BY <1>1 DEF Socket, Free, DeviceInv, TypeOK
<1>3. /\ file'[c] = [path |-> p, fd |-> f0]
      /\ \A d \in Programs : d # c => file'[d] = file[d]
    BY DEF DeviceInv, TypeOK
<1>4. p \notin Clients /\ file'[c] # None
    BY <1>1, <1>3, DeviceAssumption DEF Paths, Fd
<1>5. \A q \in DOMAIN table : ~Erasing(q) => table[q] # f0
    BY <1>1, OpenSockets
<1>6. \A d \in Programs : file[d] # None => file[d].fd # f0 /\ file[d] \in File
    BY <1>1, OpenSockets
<1> HIDE DEF f0, s0
<1>7. OwnSocket'
    <2>1. \A q \in DOMAIN table' : ~Erasing(q)' => os'[table'[q]] = Socket(q, UseOf(q))
        BY <1>2, <1>5, OpenSockets DEF DeviceInv, OwnSocket
    <2>2. ASSUME NEW d \in Programs, file'[d] # None
          PROVE  os'[file'[d].fd] = Socket(file'[d].path,
                     IF file'[d].path \in Clients THEN "connected"
                     ELSE IF file'[d].path \in Servers THEN "accepted" ELSE "packet")
        <3>1. CASE d = c
            BY <3>1, <1>2, <1>3, <1>4 DEF s0
        <3>2. CASE d # c
            BY <3>2, <2>2, <1>2, <1>3, <1>6 DEF DeviceInv, OwnSocket, File
        <3> QED
            BY <3>1, <3>2
    <2>3. ASSUME NEW d \in Programs, NEW e \in Programs, d # e, file'[d] # None,
                 file'[e] # None, file'[d].fd = file'[e].fd
          PROVE  file'[d] = file'[e] /\ file'[d].path \in Clients
        BY <2>3, <1>3, <1>6 DEF DeviceInv, OwnSocket
    <2> QED
        BY <2>1, <2>2, <2>3 DEF OwnSocket, UseOf
<1>8. DescriptorsKnown'
    <2>1. \A f \in Fd : InTable(f)' <=> InTable(f)
        BY DEF InTable
    <2>2. \A f \in Fd : InFile(f)' <=> InFile(f) \/ f = f0
        BY <1>3, <1>4 DEF InFile
    <2>3. f0 \notin lost /\ ~InTable(f0) /\ ~InHand(f0)
        BY <1>1 DEF DeviceInv, DescriptorsKnown
    <2> QED
        BY <2>1, <2>2, <2>3, <1>1, <1>2 DEF DeviceInv, DescriptorsKnown
<1> QED
    BY <1>7, <1>8

\* mknod of a client: the path becomes an entry, the handler still has no socket.
LEMMA MakeClientKeeps ==
    ASSUME DeviceInv, NEW c \in Programs, NEW p \in Clients,
           NEW n \in 1 .. MaxAddresses, MakeClient(c, p, n)
    PROVE  DeviceInv'
<1> USE DeviceAssumption DEF DeviceInv, MakeClient, Goto, Steps, Uses, File, Paths,
        Making, Changing
<1>1. TypeOK'
    BY DEF TypeOK, HandlersPlaced, Socket, Free
<1>2. HandlersPlaced'
    BY DEF HandlersPlaced, TypeOK, OneChanges, DirectoryFree, EntriesTabled,
           OwnSocket, UseOf, Socket, Free, Erasing
<1>3. OneChanges'
    BY DEF OneChanges, TypeOK, DirectoryFree
<1>4. EntriesTabled'
    BY DEF EntriesTabled, TypeOK, HandlersPlaced, OneChanges, DirectoryFree
<1>5. FilesPlaced'
    BY DEF FilesPlaced, TypeOK, HandlersPlaced, OneChanges, DirectoryFree, IsOpen
<1>6. OwnSocket'
    BY DEF OwnSocket, TypeOK, HandlersPlaced, FilesPlaced, Erasing, OneChanges,
           Socket, Free, UseOf, IsOpen
<1>7. DescriptorsKnown'
    BY DEF DescriptorsKnown, InTable, InFile, InHand, TypeOK, HandlersPlaced,
           OneChanges, OwnSocket, FilesPlaced, Erasing, Socket, Free, UseOf, IsOpen
<1> QED
    BY <1>1, <1>2, <1>3, <1>4, <1>5, <1>6, <1>7

\* The next address: the free descriptor is in the hand of this handler alone.
LEMMA NextSocketKeeps ==
    ASSUME DeviceInv, NEW c \in Programs, NextSocket(c)
    PROVE  DeviceInv'
<1> USE DeviceAssumption DEF DeviceInv, NextSocket, Goto, Steps, Uses, File, Paths,
        Making, Changing
<1>1. TypeOK'
    BY LowestIsFree DEF TypeOK, HandlersPlaced, Socket, Free
<1>2. HandlersPlaced'
    BY LowestIsFree DEF HandlersPlaced, TypeOK, OneChanges, EntriesTabled,
           OwnSocket, UseOf, Socket, Free, Erasing
<1>3. OneChanges'
    BY LowestIsFree DEF OneChanges, TypeOK
<1>4. EntriesTabled'
    BY LowestIsFree DEF EntriesTabled, TypeOK, HandlersPlaced, OneChanges
<1>5. FilesPlaced'
    BY LowestIsFree DEF FilesPlaced, TypeOK, HandlersPlaced, OneChanges, IsOpen
<1>6. OwnSocket'
    BY LowestIsFree DEF OwnSocket, TypeOK, HandlersPlaced, FilesPlaced, Erasing,
           OneChanges, Socket, Free, UseOf, IsOpen
<1>7. DescriptorsKnown'
    BY LowestIsFree DEF DescriptorsKnown, InTable, InFile, InHand, TypeOK,
           HandlersPlaced, OneChanges, OwnSocket, FilesPlaced, Erasing, Socket,
       Free, UseOf, IsOpen
<1> QED
    BY <1>1, <1>2, <1>3, <1>4, <1>5, <1>6, <1>7

\* No descriptor for the next address: the entry goes, the table has not had it.
LEMMA NoSocketKeeps ==
    ASSUME DeviceInv, NEW c \in Programs, NoSocket(c)
    PROVE  DeviceInv'
<1> USE DeviceAssumption DEF DeviceInv, NoSocket, Goto, Reply, MknodThrows, Steps,
        Uses, File, Paths, Making, Changing
<1>1. TypeOK'
    BY DEF TypeOK, HandlersPlaced, Socket, Free
<1>2. HandlersPlaced'
    BY DEF HandlersPlaced, TypeOK, OneChanges, EntriesTabled, OwnSocket, UseOf,
           Socket, Free, Erasing
<1>3. OneChanges'
    BY DEF OneChanges, TypeOK
<1>4. EntriesTabled'
    BY DEF EntriesTabled, TypeOK, HandlersPlaced, OneChanges
<1>5. FilesPlaced'
    BY DEF FilesPlaced, TypeOK, HandlersPlaced, OneChanges, IsOpen
<1>6. OwnSocket'
    BY DEF OwnSocket, TypeOK, HandlersPlaced, FilesPlaced, Erasing, OneChanges,
           Socket, Free, UseOf, IsOpen
<1>7. DescriptorsKnown'
    BY DEF DescriptorsKnown, InTable, InFile, InHand, TypeOK, HandlersPlaced,
           OneChanges, OwnSocket, FilesPlaced, Erasing, Socket, Free, UseOf, IsOpen
<1> QED
    BY <1>1, <1>2, <1>3, <1>4, <1>5, <1>6, <1>7

\* An address does not answer: its descriptor is lost and the handler goes on.
LEMMA GoesOnKeeps ==
    ASSUME DeviceInv, NEW c \in Programs, GoesOn(c)
    PROVE  DeviceInv'
<1>a. /\ at[c] = "connecting" /\ tries[c] \in 2 .. MaxAddresses
      /\ path[c] \in Clients \intersect entries
      /\ fd[c] \in Fd /\ os[fd[c]] = Socket(path[c], "new")
    BY DeviceAssumption DEF GoesOn, DeviceInv, TypeOK, HandlersPlaced, Making
<1>b. os' \in {os, [os EXCEPT ![fd[c]] = Socket(path[c], "connected")]}
    BY <1>a DEF GoesOn, Socket, DeviceInv, TypeOK
<1>c. /\ lost' = lost \union {fd[c]}
      /\ Goto(c, "socket", path[c], None, tries[c] - 1)
      /\ UNCHANGED <<entries, table, pending, file>>
    BY DEF GoesOn
<1> USE <1>a, <1>b, <1>c, DeviceAssumption
    DEF DeviceInv, Goto, Steps, Uses, File, Paths, Making, Changing
<1>1. TypeOK'
    <2>1. os' \in [Fd -> {Free} \union [of : Paths \union Packets, as : Uses]]
        BY DEF TypeOK, Socket
    <2>2. /\ at' \in [Programs -> Steps] /\ tries' \in [Programs -> 0 .. MaxAddresses]
          /\ path' \in [Programs -> Paths \union {None}]
          /\ fd' \in [Programs -> Fd \union {None}]
        BY DEF TypeOK
    <2> QED
        BY <2>1, <2>2 DEF TypeOK
<1>2. HandlersPlaced'
    BY DEF HandlersPlaced, TypeOK, OneChanges, EntriesTabled, OwnSocket, UseOf,
           Socket, Free, Erasing
<1>3. OneChanges'
    BY DEF OneChanges, TypeOK
<1>4. EntriesTabled'
    BY DEF EntriesTabled, TypeOK, HandlersPlaced, OneChanges
<1>5. FilesPlaced'
    BY DEF FilesPlaced, TypeOK, HandlersPlaced, OneChanges, IsOpen
<1>6. OwnSocket'
    BY DEF OwnSocket, TypeOK, HandlersPlaced, FilesPlaced, Erasing, OneChanges,
           Socket, Free, UseOf, IsOpen
<1>7. DescriptorsKnown'
    <2>1. \A f \in Fd : (InTable(f)' <=> InTable(f)) /\ (InFile(f)' <=> InFile(f))
        BY DEF InTable, InFile, Erasing, TypeOK
    <2>2. \A f \in Fd : InHand(f)' <=> InHand(f) /\ f # fd[c]
        BY DEF InHand, OneChanges, TypeOK
    <2>3. InHand(fd[c]) /\ ~InTable(fd[c]) /\ ~InFile(fd[c])
        BY OpenSockets DEF InHand, InTable, InFile, Socket, UseOf
    <2>4. /\ \A f \in Fd : f # fd[c] => os'[f] = os[f]
          /\ os'[fd[c]].as \in {"new", "connected"} /\ os'[fd[c]] # Free
        BY DEF TypeOK, Socket, Free
    <2> QED
        BY <2>1, <2>2, <2>3, <2>4 DEF DescriptorsKnown, TypeOK
<1> QED
    BY <1>1, <1>2, <1>3, <1>4, <1>5, <1>6, <1>7

\* An address answers: the descriptor stays in the hand until it is inserted.
LEMMA ConnectedKeeps ==
    ASSUME DeviceInv, NEW c \in Programs, Connected(c)
    PROVE  DeviceInv'
<1>a. /\ at[c] = "connecting"
      /\ path[c] \in Clients \intersect entries
      /\ fd[c] \in Fd /\ os[fd[c]] = Socket(path[c], "new")
    BY DEF Connected, DeviceInv, HandlersPlaced, Making
<1>b. os' = [os EXCEPT ![fd[c]] = Socket(path[c], "connected")]
    <2>1. [os[fd[c]] EXCEPT !.as = "connected"] = Socket(path[c], "connected")
        BY <1>a DEF Socket
    <2> QED
        BY <2>1 DEF Connected
<1>c. /\ Goto(c, "insert", path[c], fd[c], 0)
      /\ UNCHANGED <<entries, table, pending, file, lost>>
    BY DEF Connected
<1> USE <1>a, <1>b, <1>c, DeviceAssumption
    DEF DeviceInv, Goto, Steps, Uses, File, Paths, Making, Changing
<1>1. TypeOK'
    BY DEF TypeOK, HandlersPlaced, Socket, Free
<1>2. HandlersPlaced'
    BY DEF HandlersPlaced, TypeOK, OneChanges, EntriesTabled, OwnSocket, UseOf,
           Socket, Free, Erasing
<1>3. OneChanges'
    BY DEF OneChanges, TypeOK
<1>4. EntriesTabled'
    BY DEF EntriesTabled, TypeOK, HandlersPlaced, OneChanges
<1>5. FilesPlaced'
    BY DEF FilesPlaced, TypeOK, HandlersPlaced, OneChanges, IsOpen
<1>6. OwnSocket'
    BY DEF OwnSocket, TypeOK, HandlersPlaced, FilesPlaced, Erasing, OneChanges,
           Socket, Free, UseOf, IsOpen
<1>7. DescriptorsKnown'
    <2>1. \A f \in Fd : (InTable(f)' <=> InTable(f)) /\ (InFile(f)' <=> InFile(f))
        BY DEF InTable, InFile, Erasing, TypeOK
    <2>2. \A f \in Fd : InHand(f)' <=> InHand(f)
        BY DEF InHand, OneChanges, TypeOK
    <2>3. \A f \in Fd : f # fd[c] => os'[f] = os[f]
        BY DEF TypeOK
    <2>4. os'[fd[c]] = Socket(path[c], "connected")
        BY DEF TypeOK
    <2>5. InHand(fd[c])
        BY DEF InHand, TypeOK
    <2> QED
        BY <2>1, <2>2, <2>3, <2>4, <2>5, <1>1
           DEF DescriptorsKnown, TypeOK, Socket, Free, UseOf
<1> QED
    BY <1>1, <1>2, <1>3, <1>4, <1>5, <1>6, <1>7

\* The last address does not answer: the descriptor is lost, the entry goes.
LEMMA ConnectFailsKeeps ==
    ASSUME DeviceInv, NEW c \in Programs, ConnectFails(c)
    PROVE  DeviceInv'
<1>a. /\ at[c] = "connecting"
      /\ path[c] \in Clients \intersect entries
      /\ fd[c] \in Fd /\ os[fd[c]] = Socket(path[c], "new")
    BY DEF ConnectFails, DeviceInv, HandlersPlaced, Making
<1>b. lost' = lost \union {fd[c]} /\ entries' = entries \ {path[c]}
    BY DEF ConnectFails, MknodThrows
<1>c. Reply(c) /\ UNCHANGED <<table, os, pending, file>>
    BY DEF ConnectFails, MknodThrows
<1> USE <1>a, <1>b, <1>c, DeviceAssumption
    DEF DeviceInv, Goto, Reply, MknodThrows, Steps, Uses, File, Paths, Making,
        Changing
<1>1. TypeOK'
    BY DEF TypeOK, HandlersPlaced, Socket, Free
<1>2. HandlersPlaced'
    BY DEF HandlersPlaced, TypeOK, OneChanges, EntriesTabled, OwnSocket, UseOf,
           Socket, Free, Erasing
<1>3. OneChanges'
    BY DEF OneChanges, TypeOK
<1>4. EntriesTabled'
    BY DEF EntriesTabled, TypeOK, HandlersPlaced, OneChanges
<1>5. FilesPlaced'
    BY DEF FilesPlaced, TypeOK, HandlersPlaced, OneChanges, IsOpen
<1>6. OwnSocket'
    BY DEF OwnSocket, TypeOK, HandlersPlaced, FilesPlaced, Erasing, OneChanges,
           Socket, Free, UseOf, IsOpen
<1>7. DescriptorsKnown'
    <2>1. \A f \in Fd : (InTable(f)' <=> InTable(f)) /\ (InFile(f)' <=> InFile(f))
        BY DEF InTable, InFile, Erasing, TypeOK
    <2>2. \A f \in Fd : InHand(f)' <=> InHand(f) /\ f # fd[c]
        BY DEF InHand, OneChanges, TypeOK
    <2>3. InHand(fd[c]) /\ ~InTable(fd[c]) /\ ~InFile(fd[c])
        BY OpenSockets DEF InHand, InTable, InFile, Socket, UseOf
    <2>4. /\ \A f \in Fd : f # fd[c] => os'[f] = os[f]
          /\ os'[fd[c]].as \in {"new", "connected"} /\ os'[fd[c]] # Free
        BY DEF TypeOK, Socket, Free
    <2> QED
        BY <2>1, <2>2, <2>3, <2>4 DEF DescriptorsKnown, TypeOK
<1> QED
    BY <1>1, <1>2, <1>3, <1>4, <1>5, <1>6, <1>7

\* mknod of a server: the listening descriptor is in the hand of the handler.
LEMMA MakeServerKeeps ==
    ASSUME DeviceInv, NEW c \in Programs, NEW p \in Servers, MakeServer(c, p)
    PROVE  DeviceInv'
<1> USE DeviceAssumption DEF DeviceInv, MakeServer, Goto, Steps, Uses, File, Paths,
        Making, Changing
<1>1. TypeOK'
    BY LowestIsFree DEF TypeOK, HandlersPlaced, Socket, Free
<1>2. HandlersPlaced'
    BY LowestIsFree DEF HandlersPlaced, TypeOK, OneChanges, DirectoryFree,
           EntriesTabled, OwnSocket, UseOf, Socket, Free, Erasing
<1>3. OneChanges'
    BY LowestIsFree DEF OneChanges, TypeOK, DirectoryFree
<1>4. EntriesTabled'
    BY LowestIsFree DEF EntriesTabled, TypeOK, HandlersPlaced, OneChanges,
           DirectoryFree
<1>5. FilesPlaced'
    BY LowestIsFree DEF FilesPlaced, TypeOK, HandlersPlaced, OneChanges,
           DirectoryFree, IsOpen
<1>6. OwnSocket'
    BY LowestIsFree DEF OwnSocket, TypeOK, HandlersPlaced, FilesPlaced, Erasing,
           OneChanges, Socket, Free, UseOf, IsOpen
<1>7. DescriptorsKnown'
    BY LowestIsFree DEF DescriptorsKnown, InTable, InFile, InHand, TypeOK,
           HandlersPlaced, OneChanges, OwnSocket, FilesPlaced, Erasing, Socket,
       Free, UseOf, IsOpen
<1> QED
    BY <1>1, <1>2, <1>3, <1>4, <1>5, <1>6, <1>7

\* bind(2) or listen(2) fails: the socket is lost, no entry stays.
LEMMA MakeServerFailsKeeps ==
    ASSUME DeviceInv, NEW c \in Programs, NEW p \in Servers, MakeServerFails(c, p)
    PROVE  DeviceInv'
<1> USE DeviceAssumption DEF DeviceInv, MakeServerFails, Steps, Uses, File, Paths,
        Making, Changing
<1>1. TypeOK'
    BY LowestIsFree DEF TypeOK, HandlersPlaced, Socket, Free
<1>2. HandlersPlaced'
    BY LowestIsFree DEF HandlersPlaced, TypeOK, OneChanges, DirectoryFree,
           EntriesTabled, OwnSocket, UseOf, Socket, Free, Erasing
<1>3. OneChanges'
    BY LowestIsFree DEF OneChanges, TypeOK, DirectoryFree
<1>4. EntriesTabled'
    BY LowestIsFree DEF EntriesTabled, TypeOK, HandlersPlaced, OneChanges,
           DirectoryFree
<1>5. FilesPlaced'
    BY LowestIsFree DEF FilesPlaced, TypeOK, HandlersPlaced, OneChanges,
           DirectoryFree, IsOpen
<1>6. OwnSocket'
    BY LowestIsFree DEF OwnSocket, TypeOK, HandlersPlaced, FilesPlaced, Erasing,
           OneChanges, Socket, Free, UseOf, IsOpen
<1>7. DescriptorsKnown'
    BY LowestIsFree DEF DescriptorsKnown, InTable, InFile, InHand, TypeOK,
           HandlersPlaced, OneChanges, OwnSocket, FilesPlaced, Erasing, Socket,
       Free, UseOf, IsOpen
<1> QED
    BY <1>1, <1>2, <1>3, <1>4, <1>5, <1>6, <1>7

\* fd_table::insert: what was in the hand is in the table, under a path that had none.
LEMMA InsertKeeps ==
    ASSUME DeviceInv, NEW c \in Programs, Insert(c)
    PROVE  DeviceInv'
<1>a. /\ at[c] = "insert"
      /\ path[c] \in entries \ DOMAIN table
      /\ path[c] \in Paths /\ fd[c] \in Fd
      /\ os[fd[c]] = Socket(path[c], UseOf(path[c]))
    BY DEF Insert, DeviceInv, HandlersPlaced, EntriesTabled, Making
<1>b. table' = [q \in DOMAIN table \union {path[c]} |->
                   IF q = path[c] THEN fd[c] ELSE table[q]]
    BY DEF Insert
<1>c. Reply(c) /\ UNCHANGED <<entries, os, pending, file, lost>>
    BY <1>a DEF Insert
<1> USE <1>a, <1>b, <1>c, DeviceAssumption
    DEF DeviceInv, Goto, Reply, Steps, Uses, File, Paths, Making, Changing
<1>1. TypeOK'
    BY DEF TypeOK, HandlersPlaced, Socket, Free
<1>2. HandlersPlaced'
    BY DEF HandlersPlaced, TypeOK, OneChanges, EntriesTabled, OwnSocket, UseOf,
           Socket, Free, Erasing
<1>3. OneChanges'
    BY DEF OneChanges, TypeOK
<1>4. EntriesTabled'
    BY DEF EntriesTabled, TypeOK, HandlersPlaced, OneChanges
<1>5. FilesPlaced'
    BY DEF FilesPlaced, TypeOK, HandlersPlaced, OneChanges, IsOpen
<1>6. OwnSocket'
    BY DEF OwnSocket, TypeOK, HandlersPlaced, FilesPlaced, Erasing, OneChanges,
           Socket, Free, UseOf, IsOpen
<1>7. DescriptorsKnown'
    <2>1. \A f \in Fd : InFile(f)' <=> InFile(f)
        BY DEF InFile
    <2>2. \A f \in Fd : InHand(f)' <=> InHand(f) /\ f # fd[c]
        BY DEF InHand, OneChanges, TypeOK
    <2>3. ~\E d \in Programs : at[d] = "erasing"
        BY DEF OneChanges
    <2>4. \A f \in Fd : InTable(f)' <=> InTable(f) \/ f = fd[c]
        BY <2>3 DEF InTable, Erasing, TypeOK
    <2>5. InHand(fd[c])
        BY DEF InHand
    <2> QED
        BY <2>1, <2>2, <2>4, <2>5 DEF DescriptorsKnown, TypeOK
<1> QED
    BY <1>1, <1>2, <1>3, <1>4, <1>5, <1>6, <1>7

\* open of a client: the file shares the descriptor the table has for its path.
LEMMA OpenClientKeeps ==
    ASSUME DeviceInv, NEW c \in Programs, NEW p \in Clients, OpenClient(c, p)
    PROVE  DeviceInv'
<1> USE DeviceAssumption DEF DeviceInv, OpenClient, Steps, Uses, File, Paths,
        Making, Changing
<1>1. TypeOK'
    BY DEF TypeOK, HandlersPlaced, Socket, Free
<1>2. HandlersPlaced'
    BY DEF HandlersPlaced, TypeOK, OneChanges, CanOpen, EntriesTabled, OwnSocket,
           UseOf, Socket, Free, Erasing
<1>3. OneChanges'
    BY DEF OneChanges, TypeOK
<1>4. EntriesTabled'
    BY DEF EntriesTabled, TypeOK, HandlersPlaced, OneChanges
<1>5. FilesPlaced'
    BY DEF FilesPlaced, TypeOK, HandlersPlaced, OneChanges, CanOpen, IsOpen
<1>6. OwnSocket'
    <2>1. ~Erasing(p) /\ os[table[p]] = Socket(p, "connected")
        BY DEF OwnSocket, CanOpen, Erasing, UseOf, TypeOK
    <2>2. \A q : Erasing(q)' <=> Erasing(q)
        BY DEF Erasing
    <2>3. \A d \in Programs : file[d] # None /\ file[d].fd = table[p] => file[d] = file'[c]
        <3> SUFFICES ASSUME NEW d \in Programs, file[d] # None, file[d].fd = table[p]
                     PROVE  file[d] = file'[c]
            OBVIOUS
        <3>1. file[d].path = p
            BY <2>1, OpenSockets DEF Socket
        <3>2. file[d] \in File
            BY DEF TypeOK
        <3> QED
            BY <3>1, <3>2 DEF TypeOK
    <2>4. file' = [file EXCEPT ![c] = [path |-> p, fd |-> table[p]]]
        OBVIOUS
    <2> QED
        BY <2>1, <2>2, <2>3, <2>4 DEF OwnSocket, TypeOK
<1>7. DescriptorsKnown'
    BY DEF DescriptorsKnown, InTable, InFile, InHand, TypeOK, HandlersPlaced,
           OneChanges, OwnSocket, FilesPlaced, Erasing, Socket, Free, CanOpen,
       UseOf, IsOpen
<1> QED
    BY <1>1, <1>2, <1>3, <1>4, <1>5, <1>6, <1>7

\* open of a server: accept(2) waits for the descriptor of the table.
LEMMA OpenServerKeeps ==
    ASSUME DeviceInv, NEW c \in Programs, NEW p \in Servers, OpenServer(c, p)
    PROVE  DeviceInv'
<1> USE DeviceAssumption DEF DeviceInv, OpenServer, Goto, Steps, Uses, File, Paths,
        Making, Changing
<1>1. TypeOK'
    BY DEF TypeOK, HandlersPlaced, Socket, Free
<1>2. HandlersPlaced'
    BY DEF HandlersPlaced, TypeOK, OneChanges, CanOpen, EntriesTabled, OwnSocket,
           UseOf, Socket, Free, Erasing
<1>3. OneChanges'
    BY DEF OneChanges, TypeOK
<1>4. EntriesTabled'
    <2>1. \A d \in Programs : /\ at'[d] \in Making <=> at[d] \in Making
                              /\ at[d] \in Making => path'[d] = path[d]
        BY DEF TypeOK, CanOpen
    <2> QED
        BY <2>1 DEF EntriesTabled
<1>5. FilesPlaced'
    BY DEF FilesPlaced, TypeOK, HandlersPlaced, OneChanges, CanOpen, IsOpen
<1>6. OwnSocket'
    BY DEF OwnSocket, TypeOK, HandlersPlaced, FilesPlaced, Erasing, OneChanges,
           CanOpen, Socket, Free, UseOf, IsOpen
<1>7. DescriptorsKnown'
    BY DEF DescriptorsKnown, InTable, InFile, InHand, TypeOK, HandlersPlaced,
           OneChanges, OwnSocket, FilesPlaced, Erasing, Socket, Free, CanOpen,
       UseOf, IsOpen
<1> QED
    BY <1>1, <1>2, <1>3, <1>4, <1>5, <1>6, <1>7

\* accept(2) returns: the file has the new descriptor for itself.
LEMMA AcceptKeeps ==
    ASSUME DeviceInv, NEW c \in Programs, Accept(c)
    PROVE  DeviceInv'
<1>a. /\ at[c] = "accepting" /\ FreeFds # {}
      /\ path[c] \in Servers /\ path[c] \in DOMAIN table /\ fd[c] = table[path[c]]
      /\ os[fd[c]] = Socket(path[c], "listening") /\ pending[path[c]] \in 1 .. MaxPending
      /\ pending' = [pending EXCEPT ![path[c]] = @ - 1]
    <2>1. path[c] \in Servers /\ path[c] \in DOMAIN table /\ fd[c] = table[path[c]]
        BY DEF Accept, DeviceInv, HandlersPlaced
    <2>2. ~Erasing(path[c])
        BY DEF Accept, DeviceInv, FilesPlaced, Erasing
    <2>3. os[fd[c]] = Socket(path[c], "listening")
        BY <2>1, <2>2, DeviceAssumption DEF DeviceInv, OwnSocket, UseOf
    <2> QED
        BY <2>1, <2>3, DeviceAssumption DEF Accept, Socket, DeviceInv, TypeOK
<1>b. /\ os' = [os EXCEPT ![LowestFree] = Socket(path[c], "accepted")]
      /\ file' = [file EXCEPT ![c] = [path |-> path[c], fd |-> LowestFree]]
    BY <1>a DEF Accept, Socket
<1>c. Reply(c) /\ UNCHANGED <<entries, table, lost>>
    BY DEF Accept
<1> USE <1>a, <1>b, <1>c, DeviceAssumption
    DEF DeviceInv, Goto, Reply, Steps, Uses, File, Paths, Making, Changing
<1>1. TypeOK'
    BY LowestIsFree DEF TypeOK, HandlersPlaced, Socket, Free
<1>2. HandlersPlaced'
    BY LowestIsFree DEF HandlersPlaced, TypeOK, OneChanges, EntriesTabled,
           OwnSocket, UseOf, Socket, Free, Erasing
<1>3. OneChanges'
    BY LowestIsFree DEF OneChanges, TypeOK
<1>4. EntriesTabled'
    BY LowestIsFree DEF EntriesTabled, TypeOK, HandlersPlaced, OneChanges
<1>5. FilesPlaced'
    BY LowestIsFree DEF FilesPlaced, TypeOK, HandlersPlaced, OneChanges, IsOpen
<1>6. OwnSocket' /\ DescriptorsKnown'
    <2>1. /\ \A q : Erasing(q)' <=> Erasing(q)
          /\ \A f \in Fd : InHand(f)' <=> InHand(f)
        BY DEF Erasing, InHand, TypeOK
    <2>2. file[c] = None
        BY DEF HandlersPlaced
    <2> QED
        BY <2>1, <2>2, NewSocketIsOwn
<1> QED
    BY <1>1, <1>2, <1>3, <1>4, <1>5, <1>6

\* accept(2) fails: the file is not open.
LEMMA AcceptFailsKeeps ==
    ASSUME DeviceInv, NEW c \in Programs, AcceptFails(c)
    PROVE  DeviceInv'
<1> USE DeviceAssumption DEF DeviceInv, AcceptFails, Goto, Reply, Steps, Uses,
        File, Paths, Making, Changing
<1>1. TypeOK'
    BY DEF TypeOK, HandlersPlaced, Socket, Free
<1>2. HandlersPlaced'
    BY DEF HandlersPlaced, TypeOK, OneChanges, EntriesTabled, OwnSocket, UseOf,
           Socket, Free, Erasing
<1>3. OneChanges'
    BY DEF OneChanges, TypeOK
<1>4. EntriesTabled'
    BY DEF EntriesTabled, TypeOK, HandlersPlaced, OneChanges
<1>5. FilesPlaced'
    BY DEF FilesPlaced, TypeOK, HandlersPlaced, OneChanges, IsOpen
<1>6. OwnSocket'
    BY DEF OwnSocket, TypeOK, HandlersPlaced, FilesPlaced, Erasing, OneChanges,
           Socket, Free, UseOf, IsOpen
<1>7. DescriptorsKnown'
    BY DEF DescriptorsKnown, InTable, InFile, InHand, TypeOK, HandlersPlaced,
           OneChanges, OwnSocket, FilesPlaced, Erasing, Socket, Free, UseOf, IsOpen
<1> QED
    BY <1>1, <1>2, <1>3, <1>4, <1>5, <1>6, <1>7

\* open of a packet file: the file has the new descriptor for itself.
LEMMA OpenPacketKeeps ==
    ASSUME DeviceInv, NEW c \in Programs, NEW p \in Packets, OpenPacket(c, p)
    PROVE  DeviceInv'
<1> USE DeviceAssumption DEF DeviceInv, OpenPacket, Steps, Uses, File, Paths,
        Making, Changing
<1>1. TypeOK'
    BY LowestIsFree DEF TypeOK, HandlersPlaced, Socket, Free
<1>2. HandlersPlaced'
    BY LowestIsFree DEF HandlersPlaced, TypeOK, OneChanges, CanOpen, EntriesTabled,
           OwnSocket, UseOf, Socket, Free, Erasing
<1>3. OneChanges'
    BY LowestIsFree DEF OneChanges, TypeOK
<1>4. EntriesTabled'
    BY LowestIsFree DEF EntriesTabled, TypeOK, HandlersPlaced, OneChanges
<1>5. FilesPlaced'
    BY LowestIsFree DEF FilesPlaced, TypeOK, HandlersPlaced, OneChanges, CanOpen,
           IsOpen
<1>6. OwnSocket' /\ DescriptorsKnown'
    <2>1. /\ \A q : Erasing(q)' <=> Erasing(q)
          /\ \A f \in Fd : InHand(f)' <=> InHand(f)
        BY DEF Erasing, InHand
    <2>2. file[c] = None /\ p \notin Servers
        BY DEF CanOpen
    <2> QED
        BY <2>1, <2>2, NewSocketIsOwn
<1> QED
    BY <1>1, <1>2, <1>3, <1>4, <1>5, <1>6

\* open of a packet file without a socket: the file is not open.
LEMMA OpenPacketFailsKeeps ==
    ASSUME DeviceInv, NEW c \in Programs, NEW p \in Packets, OpenPacketFails(c, p)
    PROVE  DeviceInv'
<1> USE DeviceAssumption DEF DeviceInv, OpenPacketFails, Steps, Uses, File, Paths,
        Making, Changing
<1>1. TypeOK'
    BY LowestIsFree DEF TypeOK, HandlersPlaced, Socket, Free
<1>2. HandlersPlaced'
    BY LowestIsFree DEF HandlersPlaced, TypeOK, OneChanges, CanOpen, EntriesTabled,
           OwnSocket, UseOf, Socket, Free, Erasing
<1>3. OneChanges'
    BY LowestIsFree DEF OneChanges, TypeOK
<1>4. EntriesTabled'
    BY LowestIsFree DEF EntriesTabled, TypeOK, HandlersPlaced, OneChanges
<1>5. FilesPlaced'
    BY LowestIsFree DEF FilesPlaced, TypeOK, HandlersPlaced, OneChanges, CanOpen,
           IsOpen
<1>6. OwnSocket'
    BY LowestIsFree DEF OwnSocket, TypeOK, HandlersPlaced, FilesPlaced, Erasing,
           OneChanges, CanOpen, Socket, Free, UseOf, IsOpen
<1>7. DescriptorsKnown'
    BY LowestIsFree DEF DescriptorsKnown, InTable, InFile, InHand, TypeOK,
           HandlersPlaced, OneChanges, OwnSocket, FilesPlaced, Erasing, Socket,
       Free, CanOpen, UseOf, IsOpen
<1> QED
    BY <1>1, <1>2, <1>3, <1>4, <1>5, <1>6, <1>7

\* release: a client's descriptor stays in the table, any other one is closed.
LEMMA ReleaseKeeps ==
    ASSUME DeviceInv, NEW c \in Programs, Release(c)
    PROVE  DeviceInv'
<1>a. /\ at[c] = "idle" /\ file[c] # None
      /\ file' = [file EXCEPT ![c] = None]
      /\ UNCHANGED <<entries, table, pending, at, path, fd, tries, lost>>
    BY DEF Release
<1>b. /\ file[c] \in File
      /\ file[c].path \in Clients => os' = os
      /\ file[c].path \notin Clients =>
            /\ os' = [os EXCEPT ![file[c].fd] = Free]
            /\ os[file[c].fd].as \in {"accepted", "packet"}
    BY OpenSockets DEF Release, Closes
<1>c. \A f \in Fd : f # file[c].fd => os'[f] = os[f]
    BY <1>b DEF DeviceInv, TypeOK
<1> USE <1>a, <1>b, <1>c, DeviceAssumption
    DEF DeviceInv, Steps, Uses, File, Paths, Making, Changing
<1>1. TypeOK'
    BY DEF TypeOK, HandlersPlaced, Socket, Free
<1>2. HandlersPlaced'
    <2>1. ASSUME NEW d \in Programs, at[d] \in {"connecting", "insert"}
          PROVE  fd[d] \in Fd /\ os'[fd[d]] = os[fd[d]]
        BY <2>1, OpenSockets
    <2> QED
        BY <2>1, <1>a DEF HandlersPlaced, UseOf, TypeOK
<1>3. OneChanges'
    BY DEF OneChanges, TypeOK
<1>4. EntriesTabled'
    BY DEF EntriesTabled, TypeOK, HandlersPlaced, OneChanges
<1>5. FilesPlaced'
    BY DEF FilesPlaced, TypeOK, HandlersPlaced, OneChanges, IsOpen
<1>6. OwnSocket'
    <2>1. \A q : Erasing(q)' <=> Erasing(q)
        BY DEF Erasing
    <2>2. ASSUME NEW p \in DOMAIN table, ~Erasing(p) PROVE os'[table[p]] = os[table[p]]
        BY <2>2, OpenSockets DEF UseOf
    <2>3. ASSUME NEW d \in Programs, d # c, file[d] # None
          PROVE  os'[file[d].fd] = os[file[d].fd] /\ file'[d] = file[d]
        BY <2>3, OpenSockets DEF OwnSocket, TypeOK
    <2>4. file'[c] = None
        BY DEF TypeOK
    <2>5. \A p \in DOMAIN table' : ~Erasing(p)' => os'[table'[p]] = Socket(p, UseOf(p))
        BY <2>1, <2>2 DEF OwnSocket
    <2> HIDE <1>a, <1>b, <1>c
    <2>6. \A d \in Programs : file'[d] # None => d # c /\ file[d] # None
        BY <2>3, <2>4, <1>a DEF TypeOK
    <2>7. ASSUME NEW d \in Programs, file'[d] # None
          PROVE  os'[file'[d].fd] = Socket(file'[d].path,
                     IF file'[d].path \in Clients THEN "connected"
                     ELSE IF file'[d].path \in Servers THEN "accepted" ELSE "packet")
        BY <2>3, <2>6, <2>7 DEF OwnSocket
    <2>8. ASSUME NEW d \in Programs, NEW e \in Programs, d # e, file'[d] # None,
                 file'[e] # None, file'[d].fd = file'[e].fd
          PROVE  file'[d] = file'[e] /\ file'[d].path \in Clients
        BY <2>3, <2>6, <2>8 DEF OwnSocket
    <2> QED
        BY <2>5, <2>7, <2>8 DEF OwnSocket, UseOf
<1>7. DescriptorsKnown'
    <2>0. PICK f0 \in Fd : f0 = file[c].fd
        OBVIOUS
    <2>1. \A f \in Fd : (InTable(f)' <=> InTable(f)) /\ (InHand(f)' <=> InHand(f))
        BY DEF InTable, InHand, Erasing
    <2>2. \A f \in Fd : f # file[c].fd => (InFile(f)' <=> InFile(f))
        BY DEF InFile, TypeOK
    <2>3. InFile(file[c].fd) /\ file[c].fd \in Fd
        BY DEF InFile
    <2>4. CASE file[c].path \in Clients
        <3>1. InTable(file[c].fd)
            BY <2>4 DEF FilesPlaced, Erasing, InTable
        <3> QED
            BY <2>1, <2>2, <2>3, <2>4, <3>1 DEF DescriptorsKnown, TypeOK
    <2>5. CASE file[c].path \notin Clients
        <3>1. ~InFile(f0)'
            <4>1. \A d \in Programs : d # c /\ file[d] # None => file[d].fd # file[c].fd
                BY <2>5 DEF OwnSocket
            <4> QED
                BY <2>0, <4>1 DEF InFile, TypeOK
        <3>2. ~InTable(file[c].fd)
            BY <2>5, OpenSockets DEF InTable, UseOf
        <3>3. ~InHand(file[c].fd)
            BY <2>5, OpenSockets DEF InHand
        <3>4. file[c].fd \notin lost
            BY <2>3 DEF DescriptorsKnown
        <3>5. os'[file[c].fd] = Free
            BY <2>3, <2>5 DEF TypeOK
        <3> QED
            BY <2>0, <2>1, <2>2, <2>5, <3>1, <3>2, <3>3, <3>4, <3>5
               DEF DescriptorsKnown
    <2> QED
        BY <2>4, <2>5
<1> QED
    BY <1>1, <1>2, <1>3, <1>4, <1>5, <1>6, <1>7

\* unlink begins: the path is an entry and, as nobody is making it, in the table.
LEMMA UnlinkKeeps ==
    ASSUME DeviceInv, NEW c \in Programs, NEW p \in Paths, Unlink(c, p)
    PROVE  DeviceInv'
<1> USE DeviceAssumption DEF DeviceInv, Unlink, Goto, Steps, Uses, File, Paths,
        Making, Changing
<1>1. TypeOK'
    BY DEF TypeOK, HandlersPlaced, Socket, Free
<1>2. HandlersPlaced'
    BY DEF HandlersPlaced, TypeOK, OneChanges, DirectoryFree, EntriesTabled,
           OwnSocket, UseOf, Socket, Free, Erasing
<1>3. OneChanges'
    BY DEF OneChanges, TypeOK, DirectoryFree
<1>4. EntriesTabled'
    BY DEF EntriesTabled, TypeOK, HandlersPlaced, OneChanges, DirectoryFree
<1>5. FilesPlaced'
    BY DEF FilesPlaced, TypeOK, HandlersPlaced, OneChanges, DirectoryFree, IsOpen
<1>6. OwnSocket'
    BY DEF OwnSocket, TypeOK, HandlersPlaced, FilesPlaced, Erasing, OneChanges,
           Socket, Free, UseOf, IsOpen
<1>7. DescriptorsKnown'
    BY DEF DescriptorsKnown, InTable, InFile, InHand, TypeOK, HandlersPlaced,
           OneChanges, OwnSocket, FilesPlaced, Erasing, Socket, Free, UseOf, IsOpen
<1> QED
    BY <1>1, <1>2, <1>3, <1>4, <1>5, <1>6, <1>7

\* unlink of a file that is open or being opened changes nothing.
LEMMA UnlinkRefusedKeeps ==
    ASSUME DeviceInv, NEW c \in Programs, UnlinkRefused(c)
    PROVE  DeviceInv'
<1> USE DeviceAssumption DEF DeviceInv, UnlinkRefused, Goto, Reply, Steps, Uses,
        File, Paths, Making, Changing
<1>1. TypeOK'
    BY DEF TypeOK, HandlersPlaced, Socket, Free
<1>2. HandlersPlaced'
    BY DEF HandlersPlaced, TypeOK, OneChanges, EntriesTabled, OwnSocket, UseOf,
           Socket, Free, Erasing
<1>3. OneChanges'
    BY DEF OneChanges, TypeOK
<1>4. EntriesTabled'
    BY DEF EntriesTabled, TypeOK, HandlersPlaced, OneChanges
<1>5. FilesPlaced'
    BY DEF FilesPlaced, TypeOK, HandlersPlaced, OneChanges, PathFree, IsOpen
<1>6. OwnSocket'
    BY DEF OwnSocket, TypeOK, HandlersPlaced, FilesPlaced, Erasing, OneChanges,
           Socket, Free, UseOf, PathFree, IsOpen
<1>7. DescriptorsKnown'
    BY DEF DescriptorsKnown, InTable, InFile, InHand, TypeOK, HandlersPlaced,
           OneChanges, OwnSocket, FilesPlaced, Erasing, Socket, Free, UseOf, IsOpen
<1> QED
    BY <1>1, <1>2, <1>3, <1>4, <1>5, <1>6, <1>7

\* The destructor closes the descriptor that was in the table for its path.
LEMMA CloseSocketKeeps ==
    ASSUME DeviceInv, NEW c \in Programs, CloseSocket(c)
    PROVE  DeviceInv'
<1>a. /\ at[c] = "unlinking" /\ PathFree(path[c]) /\ ~IsOpen(path[c])
      /\ path[c] \in DOMAIN table /\ path[c] \in Paths
      /\ table[path[c]] \in Fd /\ ~Erasing(path[c])
      /\ os[table[path[c]]] = Socket(path[c], UseOf(path[c]))
    BY DEF CloseSocket, DeviceInv, HandlersPlaced, OneChanges, Erasing, Changing,
           TypeOK, OwnSocket
<1>b. /\ os' = [os EXCEPT ![table[path[c]]] = Free]
      /\ pending' = [p \in Servers |-> IF p = path[c] THEN 0 ELSE pending[p]]
    BY <1>a DEF CloseSocket
<1>c. Goto(c, "erasing", path[c], None, 0) /\ UNCHANGED <<entries, table, file, lost>>
    BY DEF CloseSocket
<1> USE <1>a, <1>b, <1>c, DeviceAssumption
    DEF DeviceInv, Goto, Steps, Uses, File, Paths, Making, Changing
<1>1. TypeOK'
    BY DEF TypeOK, HandlersPlaced, Socket, Free
<1>2. HandlersPlaced'
    BY DEF HandlersPlaced, TypeOK, OneChanges, EntriesTabled, OwnSocket, UseOf,
           Socket, Free, Erasing
<1>3. OneChanges'
    BY DEF OneChanges, TypeOK
<1>4. EntriesTabled'
    BY DEF EntriesTabled, TypeOK, HandlersPlaced, OneChanges
<1>5. FilesPlaced'
    BY DEF FilesPlaced, TypeOK, HandlersPlaced, OneChanges, PathFree, IsOpen
<1>6. OwnSocket'
    BY DEF OwnSocket, TypeOK, HandlersPlaced, FilesPlaced, Erasing, OneChanges,
           Socket, Free, UseOf, PathFree, IsOpen
<1>7. DescriptorsKnown'
    <2>1. \A q \in DOMAIN table : Erasing(q)' <=> q = path[c]
        BY DEF Erasing, OneChanges, TypeOK
    <2>2. \A d \in Programs : at[d] # "erasing"
        BY DEF OneChanges
    <2>3. \A q \in DOMAIN table : q # path[c] => table[q] # table[path[c]]
        BY <2>2, OpenSockets DEF Erasing
    <2>4. \A f \in Fd : InTable(f)' <=> InTable(f) /\ f # table[path[c]]
        BY <2>1, <2>2, <2>3 DEF InTable, Erasing
    <2>5. \A f \in Fd : (InFile(f)' <=> InFile(f)) /\ (InHand(f)' <=> InHand(f))
        BY DEF InFile, InHand, TypeOK
    <2>6. \A d \in Programs : at[d] \notin {"connecting", "insert"}
        BY DEF OneChanges
    <2>7. InTable(table[path[c]]) /\ ~InHand(table[path[c]])
        BY <2>2, <2>6 DEF InTable, InHand, Erasing
    <2>8. ~InFile(table[path[c]])
        BY OpenSockets DEF InFile, IsOpen
    <2> QED
        BY <2>4, <2>5, <2>7, <2>8 DEF DescriptorsKnown, TypeOK
<1> QED
    BY <1>1, <1>2, <1>3, <1>4, <1>5, <1>6, <1>7

\* The key and the entry go together, after the socket was closed.
LEMMA EraseKeeps ==
    ASSUME DeviceInv, NEW c \in Programs, Erase(c)
    PROVE  DeviceInv'
<1>a. /\ at[c] = "erasing"
      /\ path[c] \in DOMAIN table /\ path[c] \in Paths
      /\ entries' = entries \ {path[c]}
    BY DEF Erase, DeviceInv, HandlersPlaced
<1>b. table' = [q \in DOMAIN table \ {path[c]} |-> table[q]]
    BY TableErase DEF Erase
<1>c. Reply(c) /\ UNCHANGED <<os, pending, file, lost>>
    BY DEF Erase
<1> USE <1>a, <1>b, <1>c, DeviceAssumption
    DEF DeviceInv, Goto, Reply, Steps, Uses, File, Paths, Making, Changing
<1>1. TypeOK'
    BY DEF TypeOK, HandlersPlaced, Socket, Free
<1>2. HandlersPlaced'
    <2>1. \A d \in Programs : d # c => at[d] \in {"idle", "accepting"}
        BY DEF OneChanges, TypeOK
    <2>2. \A d \in Programs : at[d] = "accepting" => path[d] # path[c]
        BY DEF FilesPlaced
    <2> QED
        BY <2>1, <2>2 DEF HandlersPlaced, TypeOK
<1>3. OneChanges'
    BY DEF OneChanges, TypeOK
<1>4. EntriesTabled'
    BY DEF EntriesTabled, TypeOK, HandlersPlaced, OneChanges
<1>5. FilesPlaced'
    BY DEF FilesPlaced, TypeOK, HandlersPlaced, OneChanges, IsOpen
<1>6. OwnSocket'
    BY DEF OwnSocket, TypeOK, HandlersPlaced, FilesPlaced, Erasing, OneChanges,
           Socket, Free, UseOf, IsOpen
<1>7. DescriptorsKnown'
    <2>1. \A d \in Programs : at[d] = "erasing" <=> d = c
        BY DEF OneChanges
    <2>2. \A q : (Erasing(q) <=> q = path[c]) /\ ~Erasing(q)'
        BY <2>1 DEF Erasing, TypeOK
    <2>3. \A f \in Fd : InTable(f)' <=> InTable(f)
        BY <2>2 DEF InTable
    <2>4. \A f \in Fd : (InFile(f)' <=> InFile(f)) /\ (InHand(f)' <=> InHand(f))
        BY DEF InFile, InHand, TypeOK
    <2> QED
        BY <2>3, <2>4 DEF DescriptorsKnown
<1> QED
    BY <1>1, <1>2, <1>3, <1>4, <1>5, <1>6, <1>7

\* A peer connects: only the backlog changes.
LEMMA PeerConnectsKeeps ==
    ASSUME DeviceInv, NEW p \in Servers, PeerConnects(p)
    PROVE  DeviceInv'
<1> USE DeviceAssumption DEF DeviceInv, PeerConnects, Steps, Uses, File, Paths,
        Making, Changing
<1>1. TypeOK'
    BY DEF TypeOK, HandlersPlaced, Socket, Free
<1>2. HandlersPlaced'
    BY DEF HandlersPlaced, TypeOK, OneChanges, EntriesTabled, OwnSocket, UseOf,
           Socket, Free, Erasing
<1>3. OneChanges'
    BY DEF OneChanges, TypeOK
<1>4. EntriesTabled'
    BY DEF EntriesTabled, TypeOK, HandlersPlaced, OneChanges
<1>5. FilesPlaced'
    BY DEF FilesPlaced, TypeOK, HandlersPlaced, OneChanges, IsOpen
<1>6. OwnSocket'
    BY DEF OwnSocket, TypeOK, HandlersPlaced, FilesPlaced, Erasing, OneChanges,
           Socket, Free, UseOf, IsOpen
<1>7. DescriptorsKnown'
    BY DEF DescriptorsKnown, InTable, InFile, InHand, TypeOK, HandlersPlaced,
           OneChanges, OwnSocket, FilesPlaced, Erasing, Socket, Free, UseOf, IsOpen
<1> QED
    BY <1>1, <1>2, <1>3, <1>4, <1>5, <1>6, <1>7

\* Every step keeps the invariant: one lemma for each action.
LEMMA DeviceStep == DeviceInv /\ [Next]_vars => DeviceInv'
<1> SUFFICES ASSUME DeviceInv, [Next]_vars PROVE DeviceInv'
    OBVIOUS
<1>1. CASE UNCHANGED vars
    BY <1>1 DEF vars, DeviceInv, TypeOK, HandlersPlaced, OneChanges, EntriesTabled,
                FilesPlaced, OwnSocket, DescriptorsKnown, InTable, InFile, InHand,
                    Erasing
<1>2. ASSUME NEW c \in Programs, Requests(c) PROVE DeviceInv'
    BY <1>2, OpenClientKeeps, MakeClientKeeps, MakeServerKeeps,
       MakeServerFailsKeeps,
       OpenServerKeeps, OpenPacketKeeps, OpenPacketFailsKeeps, UnlinkKeeps,
           ReleaseKeeps
       DEF Requests
<1>3. ASSUME NEW c \in Programs, Handler(c) PROVE DeviceInv'
    BY <1>3, NextSocketKeeps, NoSocketKeeps, GoesOnKeeps, ConnectedKeeps,
       ConnectFailsKeeps,
       InsertKeeps, UnlinkRefusedKeeps, CloseSocketKeeps, EraseKeeps DEF Handler
<1>4. ASSUME NEW c \in Programs, Accept(c) \/ AcceptFails(c) PROVE DeviceInv'
    BY <1>4, AcceptKeeps, AcceptFailsKeeps
<1>5. ASSUME NEW p \in Servers, PeerConnects(p) PROVE DeviceInv'
    BY <1>5, PeerConnectsKeeps
<1> QED
    BY <1>1, <1>2, <1>3, <1>4, <1>5 DEF Next

\* The invariant holds in every state of every behaviour.
LEMMA DeviceInvariant == Spec => []DeviceInv
BY DeviceInit, DeviceStep, PTL DEF Spec

\* The descriptors one by one, as NothingElseOpen says it of all.
LEMMA AllKnown == DeviceInv => NothingElseOpen
<1> SUFFICES ASSUME DeviceInv PROVE NothingElseOpen
    OBVIOUS
<1> USE DEF DeviceInv
<1>1. \A f : /\ f \in Tabled <=> f \in Fd /\ InTable(f)
             /\ f \in Held <=> f \in Fd /\ InFile(f)
             /\ f \in Handled <=> f \in Fd /\ InHand(f)
    BY OpenSockets DEF Tabled, Held, Handled, InTable, InFile, InHand, TypeOK, File
<1>2. Opened = Tabled \union Held \union Handled \union lost
    BY <1>1 DEF Opened, DescriptorsKnown, TypeOK
<1>3. /\ lost \intersect (Tabled \union Held \union Handled) = {}
      /\ \A f \in lost : os[f].as \in {"new", "connected"}
    BY <1>1 DEF DescriptorsKnown, TypeOK
<1>4. DirectoryFree => DOMAIN table = entries
    BY DEF DirectoryFree, EntriesTabled, TypeOK, Making
<1> QED
    BY <1>2, <1>3, <1>4 DEF NothingElseOpen

-----------------------------------------------------------------------------
\* The variables keep their types.
THEOREM DeviceTypes == Spec => []TypeOK
<1>1. DeviceInv => TypeOK
    BY DEF DeviceInv
<1> QED
    BY <1>1, DeviceInvariant, PTL

\* Whatever opens, unlinks, failed attempts and numbers that are used again come
\* between, a client, server or packet file is read and written through the socket
\* that was made for it, and an accepted connection belongs to one open file.
THEOREM EveryFileHasItsOwnSocket == Spec => []OwnSocket
<1>1. DeviceInv => OwnSocket
    BY DEF DeviceInv
<1> QED
    BY <1>1, DeviceInvariant, PTL

\* mknod, open, release and unlink leave no socket open but the ones that failed
\* attempts forget: what the code leaks is named in full by lost.
THEOREM OnlyFailedAttemptsLeak == Spec => []NothingElseOpen
BY DeviceInvariant, AllKnown, PTL
=============================================================================
