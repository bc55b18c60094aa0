-------------------------- MODULE ModuleFilesProofs --------------------------
(* Proofs about ModuleTypes and ModuleFiles, for every number of threads,       *)
(* modules and files: a library stays in memory as long as one of its functions *)
(* may be called, and no longer.                                                *)
EXTENDS ModuleFiles, OrderTheorems, TLAPS

OfLibrary(l) == {o \in alive : handle[o] = l}

\* What is alive is owned; what is registered has a library.
ObjectsOwned ==
    /\ alive \subseteq Range(db) \union Range(own)
    /\ \A t \in Threads : own[t] \in alive \union {None}
    /\ \A o \in Objects \ alive : handle[o] = None
    /\ \A o \in Range(db) : handle[o] # None

\* libltdl's counters count the objects.
Counted ==
    /\ inits = Cardinality(alive)
    /\ \A l \in Libraries : refs[l] = Cardinality(OfLibrary(l))

Owning == {"open", "resolve", "init", "fin", "hook"}

\* What each thread has at each of its steps; an object that has no library yet is
\* known to the thread that constructs it and to nobody else.
ThreadsPlaced ==
    \A t \in Threads :
        /\ own[t] # None <=> at[t] \in Owning
        /\ \/ at[t] \in {"open", "resolve", "init", "forget"}
           \/ at[t] = "fin" /\ t # Main
           => name[t] \in Libraries
        /\ at[t] = "open" => /\ handle[own[t]] = None
                             /\ \A u \in Threads : u # t => own[u] # own[t]
        /\ at[t] \in Owning \ {"open"} => handle[own[t]] # None

\* Who may be busy in which phase.  Nobody registers or unregisters types while Main
\* unloads what it has found in the registry.
PhasesPlaced ==
    /\ \A t \in Workers : at[t] # "idle" => phase = "mounted"
    /\ at[Main] \in {"open", "resolve", "init"} => phase = "starting"
    /\ at[Main] = "fin" => phase = "uninstalling"
    /\ at[Main] = "closing" => phase = "over"
    /\ at[Main] \in {"idle", "open", "resolve", "init", "fin", "closing"}
    /\ phase = "uninstalling" => \A i \in DOMAIN todo : IsRegistered(todo[i])
    /\ phase = "over" => db = <<>>
    /\ serial => \A t, u \in Workers : at[t] # "idle" /\ at[u] # "idle" => t = u
    /\ serial => \A t \in Workers : at[t] = "match" => peek[t] \in Range(db)

TypesInv == TypeOK /\ ObjectsOwned /\ Counted /\ ThreadsPlaced /\ PhasesPlaced

\* Which file each thread works on; the one that opens or closes a file is alone.
CallsPlaced ==
    /\ \A t \in Threads :
          /\ call[t] # None <=> at[t] \in {"opening", "using", "closing"}
          /\ call[t] # None => IsOpen(call[t])
    /\ \A t, u \in Threads :
          t # u /\ at[t] \in {"opening", "closing"} => call[u] # call[t]

\* The polling thread's list.
PolledOpen ==
    /\ \A f \in polled : IsOpen(f)
    /\ \A t \in Threads : at[t] = "opening" => call[t] \notin polled
    /\ asked # None => asked \in polled
    /\ ~polling => polled = {}
    /\ at[Main] = "closing" => ~polling

\* What careful programs have in use is registered, and nobody is changing it.
InUseKept ==
    careful =>
        /\ \A l \in Libraries : InUse(l) => IsRegistered(l) /\ ~Changing(l)
        /\ \A f \in Files : IsOpen(f) => phase = "mounted" /\ code[f] \in Libraries

FilesInv ==
    /\ TypesInv
    /\ FilesTypeOK
    /\ CallsPlaced
    /\ PolledOpen
    /\ InUseKept
-----------------------------------------------------------------------------
\* The objects are few enough to be counted.
LEMMA AliveFinite ==
    ASSUME TypeOK
    PROVE  /\ IsFiniteSet(alive) /\ Cardinality(alive) \in Nat
           /\ \A l : IsFiniteSet(OfLibrary(l)) /\ Cardinality(OfLibrary(l)) \in Nat
<1>1. IsFiniteSet(alive)
    BY ModuleAssumption, FS_Subset DEF TypeOK
<1>2. \A l : OfLibrary(l) \subseteq alive
    BY DEF OfLibrary
<1> QED
    BY <1>1, <1>2, FS_Subset, FS_CardinalityType

\* A library of a live object is open.
LEMMA LiveIsMapped ==
    ASSUME TypeOK, Counted, NEW o \in alive, handle[o] # None
    PROVE  Mapped(handle[o])
<1> DEFINE l == handle[o]
<1>1. l \in Libraries /\ o \in OfLibrary(l)
    BY DEF TypeOK, OfLibrary
<1>2. Cardinality(OfLibrary(l)) # 0
    BY <1>1, AliveFinite, FS_EmptySet
<1> QED
    BY <1>1, <1>2, AliveFinite DEF Counted, Mapped

\* An assignment to a shared_ptr, whatever it destroys: who is owned afterwards is
\* what is alive, and libltdl's counters count that.
LEMMA AssignKeeps ==
    ASSUME TypeOK, ObjectsOwned, Counted,
           NEW d \in Seq(alive), \A o \in Range(d) : handle[o] # None,
           NEW owners \in [Threads -> alive \union {None}],
           Assign(d, owners)
    PROVE  /\ db' = d /\ own' = owners
           /\ alive' = alive \intersect (Range(d) \union Range(owners))
           /\ db' \in Seq(alive')
           /\ handle' = [o \in Objects |-> IF o \in alive' THEN handle[o] ELSE None]
           /\ inits' \in Nat /\ refs' \in [Libraries -> Nat]
           /\ ObjectsOwned' /\ Counted'
<1> DEFINE gone == Unowned(d, owners)
<1>1. /\ db' = d /\ own' = owners /\ Destroy(gone)
    BY DEF Assign
<1>2. gone \subseteq alive /\ alive' = alive \ gone
    BY <1>1 DEF Unowned, Destroy
<1>3. alive' = alive \intersect (Range(d) \union Range(owners))
    BY <1>2 DEF Unowned
<1>4. db' \in Seq(alive')
    BY <1>1, <1>3 DEF Range
<1> HIDE DEF gone
<1>5. handle' = [o \in Objects |-> IF o \in alive' THEN handle[o] ELSE None]
    BY <1>1, <1>2 DEF Destroy, TypeOK, ObjectsOwned
<1>6. inits' = Cardinality(alive') /\ inits' \in Nat
    <2>1. alive' \subseteq alive /\ IsFiniteSet(alive') /\ IsFiniteSet(gone)
        BY <1>2, AliveFinite, FS_Subset
    <2>2. Cardinality(alive') = Cardinality(alive) - Cardinality(alive \intersect gone)
        BY <1>2, AliveFinite, FS_Difference
    <2>3. alive \intersect gone = gone
        BY <1>2
    <2>4. inits' = inits - Cardinality(gone)
        BY <1>1 DEF Destroy
    <2> QED
        BY <2>1, <2>2, <2>3, <2>4, FS_CardinalityType DEF Counted
<1>7. ASSUME NEW l \in Libraries
      PROVE  refs'[l] = Cardinality(OfLibrary(l)') /\ refs'[l] \in Nat
    <2> DEFINE lost == {o \in gone : handle[o] = l}
    <2>1. OfLibrary(l)' = OfLibrary(l) \ lost /\ lost \subseteq OfLibrary(l)
        BY <1>2, <1>5 DEF OfLibrary, TypeOK
    <2> HIDE DEF lost
    <2>2. /\ IsFiniteSet(OfLibrary(l)') /\ Cardinality(OfLibrary(l)') \in Nat
          /\ Cardinality(OfLibrary(l)')
                = Cardinality(OfLibrary(l)) - Cardinality(OfLibrary(l) \intersect lost)
        BY <2>1, AliveFinite, FS_Difference, FS_CardinalityType
    <2>3. OfLibrary(l) \intersect lost = lost
        BY <2>1
    <2>4. refs'[l] = IF inits' = 0 THEN 0 ELSE refs[l] - Cardinality(lost)
        BY <1>1 DEF Destroy, lost
    <2>5. CASE inits' = 0
        <3>1. IsFiniteSet(alive')
            BY <1>2, AliveFinite, FS_Subset
        <3>2. alive' = {}
            BY <2>5, <1>6, <3>1, FS_EmptySet
        <3>3. OfLibrary(l)' = {}
            BY <3>2 DEF OfLibrary
        <3> QED
            BY <2>4, <2>5, <3>3, FS_EmptySet
    <2>6. CASE inits' # 0
        BY <2>2, <2>3, <2>4, <2>6 DEF Counted
    <2> QED
        BY <2>5, <2>6
<1>8. refs' \in [Libraries -> Nat]
    BY <1>1, <1>7 DEF Destroy
<1>9. ObjectsOwned'
    BY <1>1, <1>3, <1>5 DEF ObjectsOwned, Range, TypeOK
<1>10. Counted'
    BY <1>6, <1>7 DEF Counted
<1> QED
    BY <1>1, <1>3, <1>4, <1>5, <1>6, <1>8, <1>9, <1>10

\* What unregister_ops leaves was there.
LEMMA WithoutIsPart ==
    ASSUME TypeOK, NEW l
    PROVE  Without(db, l) \in Seq(alive) /\ Range(Without(db, l)) \subseteq Range(db)
<1> DEFINE K == {i \in DOMAIN db : handle[db[i]] # l}
<1>1. db \in Seq(alive) /\ K \in SUBSET DOMAIN db
    BY DEF TypeOK
<1> HIDE DEF K
<1>2. /\ Picked(db, K) \in Seq(alive)
      /\ \A n \in DOMAIN Picked(db, K) : \E i \in K : Picked(db, K)[n] = db[i]
    BY <1>1, PickedElements
<1>3. Range(Picked(db, K)) \subseteq Range(db)
    BY <1>1, <1>2 DEF Range
<1> QED
    BY <1>2, <1>3 DEF Without, K

\* A type that is registered under other names stays.
LEMMA WithoutOthers ==
    ASSUME TypeOK, NEW l, NEW m, IsRegistered(m), m # l
    PROVE  \E o \in Range(Without(db, l)) : handle[o] = m
<1> DEFINE K == {i \in DOMAIN db : handle[db[i]] # l}
<1>1. db \in Seq(alive) /\ K \in SUBSET DOMAIN db
    BY DEF TypeOK
<1>2. PICK i \in K : handle[db[i]] = m
    BY DEF IsRegistered, Range
<1> HIDE DEF K
<1>3. Rank(K, i) \in DOMAIN Picked(db, K) /\ Picked(db, K)[Rank(K, i)] = db[i]
    BY <1>1, PickedElements
<1> QED
    BY <1>2, <1>3 DEF Without, K, Range

\* get_ops finds the first type of that name.
LEMMA GetOpsFinds ==
    ASSUME TypeOK, NEW l, IsRegistered(l)
    PROVE  GetOps(l) \in Range(db) /\ GetOps(l) \in alive /\ handle[GetOps(l)] = l
<1> DEFINE I == {i \in DOMAIN db : handle[db[i]] = l}
<1>1. db \in Seq(alive) /\ DOMAIN db = 1 .. Len(db) /\ Len(db) \in Nat
    BY DEF TypeOK
<1>2. I \in SUBSET Nat /\ I # {}
    BY <1>1 DEF IsRegistered, Range
<1>3. PICK m \in I : \A j \in I : m <= j
    <2> HIDE DEF I
    <2> QED
        BY <1>2, MinIsMember
<1>4. ASSUME NEW j \in 1 .. m - 1 PROVE handle[db[j]] # l
    <2>1. j \in DOMAIN db /\ ~(m <= j)
        BY <1>1, <1>3
    <2> QED
        BY <1>3, <2>1
<1>5. \E i \in DOMAIN db : handle[db[i]] = l /\ \A j \in 1 .. i - 1 : handle[db[j]] # l
    BY <1>3, <1>4
<1>6. PICK i \in DOMAIN db : GetOps(l) = db[i] /\ handle[db[i]] = l
    BY <1>5 DEF GetOps
<1> QED
    BY <1>1, <1>6 DEF Range

\* A thread that owned nothing gets an object; nobody loses one.
LEMMA Takes ==
    ASSUME TypeOK, NEW t \in Threads, own[t] = None, NEW o,
           own' = [own EXCEPT ![t] = o]
    PROVE  Range(own') \subseteq Range(own) \union {o} /\ o \in Range(own')
           /\ \A x \in Range(own) : x # None => x \in Range(own')
BY DEF TypeOK, Range

\* install_module: the new object has no library and is known to its thread.
LEMMA LoadBeginKeeps ==
    ASSUME TypesInv, NEW t \in Threads, NEW l \in Libraries, LoadBegin(t, l)
    PROVE  TypesInv'
<1> USE ModuleAssumption DEF TypesInv, LoadBegin, Threads, Ready, Goto
<1>1. TypeOK'
    BY DEF TypeOK, ThreadsPlaced, Owning
<1>2. PICK o \in Objects \ alive :
          alive' = alive \union {o} /\ own' = [own EXCEPT ![t] = o]
    OBVIOUS
<1>3. own[t] = None
    BY DEF ThreadsPlaced, Owning
<1>4. handle[o] = None /\ o # None /\ o \notin Range(db)
    BY DEF ObjectsOwned, TypeOK, Range
<1>5. ObjectsOwned'
    <2>0. o \in Range(own') /\ \A x \in Range(own) : x # None => x \in Range(own')
        BY <1>2, <1>3, Takes
    <2>1. alive' \subseteq Range(db) \union Range(own')
        <3>1. \A x \in alive : x \in Range(db) \union Range(own) /\ x # None
            BY DEF ObjectsOwned, TypeOK
        <3> QED
            BY <1>2, <2>0, <3>1
    <2>2. \A u \in Threads : own'[u] \in alive' \union {None}
        BY <1>2 DEF ObjectsOwned, TypeOK
    <2> QED
        BY <1>2, <2>1, <2>2 DEF ObjectsOwned
<1>6. Counted'
    <2>1. Cardinality(alive') = Cardinality(alive) + 1
        BY <1>2, AliveFinite, FS_AddElement
    <2>2. \A k \in Libraries : OfLibrary(k)' = OfLibrary(k)
        BY <1>2, <1>4 DEF OfLibrary
    <2> QED
        BY <2>1, <2>2 DEF Counted
<1>7. ThreadsPlaced'
    BY DEF ThreadsPlaced, Owning, TypeOK, ObjectsOwned, Range
<1>8. PhasesPlaced'
    BY DEF PhasesPlaced, ThreadsPlaced, Owning, TypeOK, ObjectsOwned, IsRegistered,
           Range
<1> QED
    BY <1>1, <1>5, <1>6, <1>7, <1>8

\* dl_loader_: lt_dlopen counts the object that gets the library.
LEMMA LoadOpensKeeps ==
    ASSUME TypesInv, NEW t \in Threads, LoadOpens(t)
    PROVE  TypesInv'
<1> USE ModuleAssumption DEF TypesInv, LoadOpens, Threads, Goto
<1>1. TypeOK'
    BY DEF TypeOK, ThreadsPlaced, Owning
<1>2. /\ own[t] \in alive /\ own[t] \in Objects /\ handle[own[t]] = None
      /\ name[t] \in Libraries /\ name[t] # None
    BY DEF ThreadsPlaced, Owning, ObjectsOwned, TypeOK
<1>3. ObjectsOwned'
    BY <1>2 DEF ObjectsOwned, TypeOK
<1>4. Counted'
    <2>1. ASSUME NEW l \in Libraries PROVE refs'[l] = Cardinality(OfLibrary(l)')
        <3>1. CASE l = name[t]
            <4>1. OfLibrary(l)' = OfLibrary(l) \union {own[t]} /\ own[t] \notin OfLibrary(l)
                BY <1>2, <3>1 DEF OfLibrary, TypeOK
            <4>2. Cardinality(OfLibrary(l)') = Cardinality(OfLibrary(l)) + 1
                BY <4>1, AliveFinite, FS_AddElement
            <4> QED
                BY <3>1, <4>2 DEF Counted, TypeOK
        <3>2. CASE l # name[t]
            <4>1. OfLibrary(l)' = OfLibrary(l)
                BY <1>2, <3>2 DEF OfLibrary, TypeOK
            <4> QED
                BY <3>2, <4>1 DEF Counted, TypeOK
        <3> QED
            BY <3>1, <3>2
    <2> QED
        BY <2>1 DEF Counted
<1>5. ThreadsPlaced'
    BY DEF ThreadsPlaced, Owning, TypeOK, ObjectsOwned, Range
<1>6. PhasesPlaced'
    BY DEF PhasesPlaced, ThreadsPlaced, Owning, TypeOK, ObjectsOwned, IsRegistered,
           Range
<1> QED
    BY <1>1, <1>3, <1>4, <1>5, <1>6

\* A constructor that throws destroys what it has constructed.
LEMMA LoadThrowsKeeps ==
    ASSUME TypesInv, NEW t \in Threads, LoadThrows(t)
    PROVE  TypesInv'
<1> USE ModuleAssumption DEF TypesInv, LoadThrows, Threads, Goto, Reply, MainGoesOn
<1>0. /\ db' = db /\ own' = [own EXCEPT ![t] = None]
      /\ alive' = alive \intersect (Range(db) \union Range([own EXCEPT ![t] = None]))
      /\ db' \in Seq(alive')
      /\ handle' = [o \in Objects |-> IF o \in alive' THEN handle[o] ELSE None]
      /\ inits' \in Nat /\ refs' \in [Libraries -> Nat]
      /\ ObjectsOwned' /\ Counted'
    <2>1. db \in Seq(alive) /\ \A o \in Range(db) : handle[o] # None
        BY DEF TypeOK, ObjectsOwned, Range
    <2>2. [own EXCEPT ![t] = None] \in [Threads -> alive \union {None}]
        BY DEF TypeOK, ObjectsOwned
    <2>3. Assign(db, [own EXCEPT ![t] = None])
        OBVIOUS
    <2> QED
        BY <2>1, <2>2, <2>3, AssignKeeps
<1>1. TypeOK'
    BY <1>0 DEF TypeOK
<1>2. ObjectsOwned' /\ Counted'
    BY <1>0
<1>3. ThreadsPlaced'
    BY <1>0 DEF ThreadsPlaced, Owning, TypeOK, ObjectsOwned, Range
<1>4. PhasesPlaced'
    BY <1>0 DEF PhasesPlaced, ThreadsPlaced, Owning, TypeOK, ObjectsOwned,
           IsRegistered, Range
<1> QED
    BY <1>1, <1>2, <1>3, <1>4

\* register_ops: the registry shares the object with its thread.
LEMMA RegisterKeeps ==
    ASSUME TypesInv, NEW t \in Threads, Register(t)
    PROVE  TypesInv'
<1> USE ModuleAssumption DEF TypesInv, Register, Threads, Goto
<1>a. /\ own[t] \in alive /\ handle[own[t]] # None
      /\ db \in Seq(alive) /\ db' = Append(db, own[t])
    BY DEF ThreadsPlaced, Owning, ObjectsOwned, TypeOK
<1>b. db' \in Seq(alive) /\ Range(db') = Range(db) \union {own[t]}
    BY <1>a DEF Range
<1>1. TypeOK'
    BY <1>b DEF TypeOK
<1>2. ObjectsOwned'
    BY <1>a, <1>b DEF ObjectsOwned
<1>3. Counted'
    BY AliveFinite DEF Counted, OfLibrary
<1>4. ThreadsPlaced'
    BY DEF ThreadsPlaced, Owning, TypeOK, ObjectsOwned, Range
<1>5. PhasesPlaced'
    BY DEF PhasesPlaced, ThreadsPlaced, Owning, TypeOK, ObjectsOwned, IsRegistered,
           Range
<1> QED
    BY <1>1, <1>2, <1>3, <1>4, <1>5

\* The initializer of the module has returned: the thread gives up its share.
LEMMA ModInitKeeps ==
    ASSUME TypesInv, NEW t \in Threads, ModInit(t)
    PROVE  TypesInv'
<1> USE ModuleAssumption DEF TypesInv, ModInit, Threads, Goto, Reply, MainGoesOn
<1>0. /\ db' = db /\ own' = [own EXCEPT ![t] = None]
      /\ alive' = alive \intersect (Range(db) \union Range([own EXCEPT ![t] = None]))
      /\ db' \in Seq(alive')
      /\ handle' = [o \in Objects |-> IF o \in alive' THEN handle[o] ELSE None]
      /\ inits' \in Nat /\ refs' \in [Libraries -> Nat]
      /\ ObjectsOwned' /\ Counted'
    <2>1. db \in Seq(alive) /\ \A o \in Range(db) : handle[o] # None
        BY DEF TypeOK, ObjectsOwned, Range
    <2>2. [own EXCEPT ![t] = None] \in [Threads -> alive \union {None}]
        BY DEF TypeOK, ObjectsOwned
    <2>3. Assign(db, [own EXCEPT ![t] = None])
        OBVIOUS
    <2> QED
        BY <2>1, <2>2, <2>3, AssignKeeps
<1>1. TypeOK'
    BY <1>0 DEF TypeOK
<1>2. ObjectsOwned' /\ Counted'
    BY <1>0
<1>3. ThreadsPlaced'
    BY <1>0 DEF ThreadsPlaced, Owning, TypeOK, ObjectsOwned, Range
<1>4. PhasesPlaced'
    BY <1>0 DEF PhasesPlaced, ThreadsPlaced, Owning, TypeOK, ObjectsOwned,
           IsRegistered, Range
<1> QED
    BY <1>1, <1>2, <1>3, <1>4

\* The initializer throws: the type leaves the registry again.
LEMMA ModInitFailsKeeps ==
    ASSUME TypesInv, NEW t \in Threads, ModInitFails(t)
    PROVE  TypesInv'
<1> USE ModuleAssumption DEF TypesInv, ModInitFails, Threads, Goto, Reply,
        MainGoesOn
<1>0. /\ db' = Without(db, name[t]) /\ own' = [own EXCEPT ![t] = None]
      /\ alive' = alive \intersect
                    (Range(Without(db, name[t])) \union Range([own EXCEPT ![t] = None]))
      /\ db' \in Seq(alive')
      /\ handle' = [o \in Objects |-> IF o \in alive' THEN handle[o] ELSE None]
      /\ inits' \in Nat /\ refs' \in [Libraries -> Nat]
      /\ ObjectsOwned' /\ Counted'
    <2>1. /\ Without(db, name[t]) \in Seq(alive)
          /\ \A o \in Range(Without(db, name[t])) : handle[o] # None
        BY WithoutIsPart DEF ObjectsOwned
    <2>2. [own EXCEPT ![t] = None] \in [Threads -> alive \union {None}]
        BY DEF TypeOK, ObjectsOwned
    <2>3. Assign(Without(db, name[t]), [own EXCEPT ![t] = None])
        OBVIOUS
    <2> QED
        BY <2>1, <2>2, <2>3, AssignKeeps
<1>1. TypeOK'
    BY <1>0 DEF TypeOK
<1>2. ObjectsOwned' /\ Counted'
    BY <1>0
<1>3. ThreadsPlaced'
    BY <1>0 DEF ThreadsPlaced, Owning, TypeOK, ObjectsOwned, Range
<1>4. PhasesPlaced'
    BY <1>0 DEF PhasesPlaced, ThreadsPlaced, Owning, TypeOK, ObjectsOwned,
           IsRegistered, Range
<1> QED
    BY <1>1, <1>2, <1>3, <1>4

\* uninstall_module: the thread shares the object that get_ops finds.
LEMMA UnloadBeginKeeps ==
    ASSUME TypesInv, NEW t \in Threads, NEW l \in Libraries, UnloadBegin(t, l)
    PROVE  TypesInv'
<1> USE ModuleAssumption DEF TypesInv, UnloadBegin, Threads, Ready, Goto
<1>1. TypeOK'
    BY GetOpsFinds DEF TypeOK, ThreadsPlaced, Owning
<1>2. ObjectsOwned'
    <2>1. own[t] = None
        BY DEF ThreadsPlaced, Owning
    <2>2. GetOps(l) \in alive
        BY GetOpsFinds
    <2>3. \A x \in Range(own) : x # None => x \in Range(own')
        BY <2>1, Takes
    <2>4. alive' \subseteq Range(db) \union Range(own')
        BY <2>3 DEF ObjectsOwned, TypeOK
    <2>5. \A u \in Threads : own'[u] \in alive \union {None}
        BY <2>2 DEF ObjectsOwned, TypeOK
    <2> QED
        BY <2>4, <2>5 DEF ObjectsOwned
<1>3. Counted'
    BY AliveFinite DEF Counted, OfLibrary
<1>4. ThreadsPlaced'
    BY GetOpsFinds DEF ThreadsPlaced, Owning, TypeOK, ObjectsOwned, Range
<1>5. PhasesPlaced'
    BY GetOpsFinds DEF PhasesPlaced, ThreadsPlaced, Owning, TypeOK, ObjectsOwned,
           IsRegistered, Range
<1> QED
    BY <1>1, <1>2, <1>3, <1>4, <1>5

\* uninstall_module of a name that is not there: the thread has nothing yet.
LEMMA UnloadMissingKeeps ==
    ASSUME TypesInv, NEW t \in Threads, NEW l \in Libraries, UnloadMissing(t, l)
    PROVE  TypesInv'
<1> USE ModuleAssumption DEF TypesInv, UnloadMissing, Threads, Ready, Goto
<1>1. TypeOK'
    BY DEF TypeOK, ThreadsPlaced, Owning
<1>2. ObjectsOwned' /\ Counted'
    BY DEF ObjectsOwned, Counted, OfLibrary
<1>3. ThreadsPlaced'
    BY DEF ThreadsPlaced, Owning, TypeOK
<1>4. PhasesPlaced'
    BY DEF PhasesPlaced, TypeOK, IsRegistered
<1> QED
    BY <1>1, <1>2, <1>3, <1>4

\* The finalizer of the module has returned: the thread gives up its share.
LEMMA ModFinKeeps ==
    ASSUME TypesInv, NEW t \in Threads, ModFin(t)
    PROVE  TypesInv'
<1> USE ModuleAssumption DEF TypesInv, ModFin, Threads, Goto, Reply
<1>0. /\ db' = db /\ own' = [own EXCEPT ![t] = None]
      /\ alive' = alive \intersect (Range(db) \union Range([own EXCEPT ![t] = None]))
      /\ db' \in Seq(alive')
      /\ handle' = [o \in Objects |-> IF o \in alive' THEN handle[o] ELSE None]
      /\ inits' \in Nat /\ refs' \in [Libraries -> Nat]
      /\ ObjectsOwned' /\ Counted'
    <2>1. db \in Seq(alive) /\ \A o \in Range(db) : handle[o] # None
        BY DEF TypeOK, ObjectsOwned, Range
    <2>2. [own EXCEPT ![t] = None] \in [Threads -> alive \union {None}]
        BY DEF TypeOK, ObjectsOwned
    <2>3. Assign(db, [own EXCEPT ![t] = None])
        OBVIOUS
    <2> QED
        BY <2>1, <2>2, <2>3, AssignKeeps
<1>1. TypeOK'
    BY <1>0 DEF TypeOK
<1>2. ObjectsOwned' /\ Counted'
    BY <1>0
<1>a. at[t] = "fin" /\ at' \in {[at EXCEPT ![t] = "idle"], [at EXCEPT ![t] = "forget"]}
      /\ (at'[t] = "forget" => t # Main /\ name' = name)
      /\ name' \in {name, [name EXCEPT ![t] = None]}
      /\ (t = Main => at'[t] = "idle")
      /\ UNCHANGED <<serial, phase, todo, peek>>
    BY DEF TypeOK
<1> HIDE DEF ModFin
<1>3. ThreadsPlaced'
    <2>1. at'[t] = "forget" => name'[t] \in Libraries
        BY <1>a DEF ThreadsPlaced
    <2>2. own'[t] = None /\ \A u \in Threads : u # t =>
             own'[u] = own[u] /\ at'[u] = at[u] /\ name'[u] = name[u]
        BY <1>0, <1>a DEF TypeOK
    <2>3. \A u \in Threads : u # t /\ own[u] # None => handle'[own[u]] = handle[own[u]]
        BY <1>0, <2>2 DEF TypeOK, ObjectsOwned, Range
    <2>4. at'[t] \in {"idle", "forget"}
        BY <1>a DEF TypeOK
    <2> HIDE <1>0, <1>a
    <2> QED
        BY <2>1, <2>2, <2>3, <2>4 DEF ThreadsPlaced, Owning
<1>4. PhasesPlaced'
    <2>1. \A u \in Threads : /\ at'[u] = "idle" \/ at[u] # "idle"
                             /\ u # t => at'[u] = at[u]
        BY <1>a DEF TypeOK
    <2>2. t = Main => at'[Main] = "idle"
        BY <1>a
    <2>3. Range(db) \subseteq alive' /\ \A o \in Range(db) : handle'[o] = handle[o]
        BY <1>0 DEF TypeOK, Range
    <2>4. db' = db /\ UNCHANGED <<serial, phase, todo, peek>> /\ at'[t] # "match"
        BY <1>0, <1>a DEF TypeOK
    <2> HIDE <1>0, <1>a
    <2> QED
        BY <2>1, <2>2, <2>3, <2>4 DEF PhasesPlaced, IsRegistered
<1> QED
    BY <1>1, <1>2, <1>3, <1>4

\* unregister_ops: the registry gives up every object of that name.
LEMMA ForgetKeeps ==
    ASSUME TypesInv, NEW t \in Threads, Forget(t)
    PROVE  TypesInv'
<1> USE ModuleAssumption DEF TypesInv, Forget, Threads, Goto, Reply
<1>0. /\ db' = Without(db, name[t]) /\ own' = own
      /\ alive' = alive \intersect (Range(Without(db, name[t])) \union Range(own))
      /\ db' \in Seq(alive')
      /\ handle' = [o \in Objects |-> IF o \in alive' THEN handle[o] ELSE None]
      /\ inits' \in Nat /\ refs' \in [Libraries -> Nat]
      /\ ObjectsOwned' /\ Counted'
    <2>1. /\ Without(db, name[t]) \in Seq(alive)
          /\ \A o \in Range(Without(db, name[t])) : handle[o] # None
        BY WithoutIsPart DEF ObjectsOwned
    <2>2. own \in [Threads -> alive \union {None}]
        BY DEF TypeOK, ObjectsOwned
    <2>3. Assign(Without(db, name[t]), own)
        OBVIOUS
    <2> QED
        BY <2>1, <2>2, <2>3, AssignKeeps
<1>1. TypeOK'
    BY <1>0 DEF TypeOK
<1>2. ObjectsOwned' /\ Counted'
    BY <1>0
<1>3. ThreadsPlaced'
    BY <1>0 DEF ThreadsPlaced, Owning, TypeOK, ObjectsOwned, Range
<1>4. PhasesPlaced'
    BY <1>0 DEF PhasesPlaced, ThreadsPlaced, Owning, TypeOK, ObjectsOwned,
           IsRegistered, Range
<1> QED
    BY <1>1, <1>2, <1>3, <1>4

\* open or mknod: the thread shares the type of the file it is about.
LEMMA HookBeginKeeps ==
    ASSUME TypesInv, NEW t \in Threads, NEW l \in Libraries, HookBegin(t, l)
    PROVE  TypesInv'
<1> USE ModuleAssumption DEF TypesInv, HookBegin, Threads, Ready, Goto
<1>1. TypeOK'
    BY GetOpsFinds DEF TypeOK, ThreadsPlaced, Owning
<1>2. ObjectsOwned'
    <2>1. own[t] = None
        BY DEF ThreadsPlaced, Owning
    <2>2. GetOps(l) \in alive
        BY GetOpsFinds
    <2>3. \A x \in Range(own) : x # None => x \in Range(own')
        BY <2>1, Takes
    <2>4. alive' \subseteq Range(db) \union Range(own')
        BY <2>3 DEF ObjectsOwned, TypeOK
    <2>5. \A u \in Threads : own'[u] \in alive \union {None}
        BY <2>2 DEF ObjectsOwned, TypeOK
    <2> QED
        BY <2>4, <2>5 DEF ObjectsOwned
<1>3. Counted'
    BY AliveFinite DEF Counted, OfLibrary
<1>4. ThreadsPlaced'
    BY GetOpsFinds DEF ThreadsPlaced, Owning, TypeOK, ObjectsOwned, Range
<1>5. PhasesPlaced'
    BY GetOpsFinds DEF PhasesPlaced, ThreadsPlaced, Owning, TypeOK, ObjectsOwned,
           IsRegistered, Range
<1> QED
    BY <1>1, <1>2, <1>3, <1>4, <1>5

\* The hook of the type has returned: the thread gives up its share.
LEMMA HookEndKeeps ==
    ASSUME TypesInv, NEW t \in Threads, HookEnd(t)
    PROVE  TypesInv'
<1> USE ModuleAssumption DEF TypesInv, HookEnd, Threads, Goto, Reply
<1>0. /\ db' = db /\ own' = [own EXCEPT ![t] = None]
      /\ alive' = alive \intersect (Range(db) \union Range([own EXCEPT ![t] = None]))
      /\ db' \in Seq(alive')
      /\ handle' = [o \in Objects |-> IF o \in alive' THEN handle[o] ELSE None]
      /\ inits' \in Nat /\ refs' \in [Libraries -> Nat]
      /\ ObjectsOwned' /\ Counted'
    <2>1. db \in Seq(alive) /\ \A o \in Range(db) : handle[o] # None
        BY DEF TypeOK, ObjectsOwned, Range
    <2>2. [own EXCEPT ![t] = None] \in [Threads -> alive \union {None}]
        BY DEF TypeOK, ObjectsOwned
    <2>3. Assign(db, [own EXCEPT ![t] = None])
        OBVIOUS
    <2> QED
        BY <2>1, <2>2, <2>3, AssignKeeps
<1>1. TypeOK'
    BY <1>0 DEF TypeOK
<1>2. ObjectsOwned' /\ Counted'
    BY <1>0
<1>3. ThreadsPlaced'
    BY <1>0 DEF ThreadsPlaced, Owning, TypeOK, ObjectsOwned, Range
<1>4. PhasesPlaced'
    BY <1>0 DEF PhasesPlaced, ThreadsPlaced, Owning, TypeOK, ObjectsOwned,
           IsRegistered, Range
<1> QED
    BY <1>1, <1>2, <1>3, <1>4

\* The matcher of a registered type is about to be called.
LEMMA MatchBeginKeeps ==
    ASSUME TypesInv, NEW t \in Threads, NEW o \in Objects, MatchBegin(t, o)
    PROVE  TypesInv'
<1> USE ModuleAssumption DEF TypesInv, MatchBegin, Threads, Ready, Goto
<1>1. TypeOK'
    BY DEF TypeOK, ThreadsPlaced, Owning
<1>2. ObjectsOwned'
    BY DEF ObjectsOwned
<1>3. Counted'
    BY AliveFinite DEF Counted, OfLibrary
<1>4. ThreadsPlaced'
    BY DEF ThreadsPlaced, Owning, TypeOK, ObjectsOwned, Range
<1>5. PhasesPlaced'
    BY DEF PhasesPlaced, ThreadsPlaced, Owning, TypeOK, ObjectsOwned, IsRegistered,
           Range
<1> QED
    BY <1>1, <1>2, <1>3, <1>4, <1>5

\* The matcher has returned.
LEMMA MatchEndKeeps ==
    ASSUME TypesInv, NEW t \in Threads, MatchEnd(t)
    PROVE  TypesInv'
<1> USE ModuleAssumption DEF TypesInv, MatchEnd, Threads, Goto, Reply
<1>1. TypeOK'
    BY DEF TypeOK, ThreadsPlaced, Owning
<1>2. ObjectsOwned'
    BY DEF ObjectsOwned
<1>3. Counted'
    BY AliveFinite DEF Counted, OfLibrary
<1>4. ThreadsPlaced'
    BY DEF ThreadsPlaced, Owning, TypeOK, ObjectsOwned, Range
<1>5. PhasesPlaced'
    BY DEF PhasesPlaced, ThreadsPlaced, Owning, TypeOK, ObjectsOwned, IsRegistered,
           Range
<1> QED
    BY <1>1, <1>2, <1>3, <1>4, <1>5

\* The file system is unmounted: no thread but Main is left.
LEMMA UnmountKeeps ==
    ASSUME TypesInv, Unmount
    PROVE  TypesInv'
<1> USE ModuleAssumption DEF TypesInv, Unmount, Threads
<1>a. todo' \in Seq(Libraries)
    <2>1. \A i \in DOMAIN db : handle[db[i]] \in Libraries
        BY DEF TypeOK, ObjectsOwned, Range
    <2>2. DOMAIN db = 1 .. Len(db) /\ Len(db) \in Nat
        BY DEF TypeOK
    <2> QED
        BY <2>1, <2>2
<1>1. TypeOK'
    BY <1>a DEF TypeOK
<1>2. ObjectsOwned'
    BY DEF ObjectsOwned
<1>3. Counted'
    BY AliveFinite DEF Counted, OfLibrary
<1>4. ThreadsPlaced'
    BY DEF ThreadsPlaced, Owning, TypeOK, ObjectsOwned, Range
<1>5. PhasesPlaced'
    BY DEF PhasesPlaced, ThreadsPlaced, Owning, TypeOK, ObjectsOwned, IsRegistered,
           Range
<1> QED
    BY <1>1, <1>2, <1>3, <1>4, <1>5

\* uninstall_modules takes the next name; its type is still registered.
LEMMA UninstallNextKeeps ==
    ASSUME TypesInv, UninstallNext
    PROVE  TypesInv'
<1> USE ModuleAssumption DEF TypesInv, UninstallNext, Threads, Goto
<1>a. Head(todo) \in Libraries /\ Tail(todo) \in Seq(Libraries)
      /\ \A i \in DOMAIN Tail(todo) : i + 1 \in DOMAIN todo /\ Tail(todo)[i] = todo[i + 1]
    BY DEF TypeOK
<1>b. IsRegistered(Head(todo))
    <2>1. 1 \in DOMAIN todo /\ Head(todo) = todo[1]
        BY DEF TypeOK
    <2> QED
        BY <2>1 DEF PhasesPlaced
<1>c. GetOps(Head(todo)) \in alive /\ handle[GetOps(Head(todo))] # None
    BY <1>a, <1>b, GetOpsFinds
<1>d. own[Main] = None
    BY DEF ThreadsPlaced, Owning
<1> DEFINE o == GetOps(Head(todo))
<1>e. own' = [own EXCEPT ![Main] = o] /\ o \in alive /\ handle[o] # None
    BY <1>c
<1> HIDE DEF o
<1>1. TypeOK'
    BY <1>a, <1>e DEF TypeOK
<1>2. ObjectsOwned'
    <2>1. \A x \in Range(own) : x # None => x \in Range(own')
        BY <1>d, <1>e, Takes
    <2>2. alive' \subseteq Range(db) \union Range(own')
        BY <2>1 DEF ObjectsOwned, TypeOK
    <2>3. \A u \in Threads : own'[u] \in alive \union {None}
        BY <1>e DEF ObjectsOwned, TypeOK
    <2> QED
        BY <2>2, <2>3 DEF ObjectsOwned
<1>3. Counted'
    BY AliveFinite DEF Counted, OfLibrary
<1>4. ThreadsPlaced'
    BY <1>e DEF ThreadsPlaced, Owning, TypeOK, ObjectsOwned, PhasesPlaced
<1>5. PhasesPlaced'
    <2>1. \A l : IsRegistered(l)' <=> IsRegistered(l)
        BY DEF IsRegistered
    <2>2. \A i \in DOMAIN todo' : IsRegistered(todo'[i])
        BY <1>a DEF PhasesPlaced
    <2>3. at'[Main] = "fin" /\ \A u \in Workers : at'[u] = at[u]
        BY DEF TypeOK
    <2> QED
        BY <2>1, <2>2, <2>3 DEF PhasesPlaced
<1> QED
    BY <1>1, <1>2, <1>3, <1>4, <1>5

\* ops_db_.clear(): nothing is registered any more.
LEMMA ClearDbKeeps ==
    ASSUME TypesInv, ClearDb
    PROVE  TypesInv'
<1> USE ModuleAssumption DEF TypesInv, ClearDb, Threads
<1>0. /\ db' = <<>> /\ own' = own
      /\ alive' = alive \intersect (Range(<<>>) \union Range(own))
      /\ db' \in Seq(alive')
      /\ handle' = [o \in Objects |-> IF o \in alive' THEN handle[o] ELSE None]
      /\ inits' \in Nat /\ refs' \in [Libraries -> Nat]
      /\ ObjectsOwned' /\ Counted'
    <2>1. <<>> \in Seq(alive) /\ \A o \in Range(<<>>) : handle[o] # None
        BY DEF TypeOK, ObjectsOwned, Range
    <2>2. own \in [Threads -> alive \union {None}]
        BY DEF TypeOK, ObjectsOwned
    <2>3. Assign(<<>>, own)
        OBVIOUS
    <2> QED
        BY <2>1, <2>2, <2>3, AssignKeeps
<1>1. TypeOK'
    BY <1>0 DEF TypeOK
<1>2. ObjectsOwned' /\ Counted'
    BY <1>0
<1>3. ThreadsPlaced'
    BY <1>0 DEF ThreadsPlaced, Owning, TypeOK, ObjectsOwned, Range
<1>4. PhasesPlaced'
    BY <1>0 DEF PhasesPlaced, ThreadsPlaced, Owning, TypeOK, ObjectsOwned,
           IsRegistered, Range
<1> QED
    BY <1>1, <1>2, <1>3, <1>4

\* Every step of the types keeps the invariant: one lemma for each action.
LEMMA TypesKeep == TypesInv /\ Next => TypesInv'
<1> SUFFICES ASSUME TypesInv, Next PROVE TypesInv'
    OBVIOUS
<1>1. ASSUME NEW t \in Threads, ThreadStep(t) PROVE TypesInv'
    BY <1>1, LoadOpensKeeps, LoadThrowsKeeps, RegisterKeeps, ModInitKeeps,
       ModInitFailsKeeps, ModFinKeeps, ForgetKeeps, HookEndKeeps, MatchEndKeeps,
       LoadBeginKeeps, UnloadBeginKeeps, UnloadMissingKeeps, HookBeginKeeps,
           MatchBeginKeeps
           DEF ThreadStep
<1>2. CASE Unmount \/ UninstallNext \/ ClearDb
    BY <1>2, UnmountKeeps, UninstallNextKeeps, ClearDbKeeps
<1> QED
    BY <1>1, <1>2 DEF Next

\* What the files need to know of such a step.  Calls of operations go on; a hook
\* keeps its type, or begins with a registered one; only the thread that changes a
\* library unregisters it, and begins to change it when it was idle.
Effects ==
    /\ phase = "mounted" => phase' \in {"mounted", "uninstalling"}
    /\ phase' = "mounted" => phase \in {"starting", "mounted"}
    /\ \A t \in Threads : {at[t], at'[t]} \intersect {"opening", "using", "closing"} # {}
          => at'[t] = at[t]
    /\ \A t \in Threads : at'[t] = "hook" =>
          \/ /\ at[t] = "hook"
             /\ own[t] \in alive /\ handle'[own'[t]] = handle[own[t]]
          \/ /\ at[t] = "idle" /\ t \in Workers /\ phase = "mounted"
             /\ handle' = handle /\ IsRegistered(handle[own'[t]])
             /\ \A u \in Threads : u # t => at'[u] = at[u]
    /\ \A l \in Libraries : phase = "mounted" /\ IsRegistered(l) /\ ~Changing(l) =>
          /\ IsRegistered(l)'
          /\ Changing(l)' => \E t \in Workers :
                at[t] = "idle" /\ at'[t] \in {"open", "fin", "forget"} /\ name'[t] = l

\* The steps that give up an object: what is still owned keeps its library.
LEMMA AssignEffects ==
    ASSUME TypesInv, NEW t \in Threads, NEW d, NEW owners, Assign(d, owners),
           d = db \/ (d = Without(db, name[t]) /\ Changing(name[t])),
           owners \in {own, [own EXCEPT ![t] = None]},
           at' \in {[at EXCEPT ![t] = "idle"], [at EXCEPT ![t] = "forget"]},
           at[t] \notin {"opening", "using", "closing"},
           at'[t] = "forget" => at[t] = "fin" /\ name' = name,
           name' \in {name, [name EXCEPT ![t] = None]},
           phase = "mounted" => phase' = "mounted",
           phase' = "mounted" => phase \in {"starting", "mounted"}
    PROVE  Effects
<1> USE DEF TypesInv
<1>1. /\ db' = d /\ own' = owners
      /\ \A o \in Objects : o \in Range(d) \union Range(owners) => handle'[o] = handle[o]
    BY DEF Assign, Destroy, Unowned
<1>2. /\ at'[t] \in {"idle", "forget"}
      /\ \A u \in Threads : u # t =>
                at'[u] = at[u] /\ name'[u] = name[u] /\ own'[u] = own[u]
    BY <1>1 DEF TypeOK
<1>3. ASSUME NEW u \in Threads, at'[u] = "hook"
      PROVE  at[u] = "hook" /\ own[u] \in alive /\ handle'[own'[u]] = handle[own[u]]
    <2>1. u # t /\ at[u] = "hook" /\ own[u] # None
        BY <1>2, <1>3 DEF ThreadsPlaced, Owning
    <2>2. /\ own[u] \in alive /\ own[u] \in Objects
          /\ own'[u] = own[u] /\ own[u] \in Range(owners)
        BY <1>1, <1>2, <2>1 DEF ObjectsOwned, TypeOK, Range
    <2> QED
        BY <1>1, <2>1, <2>2
<1>4. ASSUME NEW l \in Libraries, IsRegistered(l), ~Changing(l)
      PROVE  IsRegistered(l)' /\ ~Changing(l)'
    <2>1. \E o \in Range(d) : handle[o] = l
        BY <1>4, WithoutOthers DEF IsRegistered
    <2>2. Range(d) \subseteq Objects
        BY WithoutIsPart DEF TypeOK, Range
    <2>3. IsRegistered(l)'
        BY <1>1, <2>1, <2>2 DEF IsRegistered
    <2>4. ~Changing(l)'
        BY <1>2, <1>4 DEF Changing, TypeOK
    <2> QED
        BY <2>3, <2>4
<1> QED
    BY <1>2, <1>3, <1>4 DEF Effects

\* Every step of the types has those effects.
LEMMA StepEffects == TypesInv /\ Next => Effects
<1> SUFFICES ASSUME TypesInv, Next PROVE Effects
    OBVIOUS
<1> USE ModuleAssumption DEF TypesInv, Threads, Goto, Reply, Ready, MainGoesOn
<1>1. ASSUME NEW t \in Threads, ThreadStep(t) PROVE Effects
    <2>1. ASSUME NEW l \in Libraries, LoadBegin(t, l) PROVE Effects
        BY <2>1, GetOpsFinds, WithoutOthers
           DEF LoadBegin, Effects, TypeOK, PhasesPlaced, ThreadsPlaced, Owning,
               ObjectsOwned, IsRegistered, Changing, Range
    <2>2. ASSUME LoadOpens(t) PROVE Effects
        BY <2>2, GetOpsFinds, WithoutOthers
           DEF LoadOpens, Effects, TypeOK, PhasesPlaced, ThreadsPlaced, Owning,
               ObjectsOwned, IsRegistered, Changing, Range
    <2>3. ASSUME LoadThrows(t) PROVE Effects
        <3>1. /\ Assign(db, [own EXCEPT ![t] = None])
              /\ at' \in {[at EXCEPT ![t] = "idle"], [at EXCEPT ![t] = "forget"]}
              /\ at'[t] = "forget" => at[t] = "fin" /\ name' = name
              /\ name' \in {name, [name EXCEPT ![t] = None]}
              /\ at[t] \notin {"opening", "using", "closing"}
            BY <2>3 DEF LoadThrows, TypeOK
        <3>2. /\ phase = "mounted" => phase' = "mounted"
              /\ phase' = "mounted" => phase \in {"starting", "mounted"}
            BY <2>3 DEF LoadThrows
        <3> QED
            BY <3>1, <3>2, AssignEffects
    <2>4. ASSUME Register(t) PROVE Effects
        <3>1. own[t] \in alive /\ db \in Seq(alive) /\ handle' = handle
            BY <2>4 DEF Register, ThreadsPlaced, Owning, ObjectsOwned, TypeOK
        <3>2. Range(db) \subseteq Range(db')
            BY <2>4, <3>1 DEF Register, Range
        <3>3. \A l : IsRegistered(l) => IsRegistered(l)'
            BY <3>1, <3>2 DEF IsRegistered
        <3>4. \A l : Changing(l)' => Changing(l)
            BY <2>4 DEF Register, Changing, TypeOK
        <3> QED
            BY <2>4, <3>3, <3>4
               DEF Register, Effects, TypeOK, ThreadsPlaced, Owning, ObjectsOwned
    <2>5. ASSUME ModInit(t) PROVE Effects
        <3>1. /\ Assign(db, [own EXCEPT ![t] = None])
              /\ at' \in {[at EXCEPT ![t] = "idle"], [at EXCEPT ![t] = "forget"]}
              /\ at'[t] = "forget" => at[t] = "fin" /\ name' = name
              /\ name' \in {name, [name EXCEPT ![t] = None]}
              /\ at[t] \notin {"opening", "using", "closing"}
            BY <2>5 DEF ModInit, TypeOK
        <3>2. /\ phase = "mounted" => phase' = "mounted"
              /\ phase' = "mounted" => phase \in {"starting", "mounted"}
            BY <2>5 DEF ModInit
        <3> QED
            BY <3>1, <3>2, AssignEffects
    <2>6. ASSUME ModInitFails(t) PROVE Effects
        <3>1. /\ Assign(Without(db, name[t]), [own EXCEPT ![t] = None])
              /\ at' \in {[at EXCEPT ![t] = "idle"], [at EXCEPT ![t] = "forget"]}
              /\ at'[t] = "forget" => at[t] = "fin" /\ name' = name
              /\ name' \in {name, [name EXCEPT ![t] = None]}
              /\ at[t] \notin {"opening", "using", "closing"}
            BY <2>6 DEF ModInitFails, TypeOK
        <3>2. /\ phase = "mounted" => phase' = "mounted"
              /\ phase' = "mounted" => phase \in {"starting", "mounted"}
            BY <2>6 DEF ModInitFails
        <3>3. Changing(name[t])
            BY <2>6 DEF ModInitFails, Changing
        <3> QED
            BY <3>1, <3>2, <3>3, AssignEffects
    <2>7. ASSUME NEW l \in Libraries, UnloadBegin(t, l) PROVE Effects
        BY <2>7, GetOpsFinds, WithoutOthers
           DEF UnloadBegin, Effects, TypeOK, PhasesPlaced, ThreadsPlaced, Owning,
               ObjectsOwned, IsRegistered, Changing, Range
    <2>14. ASSUME NEW l \in Libraries, UnloadMissing(t, l) PROVE Effects
        BY <2>14 DEF UnloadMissing, Ready, Effects, TypeOK, ThreadsPlaced, Owning,
               ObjectsOwned, IsRegistered, Changing
    <2>8. ASSUME ModFin(t) PROVE Effects
        <3>1. /\ Assign(db, [own EXCEPT ![t] = None])
              /\ at' \in {[at EXCEPT ![t] = "idle"], [at EXCEPT ![t] = "forget"]}
              /\ at'[t] = "forget" => at[t] = "fin" /\ name' = name
              /\ name' \in {name, [name EXCEPT ![t] = None]}
              /\ at[t] \notin {"opening", "using", "closing"}
            BY <2>8 DEF ModFin, TypeOK
        <3>2. /\ phase = "mounted" => phase' = "mounted"
              /\ phase' = "mounted" => phase \in {"starting", "mounted"}
            BY <2>8 DEF ModFin
        <3> QED
            BY <3>1, <3>2, AssignEffects
    <2>9. ASSUME Forget(t) PROVE Effects
        <3>1. /\ Assign(Without(db, name[t]), own)
              /\ at' \in {[at EXCEPT ![t] = "idle"], [at EXCEPT ![t] = "forget"]}
              /\ at'[t] = "forget" => at[t] = "fin" /\ name' = name
              /\ name' \in {name, [name EXCEPT ![t] = None]}
              /\ at[t] \notin {"opening", "using", "closing"}
            BY <2>9 DEF Forget, TypeOK
        <3>2. /\ phase = "mounted" => phase' = "mounted"
              /\ phase' = "mounted" => phase \in {"starting", "mounted"}
            BY <2>9 DEF Forget
        <3>3. Changing(name[t])
            BY <2>9 DEF Forget, Changing
        <3> QED
            BY <3>1, <3>2, <3>3, AssignEffects
    <2>10. ASSUME NEW l \in Libraries, HookBegin(t, l) PROVE Effects
        BY <2>10, GetOpsFinds, WithoutOthers
           DEF HookBegin, Effects, TypeOK, PhasesPlaced, ThreadsPlaced, Owning,
               ObjectsOwned, IsRegistered, Changing, Range
    <2>11. ASSUME HookEnd(t) PROVE Effects
        <3>1. /\ Assign(db, [own EXCEPT ![t] = None])
              /\ at' \in {[at EXCEPT ![t] = "idle"], [at EXCEPT ![t] = "forget"]}
              /\ at'[t] = "forget" => at[t] = "fin" /\ name' = name
              /\ name' \in {name, [name EXCEPT ![t] = None]}
              /\ at[t] \notin {"opening", "using", "closing"}
            BY <2>11 DEF HookEnd, TypeOK
        <3>2. /\ phase = "mounted" => phase' = "mounted"
              /\ phase' = "mounted" => phase \in {"starting", "mounted"}
            BY <2>11 DEF HookEnd
        <3> QED
            BY <3>1, <3>2, AssignEffects
    <2>12. ASSUME NEW o \in Objects, MatchBegin(t, o) PROVE Effects
        BY <2>12, GetOpsFinds, WithoutOthers
           DEF MatchBegin, Effects, TypeOK, PhasesPlaced, ThreadsPlaced, Owning,
               ObjectsOwned, IsRegistered, Changing, Range
    <2>13. ASSUME MatchEnd(t) PROVE Effects
        BY <2>13, GetOpsFinds, WithoutOthers
           DEF MatchEnd, Effects, TypeOK, PhasesPlaced, ThreadsPlaced, Owning,
               ObjectsOwned, IsRegistered, Changing, Range
    <2> QED
        BY <1>1, <2>1, <2>2, <2>3, <2>4, <2>5, <2>6, <2>7, <2>8, <2>9, <2>10,
           <2>11, <2>12, <2>13, <2>14 DEF ThreadStep
<1>2. CASE Unmount
    BY <1>2 DEF Unmount, Effects, TypeOK, IsRegistered, Changing
<1>3. CASE UninstallNext
    <2>1. /\ at'[Main] = "fin"
          /\ \A u \in Threads : u # Main => at'[u] = at[u] /\ own'[u] = own[u]
        BY <1>3 DEF UninstallNext, TypeOK
    <2>2. phase = "uninstalling" /\ phase' = phase /\ handle' = handle /\ at[Main] = "idle"
        BY <1>3 DEF UninstallNext
    <2> QED
        BY <2>1, <2>2 DEF Effects, ThreadsPlaced, Owning, ObjectsOwned
<1>4. CASE ClearDb
    <2>1. /\ phase = "uninstalling" /\ phase' = "over" /\ at' = at /\ own' = own
          /\ \A o \in Objects : o \in Range(own) => handle'[o] = handle[o]
        BY <1>4 DEF ClearDb, Assign, Destroy, Unowned
    <2>2. \A t \in Threads : at[t] # "hook"
        BY <2>1 DEF PhasesPlaced
    <2> QED
        BY <2>1, <2>2 DEF Effects
<1> QED
    BY <1>1, <1>2, <1>3, <1>4 DEF Next

\* A call of an operation begins or ends: the types do not notice.
LEMMA CallBegins ==
    ASSUME TypesInv, NEW t \in Threads, NEW pc \in {"using", "closing"},
           at[t] = "idle", Goto(t, pc),
           \/ Ready(t) /\ t \in Workers
           \/ t = Main /\ pc = "closing" /\ phase = "over",
           UNCHANGED <<serial, phase, todo, db, alive, handle, refs, inits, own,
               name, peek>>
    PROVE  TypesInv'
<1> USE ModuleAssumption DEF TypesInv, Goto
<1>1. TypeOK'
    BY DEF TypeOK
<1>2. ObjectsOwned' /\ Counted'
    BY DEF ObjectsOwned, Counted, OfLibrary
<1>3. ThreadsPlaced'
    BY DEF ThreadsPlaced, Owning, TypeOK
<1>4. PhasesPlaced'
    BY DEF PhasesPlaced, TypeOK, IsRegistered, Ready
<1> QED
    BY <1>1, <1>2, <1>3, <1>4

\* A call of an operation returns: the types do not notice.
LEMMA CallReturns ==
    ASSUME TypesInv, NEW t \in Threads, at[t] \in {"opening", "using", "closing"},
           Goto(t, "idle"),
           UNCHANGED <<serial, phase, todo, db, alive, handle, refs, inits, own,
               name, peek>>
    PROVE  TypesInv'
<1> USE ModuleAssumption DEF TypesInv, Goto
<1>1. TypeOK'
    BY DEF TypeOK
<1>2. ObjectsOwned' /\ Counted'
    BY DEF ObjectsOwned, Counted, OfLibrary
<1>3. ThreadsPlaced'
    BY DEF ThreadsPlaced, Owning, TypeOK
<1>4. PhasesPlaced'
    BY DEF PhasesPlaced, TypeOK, IsRegistered
<1> QED
    BY <1>1, <1>2, <1>3, <1>4

\* create_op gives up the type and leaves its library open as long as the type is
\* registered or in use.
LEMMA CreatedTypes ==
    ASSUME TypesInv, NEW t \in Workers, at[t] = "hook",
           Assign(db, [own EXCEPT ![t] = None]), Goto(t, "opening"),
           UNCHANGED <<serial, phase, todo, name, peek>>
    PROVE  /\ TypesInv'
           /\ handle[own[t]] \in Libraries
           /\ \A l : IsRegistered(l) => IsRegistered(l)'
           /\ \A u \in Threads : at'[u] = "hook" =>
                 at[u] = "hook" /\ handle'[own'[u]] = handle[own[u]]
<1> USE ModuleAssumption DEF TypesInv, Threads, Goto
<1>0. /\ db' = db /\ own' = [own EXCEPT ![t] = None]
      /\ alive' = alive \intersect (Range(db) \union Range([own EXCEPT ![t] = None]))
      /\ db' \in Seq(alive')
      /\ handle' = [o \in Objects |-> IF o \in alive' THEN handle[o] ELSE None]
      /\ inits' \in Nat /\ refs' \in [Libraries -> Nat]
      /\ ObjectsOwned' /\ Counted'
    <2>1. db \in Seq(alive) /\ \A o \in Range(db) : handle[o] # None
        BY DEF TypeOK, ObjectsOwned, Range
    <2>2. [own EXCEPT ![t] = None] \in [Threads -> alive \union {None}]
        BY DEF TypeOK, ObjectsOwned
    <2> QED
        BY <2>1, <2>2, AssignKeeps
<1>1. TypeOK'
    BY <1>0 DEF TypeOK
<1>2. ThreadsPlaced'
    BY <1>0 DEF ThreadsPlaced, Owning, TypeOK, ObjectsOwned, Range
<1>3. PhasesPlaced'
    BY <1>0 DEF PhasesPlaced, ThreadsPlaced, Owning, TypeOK, ObjectsOwned,
           IsRegistered, Range
<1>4. handle[own[t]] \in Libraries
    BY DEF ThreadsPlaced, Owning, TypeOK, ObjectsOwned
<1>5. \A l : IsRegistered(l) => IsRegistered(l)'
    <2>1. \A o \in Range(db) : o \in alive /\ o \in Objects
        BY DEF TypeOK, Range
    <2> QED
        BY <1>0, <2>1 DEF IsRegistered
<1>6. ASSUME NEW u \in Threads, at'[u] = "hook"
      PROVE  at[u] = "hook" /\ handle'[own'[u]] = handle[own[u]]
    <2>1. u # t /\ at[u] = "hook" /\ own[u] # None
        BY <1>6 DEF TypeOK, ThreadsPlaced, Owning
    <2>2. own[u] \in alive /\ own'[u] = own[u]
        BY <1>0, <2>1 DEF ObjectsOwned, TypeOK
    <2> QED
        BY <1>0, <2>1, <2>2 DEF TypeOK, Range
<1> QED
    BY <1>0, <1>1, <1>2, <1>3, <1>4, <1>5, <1>6

\* A registered library is open, before and after a step.
RegisteredMapped == \A l \in Libraries : IsRegistered(l) => Mapped(l)

\* The library of a registered type is open.
LEMMA RegisteredIsMapped == TypesInv => RegisteredMapped
<1> SUFFICES ASSUME TypesInv, NEW l \in Libraries, IsRegistered(l) PROVE Mapped(l)
    BY DEF RegisteredMapped
<1>1. PICK o \in alive : handle[o] = l
    BY DEF TypesInv, TypeOK, IsRegistered, Range
<1> QED
    BY <1>1, LiveIsMapped, ModuleAssumption DEF TypesInv

\* The same after a step.
LEMMA RegisteredIsMappedNext == TypesInv' => RegisteredMapped'
BY RegisteredIsMapped, PTL

\* A library that is registered after a step has stayed in memory.
LEMMA RegisteredSurvives ==
    ASSUME TypesInv', NEW l \in Libraries, IsRegistered(l)'
    PROVE  Survives(l) = l
BY RegisteredIsMappedNext DEF RegisteredMapped, Survives, Mapped

\* A call that ends or begins changes nothing about what is in use.
LEMMA InUseUndisturbed ==
    ASSUME InUseKept, NEW t \in Threads, TypesInv,
           at' = [at EXCEPT ![t] = "idle"] \/ at' = [at EXCEPT ![t] = "using"]
              \/ at' = [at EXCEPT ![t] = "closing"],
           \A f \in Files : code'[f] \in {code[f], None},
           UNCHANGED <<careful, phase, db, handle, own, name>>
    PROVE  InUseKept'
<1>1. \A u \in Threads : at'[u] = at[u] \/ at'[u] \in {"idle", "using", "closing"}
    BY DEF TypesInv, TypeOK
<1>2. \A l \in Libraries : InUse(l)' => InUse(l)
    BY <1>1, ModuleAssumption DEF InUse
<1>3. \A l : (Changing(l)' => Changing(l)) /\ (IsRegistered(l)' <=> IsRegistered(l))
    BY <1>1 DEF Changing, IsRegistered
<1>4. \A f \in Files : IsOpen(f)' => IsOpen(f) /\ code'[f] = code[f]
    BY DEF IsOpen
<1> QED
    BY <1>2, <1>3, <1>4 DEF InUseKept
-----------------------------------------------------------------------------
\* open returns: the thread is no longer inside the new operation.
LEMMA OpenReturnsKeeps ==
    ASSUME FilesInv, NEW t \in Workers, OpenReturns(t)
    PROVE  FilesInv'
<1> USE ModuleAssumption, FilesAssumption
    DEF FilesInv, OpenReturns, Threads, Returns, Goto, IsOpen
<1>1. TypesInv'
    BY CallReturns
<1>2. FilesTypeOK'
    BY <1>1 DEF TypesInv, FilesTypeOK, CallsPlaced
<1>3. CallsPlaced'
    BY DEF CallsPlaced, FilesTypeOK, TypeOK
<1>4. PolledOpen'
    BY DEF PolledOpen, CallsPlaced, FilesTypeOK, TypeOK, TypesInv, PhasesPlaced
<1>5. InUseKept'
    BY InUseUndisturbed DEF FilesTypeOK, CallsPlaced
<1> QED
    BY <1>1, <1>2, <1>3, <1>4, <1>5

\* open fails: the new operation is destroyed.
LEMMA OpenFailsKeeps ==
    ASSUME FilesInv, NEW t \in Workers, OpenFails(t)
    PROVE  FilesInv'
<1> USE ModuleAssumption, FilesAssumption
    DEF FilesInv, OpenFails, Threads, Returns, Goto, IsOpen
<1>1. TypesInv'
    BY CallReturns
<1>2. FilesTypeOK'
    BY <1>1 DEF TypesInv, FilesTypeOK, CallsPlaced
<1>3. CallsPlaced'
    BY DEF CallsPlaced, FilesTypeOK, TypeOK
<1>4. PolledOpen'
    BY DEF PolledOpen, CallsPlaced, FilesTypeOK, TypeOK, TypesInv, PhasesPlaced
<1>5. InUseKept'
    BY InUseUndisturbed DEF FilesTypeOK, CallsPlaced
<1> QED
    BY <1>1, <1>2, <1>3, <1>4, <1>5

\* read, write or poll returns.
LEMMA UsedKeeps ==
    ASSUME FilesInv, NEW t \in Workers, Used(t)
    PROVE  FilesInv'
<1> USE ModuleAssumption, FilesAssumption
    DEF FilesInv, Used, Threads, Returns, Goto, IsOpen
<1>1. TypesInv'
    BY CallReturns
<1>2. FilesTypeOK'
    BY <1>1 DEF TypesInv, FilesTypeOK, CallsPlaced
<1>3. CallsPlaced'
    BY DEF CallsPlaced, FilesTypeOK, TypeOK
<1>4. PolledOpen'
    BY DEF PolledOpen, CallsPlaced, FilesTypeOK, TypeOK, TypesInv, PhasesPlaced
<1>5. InUseKept'
    BY InUseUndisturbed DEF FilesTypeOK, CallsPlaced
<1> QED
    BY <1>1, <1>2, <1>3, <1>4, <1>5

\* release has returned: the file leaves the poller's list and is destroyed.
LEMMA ClosedKeeps ==
    ASSUME FilesInv, NEW t \in Workers, Closed(t)
    PROVE  FilesInv'
<1> USE ModuleAssumption, FilesAssumption
    DEF FilesInv, Closed, Threads, Returns, Goto, IsOpen
<1>1. TypesInv'
    BY CallReturns
<1>2. FilesTypeOK'
    BY <1>1 DEF TypesInv, FilesTypeOK, CallsPlaced
<1>3. CallsPlaced'
    BY DEF CallsPlaced, FilesTypeOK, TypeOK
<1>4. PolledOpen'
    BY DEF PolledOpen, CallsPlaced, FilesTypeOK, TypeOK, TypesInv, PhasesPlaced
<1>5. InUseKept'
    BY InUseUndisturbed DEF FilesTypeOK, CallsPlaced
<1> QED
    BY <1>1, <1>2, <1>3, <1>4, <1>5

\* create_op: the file has its code, the thread gives up the type.
LEMMA CreatedKeeps ==
    ASSUME FilesInv, NEW t \in Workers, NEW f \in Files, Created(t, f)
    PROVE  FilesInv'
<1> USE ModuleAssumption, FilesAssumption
    DEF FilesInv, Created, Threads, Goto, IsOpen
<1>1. TypesInv'
    BY CreatedTypes
<1>2. FilesTypeOK'
    BY <1>1, CreatedTypes DEF TypesInv, FilesTypeOK, Survives, CallsPlaced
<1>3. CallsPlaced'
    <2>1. \A g \in Files : code[g] # None => code'[g] # None
        BY DEF FilesTypeOK, Survives
    <2>2. code'[f] # None
        BY CreatedTypes DEF FilesTypeOK, Survives
    <2>3. call' = [call EXCEPT ![t] = f] /\ at' = [at EXCEPT ![t] = "opening"]
        OBVIOUS
    <2> QED
        BY <2>1, <2>2, <2>3 DEF CallsPlaced, FilesTypeOK, TypeOK
<1>4. PolledOpen'
    BY DEF PolledOpen, CallsPlaced, FilesTypeOK, TypeOK, TypesInv, PhasesPlaced,
           Survives
<1>5. InUseKept'
    <2> SUFFICES ASSUME careful PROVE InUseKept'
        BY DEF InUseKept
    <2> DEFINE l0 == handle[own[t]]
    <2>1. /\ l0 \in Libraries
          /\ \A l : IsRegistered(l) => IsRegistered(l)'
          /\ \A u \in Threads : at'[u] = "hook" =>
                at[u] = "hook" /\ handle'[own'[u]] = handle[own[u]]
        BY CreatedTypes
    <2>2. InUse(l0) /\ phase = "mounted"
        BY DEF InUse, TypesInv, PhasesPlaced
    <2>3. IsRegistered(l0) /\ Survives(l0) = l0
        BY <1>1, <2>1, <2>2, RegisteredSurvives DEF InUseKept
    <2>4. code' = [code EXCEPT ![f] = l0]
        BY <2>3
    <2>5. \A l \in Libraries : InUse(l)' => InUse(l)
        BY <2>1, <2>2, <2>4 DEF InUse, FilesTypeOK
    <2>6. \A l : Changing(l)' => Changing(l)
        BY DEF Changing, FilesTypeOK, TypeOK
    <2>7. \A g \in Files : code'[g] # None => code'[g] \in Libraries
        BY <2>1, <2>4 DEF InUseKept, FilesTypeOK
    <2> QED
        BY <2>1, <2>2, <2>5, <2>6, <2>7 DEF InUseKept
<1> QED
    BY <1>1, <1>2, <1>3, <1>4, <1>5

\* read or write calls the operation of an open file.
LEMMA ReadOrWriteKeeps ==
    ASSUME FilesInv, NEW t \in Workers, NEW f \in Files, ReadOrWrite(t, f)
    PROVE  FilesInv'
<1> USE ModuleAssumption, FilesAssumption
    DEF FilesInv, ReadOrWrite, Threads, Begin, Goto, IsOpen
<1>1. TypesInv'
    BY CallBegins DEF Ready
<1>2. FilesTypeOK'
    BY <1>1 DEF TypesInv, FilesTypeOK, CallsPlaced
<1>3. CallsPlaced'
    BY DEF CallsPlaced, FilesTypeOK, TypeOK, Ready
<1>4. PolledOpen'
    BY DEF PolledOpen, CallsPlaced, FilesTypeOK, TypeOK, TypesInv, PhasesPlaced,
           Ready
<1>5. InUseKept'
    BY InUseUndisturbed DEF FilesTypeOK, CallsPlaced
<1> QED
    BY <1>1, <1>2, <1>3, <1>4, <1>5

\* poll puts the file on the polling thread's list.
LEMMA PollKeeps ==
    ASSUME FilesInv, NEW t \in Workers, NEW f \in Files, Poll(t, f)
    PROVE  FilesInv'
<1> USE ModuleAssumption, FilesAssumption DEF FilesInv, Poll, Threads, IsOpen
<1>1. TypesInv'
    BY DEF TypesInv, vars, TypeOK, ObjectsOwned, Counted, OfLibrary, ThreadsPlaced,
           PhasesPlaced, IsRegistered
<1>2. FilesTypeOK'
    BY <1>1 DEF TypesInv, FilesTypeOK, CallsPlaced
<1>3. CallsPlaced'
    BY DEF CallsPlaced, FilesTypeOK, TypeOK, vars, Ready
<1>4. PolledOpen'
    BY DEF PolledOpen, CallsPlaced, FilesTypeOK, TypeOK, TypesInv, PhasesPlaced,
           vars, Ready
<1>5. InUseKept'
    BY DEF InUseKept, InUse, Changing, CallsPlaced, FilesTypeOK, TypeOK, TypesInv,
           PhasesPlaced, IsRegistered, vars, Ready
<1> QED
    BY <1>1, <1>2, <1>3, <1>4, <1>5

\* close calls release on a file nobody is inside.
LEMMA CloseKeeps ==
    ASSUME FilesInv, NEW t \in Workers, NEW f \in Files, Close(t, f)
    PROVE  FilesInv'
<1> USE ModuleAssumption, FilesAssumption
    DEF FilesInv, Close, Threads, Begin, Goto, IsOpen, Called
<1>1. TypesInv'
    BY CallBegins DEF Ready
<1>2. FilesTypeOK'
    BY <1>1 DEF TypesInv, FilesTypeOK, CallsPlaced
<1>3. CallsPlaced'
    BY DEF CallsPlaced, FilesTypeOK, TypeOK, Ready
<1>4. PolledOpen'
    BY DEF PolledOpen, CallsPlaced, FilesTypeOK, TypeOK, TypesInv, PhasesPlaced,
           Ready
<1>5. InUseKept'
    BY InUseUndisturbed DEF FilesTypeOK, CallsPlaced
<1> QED
    BY <1>1, <1>2, <1>3, <1>4, <1>5

\* The polling thread asks the next handle of its list.
LEMMA AskKeeps ==
    ASSUME FilesInv, NEW f \in Files, Ask(f)
    PROVE  FilesInv'
<1> USE ModuleAssumption, FilesAssumption DEF FilesInv, Ask, Threads, IsOpen
<1>1. TypesInv'
    BY DEF TypesInv, vars, TypeOK, ObjectsOwned, Counted, OfLibrary, ThreadsPlaced,
           PhasesPlaced, IsRegistered
<1>2. FilesTypeOK'
    BY <1>1 DEF TypesInv, FilesTypeOK, CallsPlaced
<1>3. CallsPlaced'
    BY DEF CallsPlaced, FilesTypeOK, TypeOK, vars
<1>4. PolledOpen'
    BY DEF PolledOpen, CallsPlaced, FilesTypeOK, TypeOK, TypesInv, PhasesPlaced,
           vars
<1>5. InUseKept'
    BY DEF InUseKept, InUse, Changing, CallsPlaced, FilesTypeOK, TypeOK, TypesInv,
           PhasesPlaced, IsRegistered, vars
<1> QED
    BY <1>1, <1>2, <1>3, <1>4, <1>5

\* The polling thread has its answer.
LEMMA AnsweredKeeps ==
    ASSUME FilesInv, Answered
    PROVE  FilesInv'
<1> USE ModuleAssumption, FilesAssumption DEF FilesInv, Answered, Threads, IsOpen
<1>1. TypesInv'
    BY DEF TypesInv, vars, TypeOK, ObjectsOwned, Counted, OfLibrary, ThreadsPlaced,
           PhasesPlaced, IsRegistered
<1>2. FilesTypeOK'
    BY <1>1 DEF TypesInv, FilesTypeOK, CallsPlaced
<1>3. CallsPlaced'
    BY DEF CallsPlaced, FilesTypeOK, TypeOK, vars
<1>4. PolledOpen'
    BY DEF PolledOpen, CallsPlaced, FilesTypeOK, TypeOK, TypesInv, PhasesPlaced,
           vars
<1>5. InUseKept'
    BY DEF InUseKept, InUse, Changing, CallsPlaced, FilesTypeOK, TypeOK, TypesInv,
           PhasesPlaced, IsRegistered, vars
<1> QED
    BY <1>1, <1>2, <1>3, <1>4, <1>5

\* At the end the handle table destroys what programs have left open.
LEMMA DestroyOpKeeps ==
    ASSUME FilesInv, NEW f \in Files, DestroyOp(f)
    PROVE  FilesInv'
<1> USE ModuleAssumption, FilesAssumption
    DEF FilesInv, DestroyOp, Threads, Goto, IsOpen
<1>1. TypesInv'
    BY CallBegins
<1>2. FilesTypeOK'
    BY <1>1 DEF TypesInv, FilesTypeOK, CallsPlaced
<1>3. CallsPlaced'
    <2>1. \A u \in Threads : u # Main => at[u] = "idle" /\ call[u] = None
        BY DEF TypesInv, PhasesPlaced, CallsPlaced
    <2>2. \A u \in Threads : u # Main => at'[u] = "idle" /\ call'[u] = None
        BY <2>1 DEF FilesTypeOK, TypeOK
    <2>3. at'[Main] = "closing" /\ call'[Main] = f
        BY DEF FilesTypeOK, TypeOK
    <2> QED
        BY <2>2, <2>3 DEF CallsPlaced
<1>4. PolledOpen'
    BY DEF PolledOpen, CallsPlaced, FilesTypeOK, TypeOK, TypesInv, PhasesPlaced
<1>5. InUseKept'
    BY InUseUndisturbed DEF FilesTypeOK, CallsPlaced
<1> QED
    BY <1>1, <1>2, <1>3, <1>4, <1>5

\* The destructor of what was left open returns.
LEMMA OpDestroyedKeeps ==
    ASSUME FilesInv, OpDestroyed
    PROVE  FilesInv'
<1> USE ModuleAssumption, FilesAssumption
    DEF FilesInv, OpDestroyed, Threads, Returns, Goto, IsOpen
<1>1. TypesInv'
    BY CallReturns
<1>2. FilesTypeOK'
    BY <1>1 DEF TypesInv, FilesTypeOK, CallsPlaced
<1>3. CallsPlaced'
    BY DEF CallsPlaced, FilesTypeOK, TypeOK
<1>4. PolledOpen'
    BY DEF PolledOpen, CallsPlaced, FilesTypeOK, TypeOK, TypesInv, PhasesPlaced
<1>5. InUseKept'
    BY InUseUndisturbed DEF FilesTypeOK, CallsPlaced
<1> QED
    BY <1>1, <1>2, <1>3, <1>4, <1>5

\* A step of the types, among files that are open.
LEMMA TypesStepKeeps ==
    ASSUME FilesInv, TypesStep
    PROVE  FilesInv'
<1> USE ModuleAssumption, FilesAssumption DEF FilesInv, TypesStep
<1>1. TypesInv' /\ Effects
    BY TypesKeep, StepEffects
<1>2. \A f \in Files : code'[f] = Survives(code[f]) /\ (IsOpen(f)' <=> IsOpen(f))
    BY DEF IsOpen, Survives, FilesTypeOK
<1>3. FilesTypeOK'
    BY <1>1 DEF TypesInv, FilesTypeOK, Survives
<1>4. \A t \in Threads : {at[t], at'[t]} \intersect {"opening", "using", "closing"} # {}
         => at'[t] = at[t]
    BY <1>1 DEF Effects
<1>5. CallsPlaced'
    <2>1. \A t \in Threads : \A pc \in {"opening", "using", "closing"} :
             at'[t] = pc <=> at[t] = pc
        BY <1>4
    <2>2. \A t \in Threads : call[t] # None => IsOpen(call[t])'
        BY <1>2 DEF CallsPlaced, FilesTypeOK
    <2> QED
        BY <2>1, <2>2 DEF CallsPlaced
<1>6. PolledOpen'
    <2>1. \A t \in Threads : \A pc \in {"opening", "closing"} : at'[t] = pc <=> at[t] = pc
        BY <1>4
    <2>2. \A f \in polled : IsOpen(f)'
        BY <1>2 DEF PolledOpen, FilesTypeOK
    <2> QED
        BY <2>1, <2>2 DEF PolledOpen, Threads
<1>7. InUseKept'
    <2> SUFFICES ASSUME careful PROVE InUseKept'
        BY DEF InUseKept
    <2>1. Considerate
        OBVIOUS
    <2>2. \A l \in Libraries : InUse(l) => phase = "mounted" /\ IsRegistered(l) /\ ~Changing(l)
        <3>1. \A t \in Threads : at[t] = "hook" => phase = "mounted"
            BY DEF TypesInv, PhasesPlaced, Threads
        <3> QED
            BY <3>1 DEF InUseKept, InUse, IsOpen
    <2>3. ASSUME NEW l \in Libraries, phase = "mounted", IsRegistered(l), ~Changing(l),
                 \A t \in Workers : at[t] = "idle" /\ at'[t] \in {"open", "fin", "forget"} =>
                     name'[t] # l
          PROVE  IsRegistered(l)' /\ ~Changing(l)'
        BY <1>1, <2>3 DEF Effects
    <2>4. ASSUME NEW l \in Libraries, InUse(l)
          PROVE  IsRegistered(l)' /\ ~Changing(l)' /\ Survives(l) = l
        <3>1. \A t \in Workers : at[t] = "idle" /\ at'[t] \in {"open", "fin", "forget"} =>
                  name'[t] # l
            BY <2>1, <2>4 DEF Considerate
        <3>2. IsRegistered(l)' /\ ~Changing(l)'
            BY <2>2, <2>3, <2>4, <3>1
        <3> QED
            BY <1>1, <3>2, RegisteredSurvives
    <2>5. \A f \in Files : IsOpen(f) => /\ phase = "mounted" /\ code[f] \in Libraries
                                        /\ InUse(code[f]) /\ code'[f] = code[f]
        <3>1. \A f \in Files : IsOpen(f) => /\ phase = "mounted" /\ code[f] \in Libraries
                                            /\ InUse(code[f])
            BY DEF InUseKept, InUse
        <3> QED
            BY <1>2, <2>4, <3>1
    <2>6. ASSUME NEW l \in Libraries, InUse(l)'
          PROVE  IsRegistered(l)' /\ ~Changing(l)'
        <3>1. CASE \E f \in Files : code'[f] = l
            <4>1. PICK f \in Files : code'[f] = l /\ IsOpen(f)
                BY <1>2, <3>1 DEF IsOpen
            <4> QED
                BY <2>4, <2>5, <4>1
        <3>2. CASE \E t \in Threads : at'[t] = "hook" /\ handle'[own'[t]] = l
            <4>1. PICK t \in Threads : at'[t] = "hook" /\ handle'[own'[t]] = l
                BY <3>2
            <4>2. CASE at[t] = "hook" /\ handle[own[t]] = l
                BY <2>4, <4>2 DEF InUse
            <4>3. CASE /\ at[t] = "idle" /\ t \in Workers /\ phase = "mounted"
                       /\ IsRegistered(l) /\ handle[own'[t]] = l
                       /\ \A u \in Threads : u # t => at'[u] = at[u]
                <5>1. ~Changing(l)
                    BY <2>1, <4>1, <4>3 DEF Considerate
                <5>2. \A u \in Workers : at[u] = "idle" =>
                          at'[u] \notin {"open", "fin", "forget"}
                    BY <4>1, <4>3 DEF Threads
                <5> QED
                    BY <2>3, <4>3, <5>1, <5>2
            <4>4. \/ at[t] = "hook" /\ handle[own[t]] = l
                  \/ /\ at[t] = "idle" /\ t \in Workers /\ phase = "mounted"
                     /\ IsRegistered(l) /\ handle[own'[t]] = l
                     /\ \A u \in Threads : u # t => at'[u] = at[u]
                BY <1>1, <4>1 DEF Effects
            <4> QED
                BY <4>2, <4>3, <4>4
        <3> QED
            BY <2>6, <3>1, <3>2 DEF InUse
    <2>7. \A f \in Files : IsOpen(f)' => phase' = "mounted" /\ code'[f] \in Libraries
        <3>1. \A f \in Files : IsOpen(f) => phase' = "mounted"
            BY <1>1, <2>1, <2>5 DEF Considerate, Effects
        <3> QED
            BY <1>2, <2>5, <3>1
    <2> QED
        BY <2>6, <2>7 DEF InUseKept
<1> QED
    BY <1>1, <1>3, <1>5, <1>6, <1>7

\* At the start there are no files, and no types.
LEMMA FilesStart == FilesInit => FilesInv
<1> SUFFICES ASSUME FilesInit PROVE FilesInv
    OBVIOUS
<1> USE ModuleAssumption, FilesAssumption DEF FilesInit, Init, FilesInv, TypesInv
<1>a. todo \in Seq(Libraries) /\ db \in Seq(alive)
    OBVIOUS
<1>b. TypeOK
    BY <1>a DEF TypeOK
<1>1. TypeOK /\ FilesTypeOK
    BY <1>b DEF FilesTypeOK
<1>2. ObjectsOwned
    BY DEF ObjectsOwned, Range
<1>3. Counted
    <2>1. \A l : OfLibrary(l) = {}
        BY DEF OfLibrary
    <2> QED
        BY <2>1, FS_EmptySet DEF Counted
<1>4. ThreadsPlaced /\ PhasesPlaced
    BY DEF ThreadsPlaced, PhasesPlaced, Threads, Owning
<1>5. CallsPlaced /\ PolledOpen /\ InUseKept
    BY DEF CallsPlaced, PolledOpen, InUseKept, InUse, IsOpen, Threads
<1> QED
    BY <1>1, <1>2, <1>3, <1>4, <1>5

\* Every step keeps the invariant.
LEMMA FilesStep == FilesInv /\ [FilesNext]_allVars => FilesInv'
<1> SUFFICES ASSUME FilesInv, [FilesNext]_allVars PROVE FilesInv'
    OBVIOUS
<1>1. CASE UNCHANGED allVars
    BY <1>1 DEF allVars, vars, fileVars, FilesInv, TypesInv, TypeOK, FilesTypeOK,
        ObjectsOwned, Counted, OfLibrary, ThreadsPlaced, PhasesPlaced, IsRegistered,
        CallsPlaced, PolledOpen, InUseKept, InUse, Changing, IsOpen
<1>2. CASE TypesStep
    BY <1>2, TypesStepKeeps
<1>3. ASSUME NEW t \in Workers, FileStep(t) PROVE FilesInv'
    BY <1>3, OpenReturnsKeeps, OpenFailsKeeps, UsedKeeps, ClosedKeeps, CreatedKeeps,
       ReadOrWriteKeeps, PollKeeps, CloseKeeps DEF FileStep
<1>4. CASE Answered \/ OpDestroyed
    BY <1>4, AnsweredKeeps, OpDestroyedKeeps
<1>5. ASSUME NEW f \in Files, Ask(f) \/ DestroyOp(f) PROVE FilesInv'
    BY <1>5, AskKeeps, DestroyOpKeeps
<1> QED
    BY <1>1, <1>2, <1>3, <1>4, <1>5 DEF FilesNext

\* The invariant holds in every state of every behaviour.
LEMMA FilesInvariant == FilesSpec => []FilesInv
BY FilesStart, FilesStep, PTL DEF FilesSpec
-----------------------------------------------------------------------------
\* The variables keep their types.
THEOREM ModuleFilesTypes == FilesSpec => []FilesTypeOK
<1>1. FilesInv => FilesTypeOK
    BY DEF FilesInv
<1> QED
    BY <1>1, FilesInvariant, PTL

\* Whatever threads load and unload, and whatever constructors and installations
\* fail meanwhile, the hooks of a module run while its library is open; match_path
\* does if one request is served at a time.
THEOREM HooksAreMapped == FilesSpec => []CallsMapped
<1>1. FilesInv => CallsMapped
    <2> SUFFICES ASSUME FilesInv, NEW t \in Threads
                 PROVE  /\ at[t] \in {"init", "fin", "hook"} =>
                              own[t] \in alive /\ Mapped(handle[own[t]])
                        /\ at[t] = "match" /\ serial =>
                              peek[t] \in alive /\ Mapped(handle[peek[t]])
        BY DEF CallsMapped
    <2> USE DEF FilesInv, TypesInv
    <2>1. ASSUME at[t] \in {"init", "fin", "hook"}
          PROVE  own[t] \in alive /\ handle[own[t]] # None
        BY <2>1 DEF ThreadsPlaced, Owning, ObjectsOwned
    <2>2. ASSUME at[t] = "match", serial
          PROVE  peek[t] \in alive /\ handle[peek[t]] # None
        <3>1. peek[t] \in Range(db)
            BY <2>2 DEF PhasesPlaced, Threads
        <3> QED
            BY <3>1 DEF ObjectsOwned, TypeOK, Range
    <2> QED
        BY <2>1, <2>2, LiveIsMapped
<1> QED
    BY <1>1, FilesInvariant, PTL

\* No path out of a constructor, an installation or the process leaves a library in
\* memory that nobody can call: libltdl's counters are exactly the objects.
THEOREM NothingStaysMapped == FilesSpec => []MappedForAReason
<1>1. FilesInv => MappedForAReason
    <2> SUFFICES ASSUME FilesInv PROVE MappedForAReason
        OBVIOUS
    <2> USE ModuleAssumption DEF FilesInv, TypesInv
    <2>1. ASSUME NEW l \in Libraries, Mapped(l)
          PROVE  \E o \in Range(db) \union Range(own) : o # None /\ handle[o] = l
        <3>1. OfLibrary(l) # {}
            BY <2>1, FS_EmptySet DEF Mapped, Counted
        <3> QED
            BY <3>1 DEF OfLibrary, ObjectsOwned, TypeOK
    <2>2. ASSUME phase = "over" PROVE inits = 0
        <3>1. \A t \in Threads : own[t] = None
            BY <2>2 DEF PhasesPlaced, ThreadsPlaced, Owning, Threads
        <3>2. alive = {}
            BY <2>2, <3>1 DEF PhasesPlaced, ObjectsOwned, TypeOK, Range
        <3> QED
            BY <3>2, FS_EmptySet DEF Counted
    <2> QED
        BY <2>1, <2>2 DEF MappedForAReason
<1> QED
    BY <1>1, FilesInvariant, PTL

\* While programs are careful, no thread calls an operation whose library was closed;
\* careful or not, no thread calls one that was destroyed.
THEOREM OperationsAreMapped == FilesSpec => []OperationsMapped
<1>1. FilesInv => OperationsMapped
    <2> SUFFICES ASSUME FilesInv PROVE OperationsMapped
        OBVIOUS
    <2> USE DEF FilesInv
    <2>1. ASSUME careful, NEW f \in Files, IsOpen(f) PROVE Mapped(code[f])
        <3>1. code[f] \in Libraries /\ IsRegistered(code[f])
            BY <2>1 DEF InUseKept, InUse
        <3> QED
            BY <3>1, RegisteredIsMapped DEF RegisteredMapped
    <2>2. \A t \in Threads : call[t] # None => call[t] \in Files /\ IsOpen(call[t])
        BY DEF CallsPlaced, FilesTypeOK
    <2>3. asked # None => asked \in Files /\ IsOpen(asked)
        BY DEF PolledOpen, FilesTypeOK
    <2>4. \A t \in Threads : at[t] \in {"opening", "using", "closing"} => call[t] # None
        BY DEF CallsPlaced
    <2> QED
        BY <2>1, <2>2, <2>3, <2>4 DEF OperationsMapped
<1> QED
    BY <1>1, FilesInvariant, PTL
=============================================================================
