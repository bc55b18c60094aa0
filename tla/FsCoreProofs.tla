---------------------------- MODULE FsCoreProofs ----------------------------
(***************************************************************************)
(* Proofs about FsCore.                                                    *)
(***************************************************************************)
EXTENDS FsCore, OrderTheorems, SequenceTheorems, TLAPS

-----------------------------------------------------------------------------
(* paths *)

\* A path with a name more: the directory it is in, its length, its last name.
LEMMA AppendFacts ==
    ASSUME NEW S, NEW p \in Seq(S), NEW c \in S
    PROVE  /\ Append(p, c) \in Seq(S) /\ Append(p, c) # <<>>
           /\ Len(Append(p, c)) = Len(p) + 1
           /\ Front(Append(p, c)) = p
           /\ Append(p, c)[Len(p) + 1] = c
           /\ \A i \in DOMAIN p : Append(p, c)[i] = p[i]
<1>1. Append(p, c) \in Seq(S) /\ Len(Append(p, c)) = Len(p) + 1
    OBVIOUS
<1>2. Append(p, c) # <<>>
    <2>1. Len(p) + 1 # 0 /\ Len(<<>>) = 0
        OBVIOUS
    <2> QED
        BY <1>1, <2>1
<1>3. SubSeq(Append(p, c), 1, Len(p)) = p
    OBVIOUS
<1> QED
    BY <1>1, <1>2, <1>3 DEF Front

\* The paths of two and of three names, written out.
LEMMA ShortPaths ==
    ASSUME NEW S, NEW a \in S, NEW b \in S
    PROVE  /\ <<a, b>> \in Seq(S) \ {<<>>} /\ Front(<<a, b>>) = <<a>>
           /\ Append(<<a>>, b) = <<a, b>>
           /\ \A c \in S : Append(<<a, b>>, c) = <<a, b, c>>
<1>1. ASSUME NEW r \in Seq(S), NEW x \in S
      PROVE  /\ Append(r, x) \in Seq(S) /\ Len(Append(r, x)) = Len(r) + 1
             /\ Front(Append(r, x)) = r /\ Append(r, x)[Len(r) + 1] = x
             /\ \A i \in DOMAIN r : Append(r, x)[i] = r[i]
    BY AppendFacts, Zenon
<1>2. Append(<<a>>, b) = <<a, b>> /\ Front(<<a, b>>) = <<a>>
    <2> DEFINE r == <<a>>  s == Append(r, b)
    <2>1. r \in Seq(S) /\ Len(r) = 1 /\ 1 \in DOMAIN r /\ r[1] = a
        OBVIOUS
    <2> HIDE DEF r
    <2>2. /\ s \in Seq(S) /\ Len(s) = Len(r) + 1 /\ Front(s) = r /\ s[Len(r) + 1] = b
          /\ s[1] = r[1]
        BY <1>1, <2>1
    <2> HIDE DEF s
    <2>3. Len(s) = 2 /\ s[1] = a /\ s[2] = b
        BY <2>1, <2>2
    <2>4. s = <<a, b>>
        <3>1. <<a, b>> \in Seq(S) /\ Len(<<a, b>>) = 2
            OBVIOUS
        <3>2. \A i \in 1 .. Len(s) : s[i] = <<a, b>>[i]
            BY <2>3
        <3> QED
            BY <2>2, <2>3, <3>1, <3>2, SeqEqual
    <2> QED
        BY <2>2, <2>4 DEF r, s
<1>3. ASSUME NEW c \in S PROVE Append(<<a, b>>, c) = <<a, b, c>>
    <2> DEFINE r == <<a, b>>  s == Append(r, c)
    <2>1. /\ r \in Seq(S) /\ Len(r) = 2 /\ 1 \in DOMAIN r /\ 2 \in DOMAIN r
          /\ r[1] = a /\ r[2] = b
        OBVIOUS
    <2> HIDE DEF r
    <2>2. /\ s \in Seq(S) /\ Len(s) = Len(r) + 1 /\ s[Len(r) + 1] = c
          /\ s[1] = r[1] /\ s[2] = r[2]
        BY <1>1, <2>1
    <2> HIDE DEF s
    <2>3. Len(s) = 3 /\ s[1] = a /\ s[2] = b /\ s[3] = c
        BY <2>1, <2>2
    <2>4. s = <<a, b, c>>
        <3>1. <<a, b, c>> \in Seq(S) /\ Len(<<a, b, c>>) = 3
            OBVIOUS
        <3>2. \A i \in 1 .. Len(s) : s[i] = <<a, b, c>>[i]
            BY <2>3
        <3> QED
            BY <2>2, <2>3, <3>1, <3>2, SeqEqual
    <2> QED
        BY <2>4 DEF r, s
<1>4. <<a, b>> \in Seq(S) /\ <<a, b>> # <<>>
    OBVIOUS
<1> QED
    BY <1>2, <1>3, <1>4

\* The directory of a path is a path, one name shorter.
LEMMA FrontFacts ==
    ASSUME NEW S, NEW q \in Seq(S), q # <<>>
    PROVE  /\ Front(q) \in Seq(S) /\ Len(Front(q)) = Len(q) - 1
           /\ \A i \in 1 .. Len(q) - 1 : Front(q)[i] = q[i]
           /\ Len(q) = 1 => Front(q) = <<>>
<1>1. Len(q) \in Nat /\ Len(q) > 0 /\ \A i \in 1 .. Len(q) : q[i] \in S
    OBVIOUS
<1> DEFINE n == Len(q) - 1
<1>2. n \in Nat /\ n \in Int /\ 1 \in Int /\ 1 .. n \subseteq 1 .. Len(q)
    BY <1>1
<1>3. /\ SubSeq(q, 1, n) \in Seq(S)
      /\ Len(SubSeq(q, 1, n)) = IF 1 <= n THEN n - 1 + 1 ELSE 0
      /\ \A i \in 1 .. n - 1 + 1 : SubSeq(q, 1, n)[i] = q[1 + i - 1]
    <2> HIDE DEF n
    <2> QED
        BY <1>1, <1>2, SubSeqProperties
<1>4. Len(q) = 1 => SubSeq(q, 1, n) = <<>>
    BY <1>2, SubSeqEmpty
<1>5. Front(q) = SubSeq(q, 1, n)
    BY DEF Front
<1>6. n - 1 + 1 = n /\ (1 <= n \/ n = 0) /\ \A i \in 1 .. n : 1 + i - 1 = i
    <2> HIDE DEF n
    <2> QED
        BY <1>2
<1>7. Len(SubSeq(q, 1, n)) = n /\ \A i \in 1 .. n : SubSeq(q, 1, n)[i] = q[i]
    <2> HIDE DEF n
    <2> QED
        BY <1>3, <1>6
<1> QED
    BY <1>3, <1>4, <1>5, <1>7

\* What a prefix is, name by name.
LEMMA PrefixNames ==
    ASSUME NEW S, NEW p \in Seq(S), NEW q \in Seq(S)
    PROVE  IsPrefix(p, q) <=> Len(p) <= Len(q) /\ \A i \in DOMAIN p : p[i] = q[i]
<1>1. Len(p) \in Nat /\ Len(q) \in Nat /\ DOMAIN p = 1 .. Len(p) /\ DOMAIN q = 1 .. Len(q)
    OBVIOUS
<1>2. SubSeq(p, 1, Len(p)) = p
    OBVIOUS
<1>3. ASSUME Len(p) <= Len(q)
      PROVE  SubSeq(p, 1, Len(p)) = SubSeq(q, 1, Len(p)) <=> \A i \in DOMAIN p : p[i] = q[i]
    <2>1. SubSeq(q, 1, Len(p)) = [i \in 1 .. Len(p) |-> q[i]]
        BY <1>1, <1>3
    <2>2. p = [i \in 1 .. Len(p) |-> p[i]]
        BY <1>1
    <2> QED
        BY <1>1, <1>2, <2>1, <2>2
<1> QED
    BY <1>3 DEF IsPrefix

\* A path is below another if it is that path or its directory is below it.
LEMMA PrefixFacts ==
    ASSUME NEW S, NEW p \in Seq(S), NEW q \in Seq(S), q # <<>>
    PROVE  IsPrefix(p, q) <=> p = q \/ IsPrefix(p, Front(q))
<1>1. /\ Len(p) \in Nat /\ Len(q) \in Nat /\ Len(q) > 0
      /\ DOMAIN p = 1 .. Len(p) /\ DOMAIN q = 1 .. Len(q)
    OBVIOUS
<1>2. /\ Front(q) \in Seq(S) /\ Len(Front(q)) = Len(q) - 1
      /\ \A i \in 1 .. Len(q) - 1 : Front(q)[i] = q[i]
    BY FrontFacts
<1>3. IsPrefix(p, Front(q)) <=> Len(p) <= Len(q) - 1 /\ \A i \in DOMAIN p : p[i] = q[i]
    <2>1. IsPrefix(p, Front(q)) <=>
              Len(p) <= Len(Front(q)) /\ \A i \in DOMAIN p : p[i] = Front(q)[i]
        BY <1>2, PrefixNames
    <2> QED
        BY <1>1, <1>2, <2>1
<1>4. IsPrefix(p, q) <=> Len(p) <= Len(q) /\ \A i \in DOMAIN p : p[i] = q[i]
    BY PrefixNames
<1>5. p = q <=> Len(p) = Len(q) /\ \A i \in DOMAIN p : p[i] = q[i]
    <2>1. p = [i \in 1 .. Len(p) |-> p[i]] /\ q = [i \in 1 .. Len(q) |-> q[i]]
        BY <1>1
    <2> QED
        BY <1>1, <2>1
<1>6. Len(p) <= Len(q) <=> Len(p) = Len(q) \/ Len(p) <= Len(q) - 1
    <2>1. \A m, n \in Nat : m <= n <=> m = n \/ m <= n - 1
        OBVIOUS
    <2> QED
        BY <1>1, <2>1
<1> QED
    BY <1>3, <1>4, <1>5, <1>6, Zenon

-----------------------------------------------------------------------------
(* the registry *)

Lows == {"file", "dir", "dns_installer", "eth_installer", "tcp_installer"}
Prio(t) == IF t \in Lows THEN low ELSE normal

\* Registrations with the priority that their type is registered with.
Registrations(d) ==
    /\ d \in Seq([type : Types, prio : {normal, low}])
    /\ \A i \in DOMAIN d : d[i].prio = Prio(d[i].type)
    /\ \A i, j \in DOMAIN d : d[i].type = "clone" /\ d[j].type = "client" => i < j

\* ... in the order of the priorities.
DbInv(d) ==
    /\ Registrations(d)
    /\ \A i, j \in DOMAIN d : i < j => d[i].prio >= d[j].prio

\* A registration has a type, and the priority of its type.
LEMMA RegistrationFacts ==
    ASSUME NEW d, Registrations(d), NEW i \in DOMAIN d
    PROVE  i \in Nat /\ d[i].type \in Types /\ d[i].prio = Prio(d[i].type)
<1> DEFINE T == [type : Types, prio : {normal, low}]
<1>1. d \in Seq(T)
    BY DEF Registrations
<1>2. i \in Nat /\ d[i] \in T
    <2> HIDE DEF T
    <2> QED
        BY <1>1
<1> QED
    BY <1>2 DEF Registrations

\* Taking registrations away leaves the others in their order.
LEMMA PickedKeeps ==
    ASSUME NEW d, DbInv(d), NEW K \in SUBSET DOMAIN d
    PROVE  /\ DbInv(Picked(d, K))
           /\ \A t : IsRegistered(Picked(d, K), t) <=> \E i \in K : d[i].type = t
<1> DEFINE T == [type : Types, prio : {normal, low}]  e == Picked(d, K)
<1>1. d \in Seq(T)
    BY DEF DbInv, Registrations
<1>2. /\ e \in Seq(T)
      /\ \A n \in DOMAIN e : \E i \in K : Rank(K, i) = n /\ e[n] = d[i]
      /\ \A i \in K : Rank(K, i) \in DOMAIN e /\ e[Rank(K, i)] = d[i]
      /\ \A i, j \in K : i < j => Rank(K, i) < Rank(K, j)
    BY <1>1, PickedElements
<1>3. DOMAIN d \in SUBSET Nat /\ DOMAIN e \in SUBSET Nat
    BY <1>1, <1>2
<1> HIDE DEF e, T
<1>4. ASSUME NEW n \in DOMAIN e, NEW m \in DOMAIN e
      PROVE  \E i, j \in K : e[n] = d[i] /\ e[m] = d[j] /\ (n < m <=> i < j)
    <2>1. PICK i \in K : Rank(K, i) = n /\ e[n] = d[i]
        BY <1>2
    <2>2. PICK j \in K : Rank(K, j) = m /\ e[m] = d[j]
        BY <1>2
    <2>3. n < m <=> i < j
        <3>1. i \in Nat /\ j \in Nat /\ n \in Nat /\ m \in Nat
            BY <1>3
        <3>2. i < j => n < m
            BY <1>2, <2>1, <2>2
        <3>3. j < i => m < n
            BY <1>2, <2>1, <2>2
        <3>4. i = j => n = m
            BY <2>1, <2>2
        <3> QED
            BY <3>1, <3>2, <3>3, <3>4
    <2> QED
        BY <2>1, <2>2, <2>3
<1>5. \A n \in DOMAIN e : e[n].prio = Prio(e[n].type)
    BY <1>2 DEF DbInv, Registrations
<1>6. \A n, m \in DOMAIN e : e[n].type = "clone" /\ e[m].type = "client" => n < m
    BY <1>4 DEF DbInv, Registrations
<1>7. \A n, m \in DOMAIN e : n < m => e[n].prio >= e[m].prio
    BY <1>4 DEF DbInv
<1>8. DbInv(e)
    BY <1>2, <1>5, <1>6, <1>7 DEF DbInv, Registrations, T
<1>9. \A t : IsRegistered(e, t) <=> \E i \in K : d[i].type = t
    BY <1>2 DEF IsRegistered
<1> QED
    BY <1>8, <1>9 DEF e

\* unregister_ops takes away the type, and nothing else.
LEMMA UnregisterKeeps ==
    ASSUME NEW d, DbInv(d), NEW t
    PROVE  /\ DbInv(UnregisterOps(d, t))
           /\ \A u : IsRegistered(UnregisterOps(d, t), u) <=> IsRegistered(d, u) /\ u # t
<1> DEFINE K == {i \in DOMAIN d : d[i].type # t}
<1>1. K \in SUBSET DOMAIN d
    OBVIOUS
<1>2. /\ DbInv(Picked(d, K))
      /\ \A u : IsRegistered(Picked(d, K), u) <=> \E i \in K : d[i].type = u
    BY <1>1, PickedKeeps
<1>3. \A u : (\E i \in K : d[i].type = u) <=> IsRegistered(d, u) /\ u # t
    BY DEF IsRegistered
<1> QED
    BY <1>2, <1>3 DEF UnregisterOps

\* The uninstall hooks only take away.
LEMMA UninstallKeeps ==
    ASSUME NEW d, DbInv(d), NEW t
    PROVE  /\ DbInv(Uninstall(d, t))
           /\ \A u : IsRegistered(Uninstall(d, t), u) => IsRegistered(d, u)
<1>1. ASSUME NEW ts
      PROVE  /\ DbInv(UninstallUpToMissing(d, ts))
             /\ \A u : IsRegistered(UninstallUpToMissing(d, ts), u) => IsRegistered(d, u)
    <2> DEFINE gone == {i \in DOMAIN ts : \A j \in 1 .. i : IsRegistered(d, ts[j])}
               K == {k \in DOMAIN d : \A i \in gone : d[k].type # ts[i]}
    <2>1. K \in SUBSET DOMAIN d
        OBVIOUS
    <2>2. UninstallUpToMissing(d, ts) = Picked(d, K)
        BY DEF UninstallUpToMissing
    <2> HIDE DEF K
    <2>3. /\ DbInv(Picked(d, K))
          /\ \A u : IsRegistered(Picked(d, K), u) <=> \E i \in K : d[i].type = u
        BY <2>1, PickedKeeps
    <2> QED
        BY <2>1, <2>2, <2>3 DEF IsRegistered
<1>2. CASE t = "tcp_installer"
    BY <1>1, <1>2 DEF Uninstall, UninstallTcp
<1>3. CASE t = "eth_installer"
    BY <1>1, <1>3 DEF Uninstall, UninstallEth
<1>4. CASE t = "mod_net_eth"
    BY <1>1, <1>4 DEF Uninstall, UninstallModEth
<1>5. CASE t = "dns_installer"
    BY <1>5, UnregisterKeeps DEF Uninstall, UninstallDns
<1>6. CASE t \notin {"tcp_installer", "eth_installer", "mod_net_eth", "dns_installer"}
    BY <1>6 DEF Uninstall
<1> QED
    BY <1>2, <1>3, <1>4, <1>5, <1>6

\* Where stable_sort puts a registration: after those of higher priority, among
\* those of its own as it stood.
OfPrio(d, p) == {i \in DOMAIN d : d[i].prio = p}
Place(d, i) ==
    IF d[i].prio = normal THEN Rank(OfPrio(d, normal), i)
    ELSE Len(OfPriority(d, normal)) + Rank(OfPrio(d, low), i)

\* stable_sort moves every registration to its place, and only these are there.
LEMMA SortedElements ==
    ASSUME NEW d, d \in Seq([type : Types, prio : {normal, low}])
    PROVE  /\ Sorted(d) \in Seq([type : Types, prio : {normal, low}])
           /\ \A i \in DOMAIN d : /\ Place(d, i) \in DOMAIN Sorted(d)
                                  /\ Sorted(d)[Place(d, i)] = d[i]
           /\ \A n \in DOMAIN Sorted(d) : \E i \in DOMAIN d : Place(d, i) = n
           /\ \A i, j \in DOMAIN d :
                 d[i].prio > d[j].prio \/ (d[i].prio = d[j].prio /\ i < j)
                     => Place(d, i) < Place(d, j)
<1> DEFINE T == [type : Types, prio : {normal, low}]
           H == OfPriority(d, high)  N == OfPriority(d, normal)  L == OfPriority(d, low)
           KN == OfPrio(d, normal)  KL == OfPrio(d, low)
<1>1. d \in Seq(T) /\ DOMAIN d \in SUBSET Nat
    OBVIOUS
<1>2. \A i \in DOMAIN d : d[i].prio \in {normal, low}
    <2>1. ASSUME NEW i \in DOMAIN d PROVE d[i] \in T
        <3> HIDE DEF T
        <3> QED
            BY <1>1
    <2> QED
        BY <2>1
<1>3. H = <<>>
    <2>1. \A i \in DOMAIN d : d[i].prio # high
        BY <1>2 DEF high, normal, low
    <2>2. {i \in DOMAIN d : d[i].prio = high} = {}
        BY <2>1
    <2>3. H = Picked(d, {})
        BY <2>2 DEF OfPriority
    <2>4. Cardinality({}) = 0
        BY FS_EmptySet
    <2>5. Picked(d, {}) = [n \in 1 .. 0 |-> d[CHOOSE i \in {} : Rank({}, i) = n]]
        BY <2>4 DEF Picked
    <2> QED
        BY <2>3, <2>5
<1>4. /\ N \in Seq(T)
      /\ \A n \in DOMAIN N : \E i \in KN : Rank(KN, i) = n /\ N[n] = d[i]
      /\ \A i \in KN : Rank(KN, i) \in DOMAIN N /\ N[Rank(KN, i)] = d[i]
      /\ \A i, j \in KN : i < j => Rank(KN, i) < Rank(KN, j)
    <2>1. KN \in SUBSET DOMAIN d /\ N = Picked(d, KN)
        BY DEF OfPrio, OfPriority
    <2> HIDE DEF KN, N, T
    <2> QED
        BY <1>1, <2>1, PickedElements
<1>5. /\ L \in Seq(T)
      /\ \A n \in DOMAIN L : \E i \in KL : Rank(KL, i) = n /\ L[n] = d[i]
      /\ \A i \in KL : Rank(KL, i) \in DOMAIN L /\ L[Rank(KL, i)] = d[i]
      /\ \A i, j \in KL : i < j => Rank(KL, i) < Rank(KL, j)
    <2>1. KL \in SUBSET DOMAIN d /\ L = Picked(d, KL)
        BY DEF OfPrio, OfPriority
    <2> HIDE DEF KL, L, T
    <2> QED
        BY <1>1, <2>1, PickedElements
<1>6. Sorted(d) = N \o L
    <2>1. Sorted(d) = H \o N \o L
        BY DEF Sorted
    <2> HIDE DEF H, N, L, T
    <2> QED
        BY <1>3, <1>4, <2>1, ConcatEmptySeq
<1>7. \A i \in DOMAIN d : i \in KN \/ i \in KL
    BY <1>2 DEF OfPrio
<1>8. /\ \A i \in KN : i \in DOMAIN d /\ d[i].prio = normal /\ Place(d, i) = Rank(KN, i)
      /\ \A i \in KL : /\ i \in DOMAIN d /\ d[i].prio = low
                       /\ Place(d, i) = Len(N) + Rank(KL, i)
    BY DEF OfPrio, Place, normal, low
<1> HIDE DEF H, N, L, KN, KL, T
<1>9. /\ N \o L \in Seq(T) /\ Len(N) \in Nat /\ Len(L) \in Nat
      /\ DOMAIN N = 1 .. Len(N) /\ DOMAIN L = 1 .. Len(L)
      /\ DOMAIN (N \o L) = 1 .. Len(N) + Len(L)
      /\ \A i \in 1 .. Len(N) : (N \o L)[i] = N[i]
      /\ \A i \in 1 .. Len(L) : (N \o L)[Len(N) + i] = L[i]
    BY <1>4, <1>5
<1>10. ASSUME NEW i \in DOMAIN d
       PROVE  Place(d, i) \in DOMAIN (N \o L) /\ (N \o L)[Place(d, i)] = d[i]
    <2>1. CASE i \in KN
        BY <1>4, <1>8, <1>9, <2>1
    <2>2. CASE i \in KL
        <3>1. Rank(KL, i) \in 1 .. Len(L) /\ L[Rank(KL, i)] = d[i]
            BY <1>5, <1>9, <2>2
        <3>2. Place(d, i) = Len(N) + Rank(KL, i)
            BY <1>8, <2>2
        <3> QED
            BY <1>9, <3>1, <3>2
    <2> QED
        BY <1>7, <2>1, <2>2
<1>11. ASSUME NEW n \in DOMAIN (N \o L)
       PROVE  \E i \in DOMAIN d : Place(d, i) = n
    <2>1. n \in 1 .. Len(N) \/ n - Len(N) \in 1 .. Len(L)
        BY <1>9
    <2>2. CASE n \in 1 .. Len(N)
        BY <1>4, <1>8, <1>9, <2>2
    <2>3. CASE n - Len(N) \in 1 .. Len(L)
        <3>1. PICK i \in KL : Rank(KL, i) = n - Len(N)
            BY <1>5, <1>9, <2>3
        <3>2. Len(N) + (n - Len(N)) = n
            BY <1>9
        <3> QED
            BY <1>8, <3>1, <3>2
    <2> QED
        BY <2>1, <2>2, <2>3
<1>12. ASSUME NEW i \in DOMAIN d, NEW j \in DOMAIN d,
              d[i].prio > d[j].prio \/ (d[i].prio = d[j].prio /\ i < j)
       PROVE  Place(d, i) < Place(d, j)
    <2>1. CASE i \in KN /\ j \in KN
        BY <1>4, <1>8, <1>12, <2>1 DEF normal
    <2>2. CASE i \in KL /\ j \in KL
        <3>1. Rank(KL, i) < Rank(KL, j)
            BY <1>5, <1>8, <1>12, <2>2 DEF low
        <3>2. Rank(KL, i) \in 1 .. Len(L) /\ Rank(KL, j) \in 1 .. Len(L)
            BY <1>5, <1>9, <2>2
        <3> QED
            BY <1>8, <1>9, <2>2, <3>1, <3>2
    <2>3. CASE i \in KN /\ j \in KL
        <3>1. Rank(KN, i) \in 1 .. Len(N) /\ Rank(KL, j) \in 1 .. Len(L)
            BY <1>4, <1>5, <1>9, <2>3
        <3> QED
            BY <1>8, <1>9, <2>3, <3>1
    <2>4. CASE i \in KL /\ j \in KN
        BY <1>8, <1>12, <2>4 DEF normal, low
    <2> QED
        BY <1>7, <2>1, <2>2, <2>3, <2>4
<1> QED
    BY <1>6, <1>9, <1>10, <1>11, <1>12 DEF T

\* Sorted registrations are what the registry holds.
LEMMA SortedKeeps ==
    ASSUME NEW d, Registrations(d)
    PROVE  /\ DbInv(Sorted(d))
           /\ \A t : IsRegistered(Sorted(d), t) <=> IsRegistered(d, t)
<1> DEFINE e == Sorted(d)
<1>1. /\ e \in Seq([type : Types, prio : {normal, low}])
      /\ \A i \in DOMAIN d : Place(d, i) \in DOMAIN e /\ e[Place(d, i)] = d[i]
      /\ \A n \in DOMAIN e : \E i \in DOMAIN d : Place(d, i) = n
      /\ \A i, j \in DOMAIN d :
            d[i].prio > d[j].prio \/ (d[i].prio = d[j].prio /\ i < j)
                => Place(d, i) < Place(d, j)
    BY SortedElements DEF Registrations
<1> HIDE DEF e
<1>2. DOMAIN d \in SUBSET Nat /\ DOMAIN e \in SUBSET Nat
    BY <1>1 DEF Registrations
<1>3. \A i \in DOMAIN d : d[i].prio = Prio(d[i].type) /\ d[i].prio \in Nat
    BY DEF Registrations, Prio, normal, low
<1>4. \A n \in DOMAIN e : e[n].prio = Prio(e[n].type)
    BY <1>1, <1>3
<1>5. ASSUME NEW n \in DOMAIN e, NEW m \in DOMAIN e, e[n].type = "clone", e[m].type = "client"
      PROVE  n < m
    <2>1. PICK i \in DOMAIN d : Place(d, i) = n
        BY <1>1
    <2>2. PICK j \in DOMAIN d : Place(d, j) = m
        BY <1>1
    <2>3. d[i].type = "clone" /\ d[j].type = "client"
        BY <1>1, <1>5, <2>1, <2>2
    <2>4. i < j /\ d[i].prio = d[j].prio
        BY <1>3, <2>3 DEF Registrations, Prio, Lows
    <2> QED
        BY <1>1, <2>1, <2>2, <2>4
<1>6. ASSUME NEW n \in DOMAIN e, NEW m \in DOMAIN e, n < m
      PROVE  e[n].prio >= e[m].prio
    <2>1. PICK i \in DOMAIN d : Place(d, i) = n
        BY <1>1
    <2>2. PICK j \in DOMAIN d : Place(d, j) = m
        BY <1>1
    <2>3. e[n].prio = d[i].prio /\ e[m].prio = d[j].prio
        BY <1>1, <2>1, <2>2
    <2>4. ~(d[j].prio > d[i].prio)
        <3>1. ~(m < n)
            BY <1>2, <1>6
        <3> QED
            BY <1>1, <2>1, <2>2, <3>1
    <2> QED
        BY <1>3, <2>3, <2>4
<1>7. DbInv(e)
    BY <1>1, <1>4, <1>5, <1>6 DEF DbInv, Registrations
<1>8. \A t : IsRegistered(e, t) <=> IsRegistered(d, t)
    BY <1>1 DEF IsRegistered
<1> QED
    BY <1>7, <1>8 DEF e

\* Registering a type that is not clone adds it.
LEMMA RegisterKeeps ==
    ASSUME NEW d, DbInv(d), NEW t \in Types, NEW p, p = Prio(t), t # "clone"
    PROVE  /\ DbInv(RegisterOps(d, p, t))
           /\ \A u : IsRegistered(RegisterOps(d, p, t), u) <=> IsRegistered(d, u) \/ u = t
<1> DEFINE T == [type : Types, prio : {normal, low}]
           r == [type |-> t, prio |-> p]  e == Append(d, r)
<1>1. r \in T /\ r.type = t /\ r.prio = Prio(r.type)
    BY DEF Prio
<1>2. d \in Seq(T)
    BY DEF DbInv, Registrations
<1> HIDE DEF r, T
<1>3. /\ e \in Seq(T) /\ DOMAIN d = 1 .. Len(d) /\ Len(d) \in Nat
      /\ DOMAIN e = 1 .. Len(d) + 1
      /\ \A i \in 1 .. Len(d) : e[i] = d[i]
      /\ e[Len(d) + 1] = r
    BY <1>1, <1>2
<1> HIDE DEF e
<1>4. \A i \in DOMAIN e : (i \in DOMAIN d /\ e[i] = d[i]) \/ (i = Len(d) + 1 /\ e[i] = r)
    <2> SUFFICES ASSUME NEW i \in DOMAIN e
                 PROVE  (i \in DOMAIN d /\ e[i] = d[i]) \/ (i = Len(d) + 1 /\ e[i] = r)
        OBVIOUS
    <2>1. i \in 1 .. Len(d) \/ i = Len(d) + 1
        BY <1>3
    <2> QED
        BY <1>3, <2>1
<1>5. \A i \in DOMAIN e : e[i].prio = Prio(e[i].type)
    BY <1>1, <1>4 DEF DbInv, Registrations
<1>6. \A i, j \in DOMAIN e : e[i].type = "clone" /\ e[j].type = "client" => i < j
    <2> SUFFICES ASSUME NEW i \in DOMAIN e, NEW j \in DOMAIN e,
                        e[i].type = "clone", e[j].type = "client"
                 PROVE  i < j
        OBVIOUS
    <2>1. i \in DOMAIN d /\ d[i].type = "clone"
        BY <1>1, <1>4
    <2>2. CASE j \in DOMAIN d /\ e[j] = d[j]
        BY <2>1, <2>2 DEF DbInv, Registrations
    <2>3. CASE j = Len(d) + 1
        BY <1>3, <2>1, <2>3
    <2> QED
        BY <1>4, <2>2, <2>3
<1>7. Registrations(e)
    BY <1>3, <1>5, <1>6 DEF Registrations, T
<1>8. \A u : IsRegistered(e, u) <=> IsRegistered(d, u) \/ u = t
    <2>1. DOMAIN d \subseteq DOMAIN e /\ Len(d) + 1 \in DOMAIN e
        BY <1>3
    <2> QED
        BY <1>1, <1>3, <1>4, <2>1 DEF IsRegistered
<1>9. RegisterOps(d, p, t) = Sorted(e)
    BY DEF RegisterOps, e, r
<1> QED
    BY <1>7, <1>8, <1>9, SortedKeeps

\* Registering several types adds them; clone comes before client.
LEMMA RegisterAllKeeps ==
    ASSUME NEW d, DbInv(d), NEW ts \in Seq(Types), NEW p, p \in {normal, low},
           \A i \in DOMAIN ts : Prio(ts[i]) = p,
           \A i, j \in DOMAIN ts : ts[i] = "clone" /\ ts[j] = "client" => i < j,
           \A i \in DOMAIN ts : ts[i] = "clone" => ~IsRegistered(d, "client")
    PROVE  /\ DbInv(RegisterAll(d, p, ts))
           /\ \A u : IsRegistered(RegisterAll(d, p, ts), u) <=>
                        IsRegistered(d, u) \/ \E i \in DOMAIN ts : ts[i] = u
<1> DEFINE T == [type : Types, prio : {normal, low}]
           n == [i \in DOMAIN ts |-> [type |-> ts[i], prio |-> p]]
           e == d \o n
<1>1. /\ DOMAIN ts = 1 .. Len(ts) /\ Len(ts) \in Nat /\ DOMAIN n = DOMAIN ts
      /\ \A i \in DOMAIN ts : ts[i] \in Types
      /\ \A i \in DOMAIN n : n[i] \in T /\ n[i].type = ts[i] /\ n[i].prio = Prio(n[i].type)
    OBVIOUS
<1>2. d \in Seq(T)
    BY DEF DbInv, Registrations
<1> HIDE DEF n, T
<1>3. n \in Seq(T) /\ Len(n) = Len(ts)
    <2>1. n = [i \in 1 .. Len(ts) |-> n[i]]
        BY <1>1 DEF n
    <2> QED
        BY <1>1, <2>1
<1>4. /\ e \in Seq(T) /\ DOMAIN d = 1 .. Len(d) /\ Len(d) \in Nat
      /\ DOMAIN e = 1 .. Len(d) + Len(ts)
      /\ \A i \in 1 .. Len(d) : e[i] = d[i]
      /\ \A i \in 1 .. Len(ts) : e[Len(d) + i] = n[i]
    BY <1>1, <1>2, <1>3
<1> HIDE DEF e
<1>5. ASSUME NEW i \in DOMAIN e
      PROVE  \/ i \in DOMAIN d /\ e[i] = d[i]
             \/ i - Len(d) \in DOMAIN ts /\ e[i] = n[i - Len(d)] /\ i > Len(d)
    <2>1. i \in 1 .. Len(d) \/ (i - Len(d) \in 1 .. Len(ts) /\ i > Len(d))
        <3>1. ASSUME NEW k \in Nat, NEW l \in Nat, NEW j \in 1 .. k + l
              PROVE  j \in 1 .. k \/ (j - k \in 1 .. l /\ j > k)
            OBVIOUS
        <3> QED
            BY <1>1, <1>4, <3>1
    <2>2. Len(d) + (i - Len(d)) = i
        BY <1>4
    <2> QED
        BY <1>1, <1>4, <2>1, <2>2
<1>6. \A i \in DOMAIN e : e[i].prio = Prio(e[i].type)
    BY <1>1, <1>5 DEF DbInv, Registrations
<1>7. \A i, j \in DOMAIN e : e[i].type = "clone" /\ e[j].type = "client" => i < j
    <2> SUFFICES ASSUME NEW i \in DOMAIN e, NEW j \in DOMAIN e,
                        e[i].type = "clone", e[j].type = "client"
                 PROVE  i < j
        OBVIOUS
    <2>1. CASE i \in DOMAIN d /\ e[i] = d[i] /\ j \in DOMAIN d /\ e[j] = d[j]
        BY <2>1 DEF DbInv, Registrations
    <2>2. CASE i \in DOMAIN d /\ j > Len(d)
        BY <1>4, <2>2
    <2>3. CASE /\ i - Len(d) \in DOMAIN ts /\ e[i] = n[i - Len(d)]
               /\ j \in DOMAIN d /\ e[j] = d[j]
        <3>1. IsRegistered(d, "client")
            BY <2>3 DEF IsRegistered
        <3> QED
            BY <1>1, <2>3, <3>1
    <2>4. CASE /\ i - Len(d) \in DOMAIN ts /\ e[i] = n[i - Len(d)]
               /\ j - Len(d) \in DOMAIN ts /\ e[j] = n[j - Len(d)]
        <3>1. i - Len(d) < j - Len(d)
            BY <1>1, <2>4
        <3> QED
            BY <1>4, <3>1
    <2> QED
        BY <1>5, <2>1, <2>2, <2>3, <2>4
<1>8. Registrations(e)
    BY <1>4, <1>6, <1>7 DEF Registrations, T
<1>9. ASSUME NEW u
      PROVE  IsRegistered(e, u) <=> IsRegistered(d, u) \/ \E i \in DOMAIN ts : ts[i] = u
    <2>1. ASSUME IsRegistered(e, u)
          PROVE  IsRegistered(d, u) \/ \E i \in DOMAIN ts : ts[i] = u
        BY <1>1, <1>5, <2>1 DEF IsRegistered
    <2>2. ASSUME IsRegistered(d, u) PROVE IsRegistered(e, u)
        <3>1. DOMAIN d \subseteq DOMAIN e
            BY <1>1, <1>4
        <3> QED
            BY <1>4, <2>2, <3>1 DEF IsRegistered
    <2>3. ASSUME NEW i \in DOMAIN ts, ts[i] = u PROVE IsRegistered(e, u)
        <3>1. Len(d) + i \in DOMAIN e
            BY <1>1, <1>4
        <3>2. e[Len(d) + i].type = u
            BY <1>1, <1>4, <2>3
        <3> QED
            BY <3>1, <3>2 DEF IsRegistered
    <2> QED
        BY <2>1, <2>2, <2>3
<1>10. RegisterAll(d, p, ts) = Sorted(e)
    BY DEF RegisterAll, e, n
<1> QED
    BY <1>8, <1>9, <1>10, SortedKeeps

\* What loading a module registers: its type, and eth_dir if it is mod_net_eth.
LEMMA LoadKeeps ==
    ASSUME NEW d, DbInv(d), NEW m \in Loadable
    PROVE  /\ DbInv(InstallOps(d, normal, m))
           /\ \A u : IsRegistered(InstallOps(d, normal, m), u) <=>
                        IsRegistered(d, u) \/ u = m \/ (m = "mod_net_eth" /\ u = "eth_dir")
<1> DEFINE e == RegisterOps(d, normal, m)
<1>1. m \in Types /\ m \notin StaticTypes
    BY ModulesAssumption DEF Types
<1>2. m # "clone" /\ Prio(m) = normal
    BY <1>1 DEF StaticTypes, Prio, Lows
<1>3. DbInv(e) /\ \A u : IsRegistered(e, u) <=> IsRegistered(d, u) \/ u = m
    BY <1>1, <1>2, RegisterKeeps
<1>4. InstallOps(d, normal, m) = Install(e, m)
    BY DEF InstallOps
<1> HIDE DEF e
<1>5. CASE m = "mod_net_eth"
    <2>1. Install(e, m) = RegisterAll(e, normal, ModEthTypes)
        BY <1>5 DEF Install
    <2>2. /\ ModEthTypes \in Seq(Types) /\ DOMAIN ModEthTypes = {1}
          /\ ModEthTypes[1] = "eth_dir" /\ Prio("eth_dir") = normal
        BY DEF ModEthTypes, Types, StaticTypes, Prio, Lows
    <2>3. /\ DbInv(RegisterAll(e, normal, ModEthTypes))
          /\ \A u : IsRegistered(RegisterAll(e, normal, ModEthTypes), u) <=>
                        IsRegistered(e, u) \/ \E i \in DOMAIN ModEthTypes : ModEthTypes[i] = u
        BY <1>3, <2>2, RegisterAllKeeps
    <2> QED
        BY <1>3, <1>4, <1>5, <2>1, <2>2, <2>3
<1>6. CASE m # "mod_net_eth"
    <2>1. Install(e, m) = e
        BY <1>1, <1>6 DEF Install, StaticTypes
    <2> QED
        BY <1>3, <1>4, <1>6, <2>1
<1> QED
    BY <1>5, <1>6

\* The registry of the start: in order, with the two defaults and all the types of
\* the TCP service.
LEMMA StartupKeeps ==
    /\ DbInv(StartupDb) /\ IsRegistered(StartupDb, "file") /\ IsRegistered(StartupDb, "dir")
    /\ \A i \in DOMAIN TcpTypes : IsRegistered(StartupDb, TcpTypes[i])
<1> DEFINE Good(d) == DbInv(d) /\ IsRegistered(d, "file") /\ IsRegistered(d, "dir")
           Early(d) == Good(d) /\ ~IsRegistered(d, "client")
           Tcp(d) == \A i \in DOMAIN TcpTypes : IsRegistered(d, TcpTypes[i])
           defaults == RegisterAll(<<>>, low, <<"file", "dir">>)
           dummy == InstallOps(defaults, normal, "mod_dummy")
           dns == InstallOps(dummy, low, "dns_installer")
           eth == InstallOps(dns, low, "eth_installer")
           tcp == InstallOps(eth, low, "tcp_installer")
<1>1. Early(defaults)
    <2> DEFINE ts == <<"file", "dir">>
    <2>1. DbInv(<<>>) /\ \A t : ~IsRegistered(<<>>, t)
        BY DEF DbInv, Registrations, IsRegistered
    <2>2. /\ ts \in Seq(Types) /\ DOMAIN ts = {1, 2} /\ ts[1] = "file" /\ ts[2] = "dir"
          /\ Prio("file") = low /\ Prio("dir") = low
        BY DEF Types, StaticTypes, Prio, Lows
    <2> HIDE DEF ts
    <2>3. /\ DbInv(RegisterAll(<<>>, low, ts))
          /\ \A u : IsRegistered(RegisterAll(<<>>, low, ts), u) <=>
                        IsRegistered(<<>>, u) \/ \E i \in DOMAIN ts : ts[i] = u
        BY <2>1, <2>2, RegisterAllKeeps
    <2>4. defaults = RegisterAll(<<>>, low, ts)
        BY DEF ts
    <2> QED
        BY <2>1, <2>2, <2>3, <2>4
<1> HIDE DEF defaults
<1>2. Early(dummy)
    <2>1. InstallOps(defaults, normal, "mod_dummy") = RegisterOps(defaults, normal, "mod_dummy")
        BY DEF InstallOps, Install
    <2>2. "mod_dummy" \in Types /\ Prio("mod_dummy") = normal
        BY DEF Types, Prio, Lows
    <2>3. /\ DbInv(RegisterOps(defaults, normal, "mod_dummy"))
          /\ \A u : IsRegistered(RegisterOps(defaults, normal, "mod_dummy"), u) <=>
                        IsRegistered(defaults, u) \/ u = "mod_dummy"
        BY <1>1, <2>2, RegisterKeeps
    <2> QED
        BY <1>1, <2>1, <2>3
<1> HIDE DEF dummy
<1>3. ASSUME NEW d, Early(d), NEW t \in {"dns_installer", "eth_installer", "tcp_installer"}
      PROVE  Early(RegisterOps(d, low, t))
    <2>1. t \in Types /\ Prio(t) = low
        BY DEF Types, StaticTypes, Prio, Lows
    <2>2. /\ DbInv(RegisterOps(d, low, t))
          /\ \A u : IsRegistered(RegisterOps(d, low, t), u) <=> IsRegistered(d, u) \/ u = t
        BY <1>3, <2>1, RegisterKeeps
    <2> QED
        BY <1>3, <2>2
<1>4. Early(dns)
    <2> DEFINE e == RegisterOps(dummy, low, "dns_installer")  ts == <<"resolver">>
    <2>1. Early(e)
        BY <1>2, <1>3
    <2>2. dns = RegisterAll(e, normal, ts)
        BY DEF InstallOps, Install
    <2>3. /\ ts \in Seq(Types) /\ DOMAIN ts = {1} /\ ts[1] = "resolver"
          /\ Prio("resolver") = normal
        BY DEF Types, StaticTypes, Prio, Lows
    <2> HIDE DEF e, ts
    <2>4. /\ DbInv(RegisterAll(e, normal, ts))
          /\ \A u : IsRegistered(RegisterAll(e, normal, ts), u) <=>
                        IsRegistered(e, u) \/ \E i \in DOMAIN ts : ts[i] = u
        BY <2>1, <2>3, RegisterAllKeeps
    <2> QED
        BY <2>1, <2>2, <2>3, <2>4
<1> HIDE DEF dns
<1>5. Early(eth)
    <2> DEFINE e == RegisterOps(dns, low, "eth_installer")
    <2>1. Early(e)
        BY <1>3, <1>4
    <2>2. eth = RegisterAll(e, normal, EthTypes)
        BY DEF InstallOps, Install
    <2>3. /\ EthTypes \in Seq(Types) /\ DOMAIN EthTypes = {1, 2}
          /\ EthTypes[1] = "eth_dir" /\ EthTypes[2] = "raw"
          /\ Prio("eth_dir") = normal /\ Prio("raw") = normal
        BY DEF EthTypes, Types, StaticTypes, Prio, Lows
    <2> HIDE DEF e
    <2>4. /\ DbInv(RegisterAll(e, normal, EthTypes))
          /\ \A u : IsRegistered(RegisterAll(e, normal, EthTypes), u) <=>
                        IsRegistered(e, u) \/ \E i \in DOMAIN EthTypes : EthTypes[i] = u
        BY <2>1, <2>3, RegisterAllKeeps
    <2> QED
        BY <2>1, <2>2, <2>3, <2>4
<1> HIDE DEF eth
<1>6. Good(tcp) /\ Tcp(tcp)
    <2> DEFINE e == RegisterOps(eth, low, "tcp_installer")
    <2>1. Early(e)
        BY <1>3, <1>5
    <2>2. tcp = RegisterAll(e, normal, TcpTypes)
        BY DEF InstallOps, Install
    <2>3. /\ TcpTypes \in Seq(Types) /\ DOMAIN TcpTypes = 1 .. 10
          /\ \A i \in 1 .. 10 : Prio(TcpTypes[i]) = normal
          /\ \A i \in 1 .. 10 : TcpTypes[i] = "clone" => i = 2
          /\ \A i \in 1 .. 10 : TcpTypes[i] = "client" => i = 9
        BY DEF TcpTypes, Types, StaticTypes, Prio, Lows
    <2> HIDE DEF e
    <2>4. /\ DbInv(RegisterAll(e, normal, TcpTypes))
          /\ \A u : IsRegistered(RegisterAll(e, normal, TcpTypes), u) <=>
                        IsRegistered(e, u) \/ \E i \in DOMAIN TcpTypes : TcpTypes[i] = u
        BY <2>1, <2>3, RegisterAllKeeps
    <2> QED
        BY <2>1, <2>2, <2>4
<1> HIDE DEF tcp
<1>7. /\ Good(InstallOps(tcp, normal, "module_loader"))
      /\ Tcp(InstallOps(tcp, normal, "module_loader"))
    <2>1. InstallOps(tcp, normal, "module_loader") = RegisterOps(tcp, normal, "module_loader")
        BY DEF InstallOps, Install
    <2>2. "module_loader" \in Types /\ Prio("module_loader") = normal
        BY DEF Types, StaticTypes, Prio, Lows
    <2>3. /\ DbInv(RegisterOps(tcp, normal, "module_loader"))
          /\ \A u : IsRegistered(RegisterOps(tcp, normal, "module_loader"), u) <=>
                        IsRegistered(tcp, u) \/ u = "module_loader"
        BY <1>6, <2>2, RegisterKeeps
    <2> QED
        BY <1>6, <2>1, <2>3
<1> QED
    BY <1>7 DEF StartupDb, tcp, eth, dns, dummy, defaults

-----------------------------------------------------------------------------
(* which type a path gets *)

\* get_name_by_path finds the first registration that matches, if any does.
LEMMA FirstMatch ==
    ASSUME NEW d, DbInv(d), NEW p, NEW kind,
           NEW g, g = GetNameByPath(d, p, kind)
    PROVE  \/ /\ g = NoType
              /\ \A i \in DOMAIN d : ~match_path(d[i].type, p, kind)
           \/ \E i \in DOMAIN d : /\ d[i].type = g /\ match_path(g, p, kind)
                                  /\ \A j \in DOMAIN d :
                                        match_path(d[j].type, p, kind) => i <= j
<1> DEFINE hits == {i \in DOMAIN d : match_path(d[i].type, p, kind)}
<1>1. hits \in SUBSET Nat
    BY DEF DbInv, Registrations
<1>2. CASE hits = {}
    BY <1>2 DEF GetNameByPath
<1>3. CASE hits # {}
    <2> DEFINE i == CHOOSE i \in hits : \A j \in hits : i <= j
    <2>1. \E m \in hits : \A j \in hits : m <= j
        <3> HIDE DEF hits
        <3> QED
            BY <1>1, <1>3, MinIsMember
    <2>2. i \in hits /\ \A j \in hits : i <= j
        <3> HIDE DEF hits
        <3> QED
            BY <2>1
    <2>3. g = d[i].type
        BY <1>3 DEF GetNameByPath
    <2> HIDE DEF i
    <2> QED
        BY <2>2, <2>3
<1> QED
    BY <1>2, <1>3

\* A file gets the type of a file, a directory that of a directory; the types of
\* client and server files are for paths below /tcp.
LEMMA LookupTypes ==
    ASSUME NEW d, DbInv(d), NEW p
    PROVE  /\ GetNameByPath(d, p, "regular_file") \in (Types \ DirTypes) \union {NoType}
           /\ GetNameByPath(d, p, "directory") \in DirTypes \union {NoType}
           /\ GetNameByPath(d, p, "regular_file") \in {"client", "server"} => InDir(p, "tcp")
           /\ GetNameByPath(d, p, "directory") # NoType =>
                 MatchesDir(GetNameByPath(d, p, "directory"), p)
           /\ IsRegistered(d, "file") => GetNameByPath(d, p, "regular_file") # NoType
           /\ IsRegistered(d, "dir") => GetNameByPath(d, p, "directory") # NoType
           /\ NoType \notin Types /\ DirTypes \subseteq Types
<1>1. \A i \in DOMAIN d : d[i].type \in Types
    BY RegistrationFacts DEF DbInv
<1>2. NoType \notin Types /\ DirTypes \subseteq Types
    BY ModulesAssumption DEF Types, StaticTypes, NoType, DirTypes
<1>3. \A t \in DirTypes : ~MatchesFile(t, p)
    BY DEF DirTypes, MatchesFile
<1>4. \A t : MatchesDir(t, p) => t \in DirTypes
    BY DEF DirTypes, MatchesDir
<1>5. MatchesFile("file", p) /\ MatchesDir("dir", p)
    BY DEF MatchesFile, MatchesDir
<1>6. \A t : MatchesFile(t, p) /\ t \in {"client", "server"} => InDir(p, "tcp")
    BY DEF MatchesFile, ClientPath, ServerPath
<1> DEFINE f == GetNameByPath(d, p, "regular_file")  g == GetNameByPath(d, p, "directory")
<1>7. \/ f = NoType /\ \A i \in DOMAIN d : ~MatchesFile(d[i].type, p)
      \/ f \in Types /\ MatchesFile(f, p)
    <2> HIDE DEF f
    <2>1. f = GetNameByPath(d, p, "regular_file")
        BY DEF f
    <2>2. \A t : match_path(t, p, "regular_file") = MatchesFile(t, p)
        BY DEF match_path
    <2> QED
        BY <1>1, <2>1, <2>2, FirstMatch
<1>8. \/ g = NoType /\ \A i \in DOMAIN d : ~MatchesDir(d[i].type, p)
      \/ g \in Types /\ MatchesDir(g, p)
    <2> HIDE DEF g
    <2>1. g = GetNameByPath(d, p, "directory")
        BY DEF g
    <2>2. \A t : match_path(t, p, "directory") = MatchesDir(t, p)
        BY DEF match_path
    <2> QED
        BY <1>1, <2>1, <2>2, FirstMatch
<1> HIDE DEF f, g
<1>9. IsRegistered(d, "file") => f # NoType
    BY <1>2, <1>5, <1>7 DEF IsRegistered
<1>10. IsRegistered(d, "dir") => g # NoType
    BY <1>2, <1>5, <1>8 DEF IsRegistered
<1>11. f \in (Types \ DirTypes) \union {NoType} /\ g \in DirTypes \union {NoType}
    BY <1>3, <1>4, <1>7, <1>8
<1>12. f \in {"client", "server"} => InDir(p, "tcp")
    BY <1>6, <1>7 DEF NoType
<1>13. g # NoType => MatchesDir(g, p)
    BY <1>8
<1> QED
    BY <1>2, <1>9, <1>10, <1>11, <1>12, <1>13 DEF f, g

\* The defaults are found last: an entry gets one only if nothing else matches.
LEMMA DefaultsAreLast ==
    ASSUME NEW d, DbInv(d), NEW p, NEW i \in DOMAIN d
    PROVE  /\ GetNameByPath(d, p, "regular_file") = "file" /\ d[i].type # "file" =>
                 ~match_path(d[i].type, p, "regular_file")
           /\ GetNameByPath(d, p, "directory") = "dir" /\ d[i].type # "dir" =>
                 ~match_path(d[i].type, p, "directory")
<1>1. \A j \in DOMAIN d : /\ d[j].prio = Prio(d[j].type)
                          /\ j \in Nat
    BY DEF DbInv, Registrations
<1>2. ASSUME NEW j \in DOMAIN d, d[j].type \in {"file", "dir"}, j <= i
      PROVE  d[i].type \in Lows
    <2>1. d[j].prio = low
        BY <1>1, <1>2 DEF Prio, Lows
    <2>2. d[i].prio = low
        <3>1. j = i \/ j < i
            BY <1>1, <1>2
        <3>2. d[i].prio \in {low, normal}
            BY <1>1 DEF Prio
        <3>3. j < i => d[j].prio >= d[i].prio
            BY DEF DbInv
        <3> QED
            BY <2>1, <3>1, <3>2, <3>3 DEF low, normal
    <2> QED
        BY <1>1, <2>2 DEF Prio, low, normal
<1>3. \A t \in Lows : t # "file" => ~match_path(t, p, "regular_file")
    BY DEF Lows, match_path, MatchesFile
<1>4. \A t \in Lows : t # "dir" => ~match_path(t, p, "directory")
    BY DEF Lows, match_path, MatchesDir
<1>5. ASSUME NEW kind, NEW g, g = GetNameByPath(d, p, kind), g \in {"file", "dir"},
             match_path(d[i].type, p, kind)
      PROVE  d[i].type \in Lows
    <2>1. PICK j \in DOMAIN d : d[j].type = g /\ j <= i
        BY <1>5, FirstMatch
    <2> QED
        BY <1>2, <1>5, <2>1
<1> QED
    BY <1>3, <1>4, <1>5

\* A registered type that is no default gets its paths, unless another such type
\* matches them; clone is found before client.
LEMMA MostSpecific ==
    ASSUME NEW d, DbInv(d), NEW p, NEW kind, NEW t,
           IsRegistered(d, t), t \notin Lows, match_path(t, p, kind),
           \A u \in Types \ Lows :
              match_path(u, p, kind) => u = t \/ (t = "clone" /\ u = "client")
    PROVE  GetNameByPath(d, p, kind) = t
<1>1. \A j \in DOMAIN d : /\ d[j].prio = Prio(d[j].type) /\ d[j].type \in Types
                          /\ j \in Nat
    BY RegistrationFacts DEF DbInv
<1>2. PICK k \in DOMAIN d : d[k].type = t
    BY DEF IsRegistered
<1> DEFINE g == GetNameByPath(d, p, kind)
<1> HIDE DEF g
<1>3. PICK i \in DOMAIN d : d[i].type = g /\ match_path(g, p, kind) /\ i <= k
    <2>1. g = GetNameByPath(d, p, kind)
        BY DEF g
    <2> QED
        BY <1>2, <2>1, FirstMatch
<1>4. g \notin Lows
    <2>1. d[k].prio = normal
        BY <1>1, <1>2 DEF Prio
    <2>2. d[i].prio >= d[k].prio
        <3>1. i = k \/ i < k
            BY <1>1, <1>3
        <3>2. i < k => d[i].prio >= d[k].prio
            BY DEF DbInv
        <3>3. d[k].prio >= d[k].prio
            BY <2>1 DEF normal
        <3> QED
            BY <3>1, <3>2, <3>3
    <2> QED
        BY <1>1, <1>3, <2>1, <2>2 DEF Prio, low, normal
<1>5. g = t \/ (t = "clone" /\ g = "client")
    BY <1>1, <1>3, <1>4
<1>6. ~(t = "clone" /\ g = "client")
    <2> SUFFICES ASSUME t = "clone", g = "client" PROVE FALSE
        OBVIOUS
    <2>1. k < i
        BY <1>2, <1>3 DEF DbInv, Registrations
    <2> QED
        BY <1>1, <1>3, <2>1
<1> QED
    BY <1>5, <1>6 DEF g

\* The types of the entries below /tcp, as long as they are registered.
LEMMA TcpLookups ==
    ASSUME NEW d, DbInv(d)
    PROVE  /\ IsRegistered(d, "tcp_dir") =>
                 GetNameByPath(d, <<"tcp">>, "directory") = "tcp_dir"
           /\ IsRegistered(d, "clone") => GetNameByPath(d, clone, "regular_file") = "clone"
           /\ \A n \in Numbers :
                 /\ IsRegistered(d, "session_dir") =>
                       GetNameByPath(d, <<"tcp", n>>, "directory") = "session_dir"
                 /\ IsRegistered(d, "client") =>
                       GetNameByPath(d, <<"tcp", n>>, "regular_file") = "client"
                 /\ \A f \in {"ctl", "data"} : IsRegistered(d, f) =>
                       GetNameByPath(d, <<"tcp", n, f>>, "regular_file") = f
<1>1. ASSUME IsRegistered(d, "tcp_dir")
      PROVE  GetNameByPath(d, <<"tcp">>, "directory") = "tcp_dir"
    <2>1. match_path("tcp_dir", <<"tcp">>, "directory") /\ "tcp_dir" \notin Lows
        BY DEF match_path, MatchesDir, TcpDirPath, Lows
    <2>2. \A u \in Types \ Lows : match_path(u, <<"tcp">>, "directory") => u = "tcp_dir"
        BY DEF match_path, MatchesDir, EthDirPath, SessionDirPath, InDir, Lows
    <2> QED
        BY <1>1, <2>1, <2>2, MostSpecific
<1>2. ASSUME IsRegistered(d, "clone")
      PROVE  GetNameByPath(d, clone, "regular_file") = "clone"
    <2>1. match_path("clone", clone, "regular_file") /\ "clone" \notin Lows
        BY DEF match_path, MatchesFile, ClonePath, clone, Lows
    <2>2. \A u \in Types \ Lows : match_path(u, clone, "regular_file") =>
                                    u = "clone" \/ u = "client"
        BY NamesAssumption DEF match_path, MatchesFile, ResolverPath, RawPath,
               InDir,
           SessionFile, ServerPath, ModulesPath, clone, Lows
    <2> QED
        BY <1>2, <2>1, <2>2, MostSpecific
<1>3. ASSUME NEW n \in Numbers, IsRegistered(d, "session_dir")
      PROVE  GetNameByPath(d, <<"tcp", n>>, "directory") = "session_dir"
    <2>1. /\ match_path("session_dir", <<"tcp", n>>, "directory")
          /\ "session_dir" \notin Lows
        BY DEF match_path, MatchesDir, SessionDirPath, InDir, Lows
    <2>2. \A u \in Types \ Lows :
              match_path(u, <<"tcp", n>>, "directory") => u = "session_dir"
        BY DEF match_path, MatchesDir, EthDirPath, TcpDirPath, Lows
    <2> QED
        BY <1>3, <2>1, <2>2, MostSpecific
<1>4. ASSUME NEW n \in Numbers, IsRegistered(d, "client")
      PROVE  GetNameByPath(d, <<"tcp", n>>, "regular_file") = "client"
    <2>1. /\ match_path("client", <<"tcp", n>>, "regular_file")
          /\ "client" \notin Lows
        BY NamesAssumption DEF match_path, MatchesFile, ClientPath, InDir, Lows
    <2>2. \A u \in Types \ Lows :
              match_path(u, <<"tcp", n>>, "regular_file") => u = "client"
        BY NamesAssumption DEF match_path, MatchesFile, ResolverPath, RawPath,
               InDir,
           ClonePath, SessionFile, ServerPath, ModulesPath, Lows
    <2> QED
        BY <1>4, <2>1, <2>2, MostSpecific
<1>5. ASSUME NEW n \in Numbers, NEW f \in {"ctl", "data"}, IsRegistered(d, f)
      PROVE  GetNameByPath(d, <<"tcp", n, f>>, "regular_file") = f
    <2>1. match_path(f, <<"tcp", n, f>>, "regular_file") /\ f \notin Lows
        BY DEF match_path, MatchesFile, SessionFile, Lows
    <2>2. \A u \in Types \ Lows : match_path(u, <<"tcp", n, f>>, "regular_file") => u = f
        BY DEF match_path, MatchesFile, ResolverPath, RawPath, InDir, ClonePath,
           SessionFile, ClientPath, ServerPath, ModulesPath, Lows
    <2> QED
        BY <1>5, <2>1, <2>2, MostSpecific
<1> QED
    BY <1>1, <1>2, <1>3, <1>4, <1>5

-----------------------------------------------------------------------------
(* the invariant *)

Names ==
    Numbers \union Interfaces \union TcpChildren \union SessionChildren
        \union {"tcp", "eth", "ip", "dns", "modules"}
        \union UNION {Range(p) : p \in UNION {w.files \union w.dirs : w \in Workloads}}
Paths == Seq(Names) \ {<<>>}

\* Entries have a type and a directory; client and server files are below /tcp.
TreeInv ==
    /\ tree = [p \in DOMAIN tree |-> tree[p]]
    /\ DOMAIN tree \subseteq Paths
    /\ \A p \in DOMAIN tree : /\ tree[p] \in Types /\ IsDir(Parent(p))
                              /\ tree[p] \in {"client", "server"} => InDir(p, "tcp")

\* An open /modules is a file as long as it can be written to with effect.
OpenInv ==
    /\ open \subseteq Paths /\ socks \subseteq Paths
    /\ current \in DOMAIN SessionNames /\ ret \in {"ok", "error"} /\ work \in Workloads
    /\ modules \in open /\ IsRegistered(db, "module_loader") => IsFile(modules)

\* The directory of the sessions stays.
TcpDirInv ==
    IsRegistered(db, "tcp_dir") => <<"tcp">> \in DOMAIN tree /\ tree[<<"tcp">>] = "tcp_dir"

BaseInv == DbInv(db) /\ TreeInv /\ OpenInv /\ TcpDirInv

-----------------------------------------------------------------------------
(* what the steps do to the tree *)

KeepsTree ==
    /\ UNCHANGED <<tree, socks>>
    /\ open' \subseteq open \union {q \in DOMAIN tree : IsFile(q)}

AddsDir(p) ==
    /\ Missing(p) /\ ~MkdirFails(p)
    /\ tree' = WithDir(p)
    /\ UNCHANGED <<db, socks>>
    /\ open' \subseteq open \union {q \in DOMAIN tree : IsFile(q)}

RemovesFile(p) == Unlink(p) /\ ~Refuses(p)
RemovesDir(p) == Rmdir(p) /\ ~Refuses(p)
RemovesLoader == Unload("module_loader") /\ IsRegistered(db, "module_loader")

\* The files of a session.
LEMMA SessionFiveFiles == SessionChildren = {"data", "ctl", "local", "remote", "listen"}
<1>1. DOMAIN SessionOrder = 1 .. 5
    BY DEF SessionOrder
<1>2. 1 .. 5 = {1, 2, 3, 4, 5}
    OBVIOUS
<1>3. /\ SessionOrder[1] = "data" /\ SessionOrder[2] = "ctl" /\ SessionOrder[3] = "local"
      /\ SessionOrder[4] = "remote" /\ SessionOrder[5] = "listen"
    BY DEF SessionOrder
<1> QED
    BY <1>1, <1>2, <1>3 DEF SessionChildren, Range

\* The paths that the program itself uses.
LEMMA FixedPaths ==
    /\ <<"tcp">> \in Paths /\ Front(<<"tcp">>) = <<>>
    /\ <<"eth">> \in Paths /\ Front(<<"eth">>) = <<>>
    /\ <<"ip">> \in Paths /\ Front(<<"ip">>) = <<>>
    /\ <<"dns">> \in Paths /\ Front(<<"dns">>) = <<>>
    /\ modules \in Paths /\ Front(modules) = <<>>
    /\ clone \in Paths /\ Front(clone) = <<"tcp">>
    /\ \A n \in Numbers : <<"tcp", n>> \in Paths /\ Front(<<"tcp", n>>) = <<"tcp">>
    /\ \A n \in DOMAIN SessionNames : SessionNames[n] \in Numbers
<1>1. /\ "tcp" \in Names /\ "eth" \in Names /\ "ip" \in Names /\ "dns" \in Names
      /\ "modules" \in Names /\ "clone" \in Names /\ \A n \in Numbers : n \in Names
    BY DEF Names, TcpChildren
<1>2. ASSUME NEW a \in Names
      PROVE  <<a>> \in Paths /\ Front(<<a>>) = <<>>
    <2>1. <<a>> \in Seq(Names) /\ <<a>> # <<>> /\ Len(<<a>>) = 1
        OBVIOUS
    <2> QED
        BY <2>1, FrontFacts DEF Paths
<1>3. ASSUME NEW a \in Names, NEW b \in Names
      PROVE  <<a, b>> \in Paths /\ Front(<<a, b>>) = <<a>>
    BY ShortPaths DEF Paths
<1>4. \A n \in DOMAIN SessionNames : SessionNames[n] \in Numbers
    BY NamesAssumption
<1> QED
    BY <1>1, <1>2, <1>3, <1>4 DEF modules, clone

\* The paths that programs use.
LEMMA WorkPaths ==
    ASSUME NEW w \in Workloads, NEW p \in w.files \union w.dirs
    PROVE  p \in Paths
<1>1. p \in Seq(Range(p)) /\ p # <<>>
    BY WorkloadsAssumption
<1>2. Range(p) \subseteq Names
    <2> DEFINE Ws == {v.files \union v.dirs : v \in Workloads}
               Rs == {Range(q) : q \in UNION Ws}
    <2>1. w.files \union w.dirs \in Ws
        OBVIOUS
    <2>2. p \in UNION Ws
        BY <2>1
    <2>3. Range(p) \in Rs
        BY <2>2
    <2>4. UNION Rs \subseteq Names
        BY DEF Names
    <2> HIDE DEF Ws, Rs
    <2> QED
        BY <2>3, <2>4
<1>3. p \in Seq(Names)
    BY <1>1, <1>2, SeqMonotonic
<1> QED
    BY <1>1, <1>3 DEF Paths

\* What the hook of a directory makes is in that directory, and was not there
\* if the directory was not.
LEMMA ChildFacts ==
    ASSUME NEW p \in Paths, NEW c \in Children(p)
    PROVE  /\ c \in Paths /\ Front(c) = p /\ Len(c) = Len(p) + 1 /\ c # p
           /\ TreeInv /\ p \notin DOMAIN tree => c \notin DOMAIN tree
<1>1. PICK x \in ChildNames(DirType(p)) : c = Append(p, x)
    BY DEF Children
<1>2. x \in Names
    <2>1. \A t : ChildNames(t) \subseteq Names
        BY DEF ChildNames, EthChildren, TcpChildren, Names
    <2> QED
        BY <2>1
<1>3. p \in Seq(Names) /\ Len(p) \in Nat /\ p # <<>>
    BY DEF Paths
<1>4. c \in Paths /\ Front(c) = p /\ Len(c) = Len(p) + 1
    BY <1>1, <1>2, <1>3, AppendFacts DEF Paths
<1>5. c # p
    BY <1>3, <1>4
<1>6. TreeInv /\ p \notin DOMAIN tree => c \notin DOMAIN tree
    BY <1>3, <1>4 DEF TreeInv, Parent, IsDir
<1> QED
    BY <1>4, <1>5, <1>6

\* The hook of a directory makes everything when nothing in it must fail.
LEMMA AllChildrenMade ==
    ASSUME NEW p, ~MkdirFails(p)
    PROVE  ChildrenMade(p) = Children(p) /\ Made(p) = WithDir(p)
<1>1. \A f \in Children(p) : ~MknodMustFail(f)
    BY DEF MkdirFails
<1>2. DirType(p) # NoType
    BY DEF MkdirFails
<1> QED
    BY <1>1, <1>2 DEF ChildrenMade, Made

\* Making a directory leaves the entries as they are.
LEMMA WithDirFacts ==
    ASSUME TreeInv, NEW p \in Paths, p \notin DOMAIN tree, ~MkdirFails(p)
    PROVE  /\ DOMAIN WithDir(p) = DOMAIN tree \union Children(p) \union {p}
           /\ WithDir(p) = [q \in DOMAIN WithDir(p) |-> WithDir(p)[q]]
           /\ \A q \in DOMAIN tree : WithDir(p)[q] = tree[q]
           /\ WithDir(p)[p] = DirType(p)
           /\ \A c \in Children(p) : WithDir(p)[c] = FileType(c)
<1>1. \A c \in Children(p) : c # p /\ c \notin DOMAIN tree
    BY ChildFacts
<1> QED
    BY <1>1, AllChildrenMade DEF WithDir

\* What is below a directory: everything whose own directory is below it.
LEMMA BelowFacts ==
    ASSUME TreeInv, NEW p \in DOMAIN tree, NEW q \in DOMAIN tree
    PROVE  q \in Below(p) <=> p = q \/ Front(q) \in Below(p)
<1>1. p \in Seq(Names) /\ q \in Seq(Names) /\ p # <<>> /\ q # <<>>
    BY DEF TreeInv, Paths
<1>2. IsPrefix(p, q) <=> p = q \/ IsPrefix(p, Front(q))
    BY <1>1, PrefixFacts
<1>3. IsPrefix(p, Front(q)) => Front(q) \in DOMAIN tree
    <2>1. CASE Front(q) = <<>>
        <3>1. ~IsPrefix(p, <<>>)
            <4>1. Len(p) \in Nat /\ Len(p) # 0 /\ Len(<<>>) = 0
                BY <1>1
            <4> QED
                BY <4>1 DEF IsPrefix
        <3> QED
            BY <2>1, <3>1
    <2>2. CASE Front(q) # <<>>
        BY <2>2 DEF TreeInv, IsDir, Parent
    <2> QED
        BY <2>1, <2>2
<1> QED
    BY <1>2, <1>3 DEF Below, Under

\* Nothing is below a path that has no entry: the shortest such path would have
\* its directory there too.
LEMMA NothingBelow ==
    ASSUME TreeInv, NEW p \in Paths, p \notin DOMAIN tree
    PROVE  Under(tree, p) = {}
<1> SUFFICES ASSUME Under(tree, p) # {} PROVE FALSE
    OBVIOUS
<1> DEFINE N == {Len(q) : q \in Under(tree, p)}
<1>1. \A q \in DOMAIN tree : q \in Seq(Names) /\ q # <<>> /\ Len(q) \in Nat
    BY DEF TreeInv, Paths
<1>2. N \in SUBSET Nat /\ N # {}
    BY <1>1 DEF Under
<1>3. Min(N) \in N /\ \A n \in N : Min(N) <= n
    BY <1>2, MinIsMember
<1>4. PICK q \in Under(tree, p) : \A r \in Under(tree, p) : Len(q) <= Len(r)
    BY <1>3
<1>5. q \in DOMAIN tree /\ IsPrefix(p, q) /\ p # q
    BY <1>4 DEF Under
<1>6. p \in Seq(Names) /\ p # <<>>
    BY DEF Paths
<1>7. IsPrefix(p, Front(q))
    BY <1>1, <1>5, <1>6, PrefixFacts
<1>8. Front(q) \in Seq(Names) /\ Len(Front(q)) = Len(q) - 1
    BY <1>1, <1>5, FrontFacts
<1>9. Front(q) # <<>>
    <2>1. IsPrefix(p, <<>>) => Len(p) <= 0
        BY DEF IsPrefix
    <2>2. Len(p) \in Nat /\ Len(p) # 0
        BY <1>6
    <2> QED
        BY <1>7, <2>1, <2>2
<1>10. Front(q) \in Under(tree, p)
    BY <1>5, <1>7, <1>9 DEF Under, TreeInv, IsDir, Parent
<1> QED
    BY <1>1, <1>4, <1>5, <1>8, <1>10

\* An entry that was added, and what was made in it, can be removed again, and
\* that leaves the tree as it was.
LEMMA RemovedAgain ==
    ASSUME TreeInv, NEW p \in Paths, p \notin DOMAIN tree,
           NEW f, f = [q \in DOMAIN f |-> f[q]], DOMAIN tree \subseteq DOMAIN f,
           \A q \in DOMAIN tree : f[q] = tree[q],
           \A q \in DOMAIN f \ DOMAIN tree : q \in Paths /\ (q = p \/ Front(q) = p)
    PROVE  RemoveEntry(f, p) = tree
<1>1. \A q \in Paths : q \in Seq(Names) /\ q # <<>>
    BY DEF Paths
<1>2. IsPrefix(p, p)
    BY <1>1, PrefixFacts
<1>3. \A q \in DOMAIN f \ DOMAIN tree : IsPrefix(p, q)
    BY <1>1, <1>2, PrefixFacts
<1>4. \A q \in DOMAIN tree : ~IsPrefix(p, q)
    BY NothingBelow DEF Under
<1>5. DOMAIN f \ Under(f, p) = DOMAIN tree
    BY <1>3, <1>4 DEF Under
<1>6. tree = [q \in DOMAIN tree |-> tree[q]]
    BY DEF TreeInv
<1> QED
    BY <1>5, <1>6 DEF RemoveEntry, Without, Restrict

\* A file whose hook throws leaves the tree as it was.
LEMMA FailedFile ==
    ASSUME TreeInv, NEW p \in Paths, p \notin DOMAIN tree
    PROVE  RemoveEntry(WithFile(p), p) = tree
<1> DEFINE f == WithFile(p)
<1>1. /\ f = [q \in DOMAIN f |-> f[q]] /\ DOMAIN f = DOMAIN tree \union {p}
      /\ \A q \in DOMAIN tree : f[q] = tree[q]
    BY DEF WithFile
<1> HIDE DEF f
<1>2. RemoveEntry(f, p) = tree
    BY <1>1, RemovedAgain
<1> QED
    BY <1>2 DEF f

\* A directory whose hook throws, when it could make nothing, something or all
\* but one of what belongs in it, leaves the tree as it was.
LEMMA FailedDirectory ==
    ASSUME TreeInv, NEW p \in Paths, p \notin DOMAIN tree, MkdirFails(p)
    PROVE  Made(p) = tree
<1> DEFINE f == WithDir(p)
<1>1. ChildrenMade(p) \subseteq Children(p)
    BY DEF ChildrenMade
<1>2. \A c \in ChildrenMade(p) : c \in Paths /\ Front(c) = p /\ c # p /\ c \notin DOMAIN tree
    BY <1>1, ChildFacts
<1>3. /\ f = [q \in DOMAIN f |-> f[q]]
      /\ DOMAIN f = DOMAIN tree \union ChildrenMade(p) \union {p}
      /\ \A q \in DOMAIN tree : f[q] = tree[q]
    BY <1>2 DEF WithDir
<1> HIDE DEF f
<1>4. RemoveEntry(f, p) = tree
    BY <1>2, <1>3, RemovedAgain
<1> QED
    BY <1>4 DEF Made, f

\* Every step keeps the registry in order, and what is not a module's, once
\* unregistered, does not come back.
LEMMA DbStep ==
    ASSUME DbInv(db), work \in Workloads, Request
    PROVE  /\ DbInv(db')
           /\ \A t : t \notin Loadable /\ t # "eth_dir" /\ IsRegistered(db', t)
                        => IsRegistered(db, t)
<1>1. CASE UNCHANGED db
    BY <1>1
<1>2. ASSUME NEW m \in work.loads, Load(m)
      PROVE  /\ DbInv(db')
             /\ \A t : t \notin Loadable /\ t # "eth_dir" /\ IsRegistered(db', t)
                          => IsRegistered(db, t)
    <2>1. m \in Loadable
        BY WorkloadsAssumption
    <2>2. db' = InstallOps(db, normal, m)
        BY <1>2 DEF Load
    <2> QED
        BY <2>1, <2>2, LoadKeeps
<1>3. ASSUME NEW m, LoadFails(m)
      PROVE  /\ DbInv(db')
             /\ \A t : IsRegistered(db', t) => IsRegistered(db, t)
    BY <1>3, UnregisterKeeps DEF LoadFails
<1>4. ASSUME NEW n, Unload(n)
      PROVE  /\ DbInv(db')
             /\ \A t : IsRegistered(db', t) => IsRegistered(db, t)
    <2>1. db' = UnregisterOps(Uninstall(db, n), n) \/ db' = db
        BY <1>4 DEF Unload, UninstallOps
    <2>2. /\ DbInv(Uninstall(db, n))
          /\ \A t : IsRegistered(Uninstall(db, n), t) => IsRegistered(db, t)
        BY UninstallKeeps
    <2> DEFINE d == Uninstall(db, n)
    <2> HIDE DEF d
    <2>3. DbInv(d) /\ \A t : IsRegistered(d, t) => IsRegistered(db, t)
        BY <2>2 DEF d
    <2>4. db' = UnregisterOps(d, n) \/ db' = db
        BY <2>1 DEF d
    <2> QED
        BY <2>3, <2>4, UnregisterKeeps
<1> QED
    BY <1>1, <1>2, <1>3, <1>4 DEF Request, Mknod, MknodFails, Mkdir, Unlink, Rmdir,
           Open,
       OpenFails, CloneStuck, OpenClone, Accept, CloneTurnsTo, Close

\* The path of a session is below /tcp, which is a directory if clone is there.
LEMMA SessionFacts ==
    ASSUME TreeInv, NEW n \in DOMAIN SessionNames
    PROVE  /\ SessionDir(n) \in Paths
           /\ clone \in DOMAIN tree /\ SessionDir(n) \notin DOMAIN tree =>
                 Missing(SessionDir(n))
<1>1. SessionDir(n) \in Paths /\ Front(SessionDir(n)) = <<"tcp">> /\ Front(clone) = <<"tcp">>
    BY FixedPaths DEF SessionDir
<1> QED
    BY <1>1 DEF TreeInv, Missing, Parent

\* Turning to a session makes its directory or leaves the tree alone.
LEMMA CloneFacts ==
    ASSUME BaseInv, NEW n \in DOMAIN SessionNames, CloneTurnsTo(n),
           open' \subseteq open \union {clone}
    PROVE  /\ KeepsTree \/ \E p \in Paths : AddsDir(p)
           /\ UNCHANGED <<db, socks>> /\ current' \in DOMAIN SessionNames
           /\ clone \in DOMAIN tree
<1>1. clone \in DOMAIN tree /\ IsFile(clone)
    BY DEF CloneTurnsTo, IsFile, DirTypes
<1>2. open' \subseteq open \union {q \in DOMAIN tree : IsFile(q)}
    BY <1>1
<1>3. UNCHANGED <<db, socks>> /\ current' = n /\ tree' = Confirmed(n)
    BY DEF CloneTurnsTo
<1>4. CASE SessionDir(n) \in DOMAIN tree \/ MkdirFails(SessionDir(n))
    <2>1. SessionDir(n) \notin DOMAIN tree => Made(SessionDir(n)) = tree
        BY <1>4, SessionFacts, FailedDirectory DEF BaseInv
    <2> QED
        BY <1>1, <1>2, <1>3, <2>1 DEF Confirmed, KeepsTree
<1>5. CASE ~(SessionDir(n) \in DOMAIN tree \/ MkdirFails(SessionDir(n)))
    <2>1. SessionDir(n) \in Paths /\ Missing(SessionDir(n))
        BY <1>1, <1>5, SessionFacts DEF BaseInv
    <2>2. AddsDir(SessionDir(n))
        BY <1>2, <1>3, <1>5, <2>1, AllChildrenMade DEF Confirmed, AddsDir
    <2> QED
        BY <1>1, <1>3, <2>1, <2>2
<1> QED
    BY <1>4, <1>5

\* What a step does to the tree.
LEMMA TreeSteps ==
    ASSUME BaseInv, Request
    PROVE  /\ \/ KeepsTree
              \/ \E p \in Paths : Mknod(p)
              \/ \E p \in Paths : AddsDir(p)
              \/ \E p : RemovesFile(p)
              \/ \E p : RemovesDir(p)
              \/ RemovesLoader
           /\ current' \in DOMAIN SessionNames /\ ret' \in {"ok", "error"}
<1> USE DEF BaseInv, OpenInv
<1>1. ASSUME NEW p \in work.files, Mknod(p) \/ MknodFails(p)
      PROVE  /\ KeepsTree \/ \E q \in Paths : Mknod(q)
             /\ current' \in DOMAIN SessionNames /\ ret' \in {"ok", "error"}
    <2>1. p \in Paths
        BY WorkPaths
    <2> QED
        BY <1>1, <2>1, FailedFile DEF Mknod, MknodFails, Missing, KeepsTree
<1>2. ASSUME NEW p \in work.dirs, Mkdir(p)
      PROVE  /\ KeepsTree \/ \E q \in Paths : AddsDir(q)
             /\ current' \in DOMAIN SessionNames /\ ret' \in {"ok", "error"}
    <2>1. p \in Paths
        BY WorkPaths
    <2> QED
        BY <1>2, <2>1, FailedDirectory, AllChildrenMade
           DEF Mkdir, Missing, KeepsTree, AddsDir
<1>3. ASSUME NEW p \in work.removes, Unlink(p) \/ Rmdir(p)
      PROVE  /\ KeepsTree \/ RemovesFile(p) \/ RemovesDir(p)
             /\ current' \in DOMAIN SessionNames /\ ret' \in {"ok", "error"}
    BY <1>3 DEF Unlink, Rmdir, KeepsTree, RemovesFile, RemovesDir
<1>4. ASSUME NEW p, Open(p) \/ OpenFails(p) \/ Close(p)
      PROVE  KeepsTree /\ current' \in DOMAIN SessionNames /\ ret' \in {"ok", "error"}
    BY <1>4 DEF Open, OpenFails, Close, KeepsTree, Openable, IsFile
<1>5. ASSUME CloneStuck
      PROVE  KeepsTree /\ current' \in DOMAIN SessionNames /\ ret' \in {"ok", "error"}
    BY <1>5 DEF CloneStuck, KeepsTree
<1>6. ASSUME NEW n \in DOMAIN SessionNames, OpenClone(n)
      PROVE  /\ KeepsTree \/ \E q \in Paths : AddsDir(q)
             /\ current' \in DOMAIN SessionNames /\ ret' \in {"ok", "error"}
    <2>1. /\ CloneTurnsTo(n) /\ open' \subseteq open \union {clone}
          /\ ret' \in {"ok", "error"}
        BY <1>6 DEF OpenClone
    <2> QED
        BY <2>1, CloneFacts
<1>7. ASSUME NEW p, NEW n \in DOMAIN SessionNames, Accept(p, n)
      PROVE  /\ KeepsTree \/ \E q \in Paths : AddsDir(q)
             /\ current' \in DOMAIN SessionNames /\ ret' \in {"ok", "error"}
    <2>1. /\ CloneTurnsTo(n) /\ open' \subseteq open \union {clone}
          /\ ret' \in {"ok", "error"}
        BY <1>7 DEF Accept
    <2> QED
        BY <2>1, CloneFacts
<1>8. ASSUME NEW m, Load(m) \/ LoadFails(m)
      PROVE  KeepsTree /\ current' \in DOMAIN SessionNames /\ ret' \in {"ok", "error"}
    BY <1>8 DEF Load, LoadFails, KeepsTree
<1>9. ASSUME NEW n, Unload(n)
      PROVE  /\ KeepsTree \/ RemovesLoader
             /\ current' \in DOMAIN SessionNames /\ ret' \in {"ok", "error"}
    BY <1>9 DEF Unload, KeepsTree, RemovesLoader
<1> QED
    BY <1>1, <1>2, <1>3, <1>4, <1>5, <1>6, <1>7, <1>8, <1>9 DEF Request

\* The types that mknod and mkdir give.
LEMMA GivenTypes ==
    ASSUME DbInv(db), NEW p
    PROVE  /\ FileType(p) \in (Types \ DirTypes) \union {NoType}
           /\ DirType(p) \in DirTypes \union {NoType}
           /\ FileType(p) \in {"client", "server"} => InDir(p, "tcp")
           /\ ~MknodMustFail(p) => FileType(p) \in Types \ DirTypes
           /\ ~MkdirFails(p) => /\ DirType(p) \in DirTypes
                                /\ \A c \in Children(p) : FileType(c) \in Types \ DirTypes
           /\ NoType \notin Types /\ DirTypes \subseteq Types
    BY LookupTypes DEF FileType, DirType, MknodMustFail, MkdirFails

\* A file is added: the others stay.
LEMMA MknodFacts ==
    ASSUME BaseInv, NEW p \in Paths, Mknod(p)
    PROVE  /\ p \notin DOMAIN tree /\ IsDir(Front(p))
           /\ DOMAIN tree' = DOMAIN tree \union {p}
           /\ tree' = [q \in DOMAIN tree' |-> tree'[q]]
           /\ \A q \in DOMAIN tree : tree'[q] = tree[q]
           /\ tree'[p] = FileType(p) /\ FileType(p) \in Types \ DirTypes
    BY GivenTypes DEF BaseInv, Mknod, Missing, WithFile, Parent

\* A directory and what is in it are added: the others stay.
LEMMA AddsDirFacts ==
    ASSUME BaseInv, NEW p \in Paths, AddsDir(p)
    PROVE  /\ p \notin DOMAIN tree /\ IsDir(Front(p))
           /\ DOMAIN tree' = DOMAIN tree \union Children(p) \union {p}
           /\ tree' = [q \in DOMAIN tree' |-> tree'[q]]
           /\ \A q \in DOMAIN tree : tree'[q] = tree[q]
           /\ tree'[p] = DirType(p) /\ DirType(p) \in DirTypes
           /\ \A c \in Children(p) : /\ c \in Paths /\ Front(c) = p /\ c # p
                                     /\ c \notin DOMAIN tree
                                     /\ Len(c) = Len(p) + 1
                                     /\ tree'[c] = FileType(c)
                                     /\ FileType(c) \in Types \ DirTypes
<1>1. Missing(p) /\ ~MkdirFails(p) /\ tree' = WithDir(p)
    BY DEF AddsDir
<1>2. p \notin DOMAIN tree /\ IsDir(Front(p))
    BY <1>1 DEF Missing, Parent
<1>3. /\ DOMAIN tree' = DOMAIN tree \union Children(p) \union {p}
      /\ tree' = [q \in DOMAIN tree' |-> tree'[q]]
      /\ \A q \in DOMAIN tree : tree'[q] = tree[q]
      /\ tree'[p] = DirType(p)
      /\ \A c \in Children(p) : tree'[c] = FileType(c)
    BY <1>1, <1>2, WithDirFacts DEF BaseInv
<1>4. /\ DirType(p) \in DirTypes
      /\ \A c \in Children(p) : FileType(c) \in Types \ DirTypes
    BY <1>1, GivenTypes DEF BaseInv
<1>5. \A c \in Children(p) : /\ c \in Paths /\ Front(c) = p /\ c # p
                             /\ c \notin DOMAIN tree /\ Len(c) = Len(p) + 1
    BY <1>2, ChildFacts DEF BaseInv
<1> QED
    BY <1>2, <1>3, <1>4, <1>5

\* Entries are taken away: the others stay.
LEMMA WithoutFacts ==
    ASSUME NEW S
    PROVE  /\ DOMAIN Without(tree, S) = DOMAIN tree \ S
           /\ Without(tree, S) = [q \in DOMAIN Without(tree, S) |-> Without(tree, S)[q]]
           /\ \A q \in DOMAIN tree \ S : Without(tree, S)[q] = tree[q]
    BY DEF Without, Restrict

\* No entry is in a file.
LEMMA TreeWithoutFile ==
    ASSUME TreeInv, NEW p, IsFile(p) \/ p \notin DOMAIN tree, p # <<>>,
           tree' = Without(tree, {p})
    PROVE  TreeInv'
<1>1. /\ DOMAIN tree' = DOMAIN tree \ {p}
      /\ tree' = [q \in DOMAIN tree' |-> tree'[q]]
      /\ \A q \in DOMAIN tree' : tree'[q] = tree[q]
    BY WithoutFacts
<1>2. ASSUME NEW q \in DOMAIN tree' PROVE IsDir(Front(q))'
    <2>1. IsDir(Front(q)) /\ q \in DOMAIN tree
        BY <1>1 DEF TreeInv, Parent
    <2>2. Front(q) # p
        BY <2>1 DEF IsDir, IsFile
    <2> QED
        BY <1>1, <2>1, <2>2 DEF IsDir
<1> QED
    BY <1>1, <1>2 DEF TreeInv, Parent

\* The tree stays a tree.
LEMMA TreeStep ==
    ASSUME BaseInv, Request
    PROVE  TreeInv'
<1> USE DEF BaseInv
<1>1. ASSUME KeepsTree PROVE TreeInv'
    BY <1>1 DEF KeepsTree, TreeInv, IsDir
<1>2. ASSUME NEW p \in Paths, Mknod(p) PROVE TreeInv'
    <2>1. /\ p \notin DOMAIN tree /\ IsDir(Front(p))
          /\ DOMAIN tree' = DOMAIN tree \union {p}
          /\ tree' = [q \in DOMAIN tree' |-> tree'[q]]
          /\ \A q \in DOMAIN tree : tree'[q] = tree[q]
          /\ tree'[p] = FileType(p) /\ FileType(p) \in Types \ DirTypes
        BY <1>2, MknodFacts
    <2>2. FileType(p) \in {"client", "server"} => InDir(p, "tcp")
        BY GivenTypes
    <2>3. \A q : IsDir(q) => IsDir(q)'
        BY <2>1 DEF IsDir
    <2> QED
        BY <2>1, <2>2, <2>3 DEF TreeInv, Parent
<1>3. ASSUME NEW p \in Paths, AddsDir(p) PROVE TreeInv'
    <2>1. /\ p \notin DOMAIN tree /\ IsDir(Front(p))
          /\ DOMAIN tree' = DOMAIN tree \union Children(p) \union {p}
          /\ tree' = [q \in DOMAIN tree' |-> tree'[q]]
          /\ \A q \in DOMAIN tree : tree'[q] = tree[q]
          /\ tree'[p] = DirType(p) /\ DirType(p) \in DirTypes
          /\ \A c \in Children(p) : /\ c \in Paths /\ Front(c) = p /\ c # p
                                    /\ tree'[c] = FileType(c)
                                    /\ FileType(c) \in Types \ DirTypes
        BY <1>3, AddsDirFacts
    <2>2. \A c \in Children(p) : FileType(c) \in {"client", "server"} => InDir(c, "tcp")
        BY GivenTypes
    <2>3. DirType(p) \in Types /\ DirType(p) \notin {"client", "server"}
        BY <2>1, GivenTypes DEF DirTypes
    <2>4. IsDir(p)' /\ \A q : IsDir(q) => IsDir(q)'
        BY <2>1 DEF IsDir
    <2>5. DOMAIN tree' \subseteq Paths
        BY <2>1 DEF TreeInv
    <2>6. ASSUME NEW q \in DOMAIN tree'
          PROVE  /\ tree'[q] \in Types /\ IsDir(Front(q))'
                 /\ tree'[q] \in {"client", "server"} => InDir(q, "tcp")
        <3>1. CASE q \in DOMAIN tree
            BY <2>1, <2>4, <3>1 DEF TreeInv, Parent
        <3>2. CASE q = p
            BY <2>1, <2>3, <2>4, <3>2
        <3>3. CASE q \in Children(p)
            BY <2>1, <2>2, <2>4, <3>3
        <3> QED
            BY <2>1, <3>1, <3>2, <3>3
    <2> QED
        BY <2>1, <2>5, <2>6 DEF TreeInv, Parent
<1>4. ASSUME NEW p, RemovesFile(p) PROVE TreeInv'
    <2>1. IsFile(p) /\ tree' = Without(tree, {p})
        BY <1>4 DEF RemovesFile, Unlink
    <2>2. p # <<>>
        BY <2>1 DEF IsFile, TreeInv, Paths
    <2> QED
        BY <2>1, <2>2, TreeWithoutFile
<1>5. ASSUME NEW p, RemovesDir(p) PROVE TreeInv'
    <2>1. p \in DOMAIN tree /\ tree' = Without(tree, Below(p))
        BY <1>5 DEF RemovesDir, Rmdir, RemoveEntry, Below
    <2>2. /\ DOMAIN tree' = DOMAIN tree \ Below(p)
          /\ tree' = [q \in DOMAIN tree' |-> tree'[q]]
          /\ \A q \in DOMAIN tree' : tree'[q] = tree[q]
        BY <2>1, WithoutFacts
    <2>3. ASSUME NEW q \in DOMAIN tree' PROVE IsDir(Front(q))'
        <3>1. q \in DOMAIN tree /\ IsDir(Front(q)) /\ q \notin Below(p)
            BY <2>2 DEF TreeInv, Parent
        <3>2. Front(q) \notin Below(p)
            BY <2>1, <3>1, BelowFacts
        <3> QED
            BY <2>2, <3>1, <3>2 DEF IsDir
    <2> QED
        BY <2>2, <2>3 DEF TreeInv, Parent
<1>6. ASSUME RemovesLoader PROVE TreeInv'
    <2>1. tree' = Without(tree, {modules}) /\ IsFile(modules)
        BY <1>6 DEF RemovesLoader, Unload, OpenInv
    <2>2. modules # <<>>
        BY FixedPaths DEF Paths
    <2> QED
        BY <2>1, <2>2, TreeWithoutFile
<1> QED
    BY <1>1, <1>2, <1>3, <1>4, <1>5, <1>6, TreeSteps

\* What is not a module's does not come back (DbStep), by name.
LEMMA NotAModule ==
    /\ StaticTypes \intersect Loadable = {}
    /\ {"module_loader", "tcp_dir", "clone", "ctl", "data", "session_dir", "client",
        "server", "file"} \subseteq StaticTypes \ {"eth_dir"}
BY ModulesAssumption DEF StaticTypes

\* Unloading module_loader unregisters it.
LEMMA LoaderIsGone ==
    ASSUME DbInv(db), RemovesLoader
    PROVE  ~IsRegistered(db', "module_loader")
<1> DEFINE d == Uninstall(db, "module_loader")
<1>1. db' = UnregisterOps(d, "module_loader")
    BY DEF RemovesLoader, Unload, UninstallOps
<1>2. DbInv(d)
    BY UninstallKeeps
<1> HIDE DEF d
<1> QED
    BY <1>1, <1>2, UnregisterKeeps

\* The open files and the sockets stay below the root, and /modules a file.
LEMMA OpenStep ==
    ASSUME BaseInv, Request, UNCHANGED work
    PROVE  OpenInv'
<1> USE DEF BaseInv
<1>1. current' \in DOMAIN SessionNames /\ ret' \in {"ok", "error"} /\ work' \in Workloads
    BY TreeSteps DEF OpenInv
<1>2. IsRegistered(db', "module_loader") => IsRegistered(db, "module_loader")
    BY DbStep, NotAModule DEF OpenInv
<1> DEFINE Files == open' \subseteq Paths /\ socks' \subseteq Paths
           Loader == modules \in open' /\ IsRegistered(db', "module_loader") =>
                         modules \in DOMAIN tree' /\ tree'[modules] \notin DirTypes
<1> SUFFICES Files /\ Loader
    BY <1>1 DEF OpenInv, IsFile
<1>3. ASSUME KeepsTree PROVE Files /\ Loader
    BY <1>2, <1>3 DEF KeepsTree, OpenInv, TreeInv, IsFile
<1>4. ASSUME NEW p \in Paths, Mknod(p) PROVE Files /\ Loader
    <2>1. /\ open' = open /\ socks' \subseteq socks \union {p}
          /\ \A q \in DOMAIN tree : q \in DOMAIN tree' /\ tree'[q] = tree[q]
        BY <1>4, MknodFacts DEF Mknod
    <2> QED
        BY <1>2, <2>1 DEF OpenInv, IsFile
<1>5. ASSUME NEW p \in Paths, AddsDir(p) PROVE Files /\ Loader
    <2>1. /\ open' \subseteq open \union {q \in DOMAIN tree : IsFile(q)} /\ socks' = socks
          /\ \A q \in DOMAIN tree : q \in DOMAIN tree' /\ tree'[q] = tree[q]
        BY <1>5, AddsDirFacts DEF AddsDir
    <2> QED
        BY <1>2, <2>1 DEF OpenInv, TreeInv, IsFile
<1>6. ASSUME NEW p, RemovesFile(p) PROVE Files /\ Loader
    <2>1. /\ open' = open /\ socks' \subseteq socks /\ p \notin open
          /\ tree' = Without(tree, {p})
        BY <1>6 DEF RemovesFile, Unlink, RmnodSocks
    <2>2. \A q \in DOMAIN tree \ {p} : q \in DOMAIN tree' /\ tree'[q] = tree[q]
        BY <2>1, WithoutFacts
    <2> QED
        BY <1>2, <2>1, <2>2 DEF OpenInv, IsFile
<1>7. ASSUME NEW p, RemovesDir(p) PROVE Files /\ Loader
    <2>1. /\ open' = {q \in open : ~IsPrefix(p, q)} /\ socks' = socks
          /\ tree' = Without(tree, Below(p))
        BY <1>7 DEF RemovesDir, Rmdir, RemoveEntry, Below
    <2>2. \A q \in DOMAIN tree \ Below(p) : q \in DOMAIN tree' /\ tree'[q] = tree[q]
        BY <2>1, WithoutFacts
    <2>3. \A q \in open' : q \in open /\ q \notin Below(p)
        BY <2>1 DEF Below, Under
    <2> QED
        BY <1>2, <2>1, <2>2, <2>3 DEF OpenInv, IsFile
<1>8. ASSUME RemovesLoader PROVE Files /\ Loader
    <2>1. open' = open /\ socks' = socks
        BY <1>8 DEF RemovesLoader, Unload
    <2> QED
        BY <1>8, <2>1, LoaderIsGone DEF OpenInv
<1> QED
    BY <1>3, <1>4, <1>5, <1>6, <1>7, <1>8, TreeSteps

\* /tcp stays as long as tcp_dir is registered.
LEMMA TcpDirStep ==
    ASSUME BaseInv, Request
    PROVE  TcpDirInv'
<1> USE DEF BaseInv
<1> SUFFICES ASSUME IsRegistered(db', "tcp_dir")
             PROVE  <<"tcp">> \in DOMAIN tree' /\ tree'[<<"tcp">>] = "tcp_dir"
    BY DEF TcpDirInv
<1>1. IsRegistered(db, "tcp_dir")
    BY DbStep, NotAModule DEF OpenInv
<1>2. <<"tcp">> \in DOMAIN tree /\ tree[<<"tcp">>] = "tcp_dir"
    BY <1>1 DEF TcpDirInv
<1>3. Refuses(<<"tcp">>)
    BY <1>1, <1>2 DEF Refuses, Refusing
<1>4. CASE KeepsTree
    BY <1>2, <1>4 DEF KeepsTree
<1>5. ASSUME NEW p \in Paths, Mknod(p)
      PROVE  <<"tcp">> \in DOMAIN tree' /\ tree'[<<"tcp">>] = "tcp_dir"
    BY <1>2, <1>5, MknodFacts
<1>6. ASSUME NEW p \in Paths, AddsDir(p)
      PROVE  <<"tcp">> \in DOMAIN tree' /\ tree'[<<"tcp">>] = "tcp_dir"
    BY <1>2, <1>6, AddsDirFacts
<1>7. ASSUME NEW p, RemovesFile(p)
      PROVE  <<"tcp">> \in DOMAIN tree' /\ tree'[<<"tcp">>] = "tcp_dir"
    <2>1. tree' = Without(tree, {p}) /\ p # <<"tcp">>
        BY <1>3, <1>7 DEF RemovesFile, Unlink
    <2> QED
        BY <1>2, <2>1, WithoutFacts
<1>8. ASSUME NEW p, RemovesDir(p)
      PROVE  <<"tcp">> \in DOMAIN tree' /\ tree'[<<"tcp">>] = "tcp_dir"
    <2>1. p \in DOMAIN tree /\ tree' = Without(tree, Below(p)) /\ p # <<"tcp">>
        BY <1>3, <1>8 DEF RemovesDir, Rmdir, RemoveEntry, Below
    <2>2. <<"tcp">> \notin Below(p)
        <3>1. <<>> \notin DOMAIN tree
            BY DEF TreeInv, Paths
        <3>2. Front(<<"tcp">>) = <<>>
            BY FixedPaths
        <3>3. Front(<<"tcp">>) \notin Below(p)
            BY <3>1, <3>2 DEF Below, Under
        <3> QED
            BY <1>2, <2>1, <3>3, BelowFacts
    <2> QED
        BY <1>2, <2>1, <2>2, WithoutFacts
<1>9. CASE RemovesLoader
    <2>1. tree' = Without(tree, {modules}) /\ modules # <<"tcp">>
        BY <1>9 DEF RemovesLoader, Unload, modules
    <2> QED
        BY <1>2, <2>1, WithoutFacts
<1> QED
    BY <1>4, <1>5, <1>6, <1>7, <1>8, <1>9, TreeSteps

\* The first entries.
LEMMA InitFacts ==
    ASSUME Init
    PROVE  /\ DbInv(db) /\ IsRegistered(db, "file") /\ IsRegistered(db, "dir")
           /\ \A i \in DOMAIN TcpTypes : IsRegistered(db, TcpTypes[i])
           /\ DOMAIN tree = InitDirs \union InitFiles
           /\ tree = [p \in DOMAIN tree |-> tree[p]]
           /\ InitDirs \subseteq Paths /\ InitFiles \subseteq Paths
           /\ \A p \in InitDirs : /\ Front(p) = <<>>
                                  /\ tree[p] = DirType(p) /\ DirType(p) \in DirTypes
           /\ \A p \in InitFiles : /\ p \notin InitDirs
                                   /\ Front(p) = <<>> \/ Front(p) \in InitDirs
                                   /\ tree[p] = FileType(p)
                                   /\ FileType(p) \in Types \ DirTypes
<1>1. /\ DbInv(db) /\ IsRegistered(db, "file") /\ IsRegistered(db, "dir")
      /\ \A i \in DOMAIN TcpTypes : IsRegistered(db, TcpTypes[i])
    BY StartupKeeps DEF Init
<1>2. /\ DOMAIN tree = InitDirs \union InitFiles
      /\ tree = [p \in DOMAIN tree |-> tree[p]]
      /\ \A p \in InitDirs : tree[p] = DirType(p)
      /\ \A p \in InitFiles : p \notin InitDirs => tree[p] = FileType(p)
    BY DEF Init
<1>3. /\ \A p : DirType(p) \in DirTypes
      /\ \A p : FileType(p) \in Types \ DirTypes
    BY <1>1, LookupTypes DEF DirType, FileType
<1>4. \A p \in InitDirs : p \in Paths /\ Front(p) = <<>>
    BY FixedPaths DEF InitDirs
<1>5. ASSUME NEW p \in InitFiles
      PROVE  p \in Paths /\ p \notin InitDirs /\ (Front(p) = <<>> \/ Front(p) \in InitDirs)
    <2>1. CASE p \in {modules, <<"dns">>}
        BY <2>1, FixedPaths DEF modules, InitDirs
    <2>2. CASE p \notin {modules, <<"dns">>}
        <3>1. PICK q \in InitDirs : p \in Children(q)
            BY <2>2 DEF InitFiles
        <3>2. p \in Paths /\ Front(p) = q /\ q # <<>>
            BY <1>4, <3>1, ChildFacts DEF Paths
        <3> QED
            BY <1>4, <3>1, <3>2
    <2> QED
        BY <2>1, <2>2
<1> QED
    BY <1>1, <1>2, <1>3, <1>4, <1>5

\* The invariant holds at the start.
LEMMA BaseInit == Init => BaseInv
<1> SUFFICES ASSUME Init PROVE BaseInv
    OBVIOUS
<1>1. DbInv(db)
    BY InitFacts
<1>2. TreeInv
    <2>1. \A p \in DOMAIN tree : tree[p] \in {"client", "server"} => InDir(p, "tcp")
        BY <1>1, InitFacts, GivenTypes DEF DirTypes
    <2>2. \A p \in DOMAIN tree : tree[p] \in Types /\ IsDir(Front(p))
        BY <1>1, InitFacts, GivenTypes DEF IsDir
    <2> QED
        BY <2>1, <2>2, InitFacts DEF TreeInv, Parent
<1>3. OpenInv
    <2>1. 1 \in DOMAIN SessionNames
        BY NamesAssumption
    <2> QED
        BY <2>1 DEF Init, OpenInv
<1>4. TcpDirInv
    BY <1>1, InitFacts, TcpLookups DEF TcpDirInv, InitDirs, DirType
<1> QED
    BY <1>1, <1>2, <1>3, <1>4 DEF BaseInv

\* The invariant is kept by every step.
LEMMA BaseStep == BaseInv /\ [Next]_vars => BaseInv'
<1> SUFFICES ASSUME BaseInv, [Next]_vars PROVE BaseInv'
    OBVIOUS
<1>1. CASE Request /\ UNCHANGED work
    <2>1. DbInv(db')
        BY <1>1, DbStep DEF BaseInv, OpenInv
    <2>2. TreeInv' /\ OpenInv' /\ TcpDirInv'
        BY <1>1, TreeStep, OpenStep, TcpDirStep
    <2> QED
        BY <2>1, <2>2 DEF BaseInv
<1>2. CASE UNCHANGED vars
    BY <1>2 DEF vars, BaseInv, TreeInv, OpenInv, TcpDirInv, IsDir, IsFile
<1> QED
    BY <1>1, <1>2 DEF Next

\* The invariant implies the type invariant.
LEMMA BaseTypes == BaseInv => TypeOK
<1> SUFFICES ASSUME BaseInv PROVE TypeOK
    OBVIOUS
<1>1. \A i \in DOMAIN db : db[i].type \in Types /\ db[i].prio \in Priorities
    BY RegistrationFacts DEF BaseInv, DbInv, Prio, Priorities
<1>2. \A p \in Paths : Len(p) > 0
    BY DEF Paths
<1> QED
    BY <1>1, <1>2 DEF BaseInv, TreeInv, OpenInv, TypeOK

\* The registry holds registrations, every entry has a type and is in a directory:
\* no request leaves an entry behind when it removes the directory it is in.
THEOREM CoreTypes == Spec => []TypeOK
<1>1. Spec => []BaseInv
    BY BaseInit, BaseStep, PTL DEF Spec
<1> QED
    BY <1>1, BaseTypes, PTL

-----------------------------------------------------------------------------
(* what failing calls leave, and what the defaults are used for *)

\* A directory that is added comes with all that belongs in it.
LEMMA WholeStep ==
    ASSUME BaseInv, Request, NEW d \in DOMAIN tree' \ DOMAIN tree, tree'[d] \in DirTypes
    PROVE  Children(d) \subseteq DOMAIN tree'
<1>1. \A S : d \notin DOMAIN Without(tree, S)
    BY WithoutFacts
<1>2. CASE KeepsTree
    BY <1>2 DEF KeepsTree
<1>3. ASSUME NEW q \in Paths, Mknod(q) PROVE FALSE
    BY <1>3, MknodFacts
<1>4. ASSUME NEW q \in Paths, AddsDir(q) PROVE Children(d) \subseteq DOMAIN tree'
    <2>0. /\ DOMAIN tree' = DOMAIN tree \union Children(q) \union {q}
          /\ \A c \in Children(q) : /\ tree'[c] = FileType(c)
                                    /\ FileType(c) \in Types \ DirTypes
        BY <1>4, AddsDirFacts
    <2>1. /\ DOMAIN tree' = DOMAIN tree \union Children(q) \union {q}
          /\ \A c \in Children(q) : tree'[c] \notin DirTypes
        BY <2>0
    <2>2. d = q
        BY <2>1
    <2> QED
        BY <2>1, <2>2
<1>5. ASSUME NEW q, RemovesFile(q) \/ RemovesDir(q) \/ RemovesLoader PROVE FALSE
    BY <1>1, <1>5 DEF RemovesFile, Unlink, RemovesDir, Rmdir, RemoveEntry, Below,
       RemovesLoader, Unload
<1> QED
    BY <1>2, <1>3, <1>4, <1>5, TreeSteps

\* What turning to a session leaves when the open fails: the tree as it was, or
\* the directory of that session and what is in it besides.
LEMMA CloneLeaves ==
    ASSUME BaseInv, NEW n \in DOMAIN SessionNames, CloneTurnsTo(n)
    PROVE  \/ UNCHANGED tree
           \/ /\ \A p \in DOMAIN tree : p \in DOMAIN tree' /\ tree'[p] = tree[p]
              /\ DOMAIN tree' \ DOMAIN tree = Under(tree', SessionDir(n))
<1> DEFINE p == SessionDir(n)
<1>1. tree' = Confirmed(n) /\ clone \in DOMAIN tree
    BY DEF CloneTurnsTo
<1>2. CASE p \in DOMAIN tree \/ MkdirFails(p)
    <2>1. p \notin DOMAIN tree => Made(p) = tree
        BY <1>2, SessionFacts, FailedDirectory DEF BaseInv
    <2> QED
        BY <1>1, <2>1 DEF Confirmed
<1>3. CASE p \notin DOMAIN tree /\ ~MkdirFails(p)
    <2>1. p \in Paths /\ tree' = WithDir(p)
        BY <1>1, <1>3, SessionFacts, AllChildrenMade DEF Confirmed, BaseInv
    <2>2. /\ DOMAIN tree' = DOMAIN tree \union Children(p) \union {p}
          /\ \A q \in DOMAIN tree : tree'[q] = tree[q]
        BY <1>3, <2>1, WithDirFacts DEF BaseInv
    <2>3. \A c \in Children(p) : c \in Paths /\ Front(c) = p /\ c \notin DOMAIN tree
        BY <1>3, <2>1, ChildFacts DEF BaseInv
    <2>4. \A q \in Paths : q \in Seq(Names) /\ q # <<>>
        BY DEF Paths
    <2>5. IsPrefix(p, p)
        BY <2>1, <2>4, PrefixFacts
    <2>6. \A c \in Children(p) : IsPrefix(p, c)
        BY <2>1, <2>3, <2>4, <2>5, PrefixFacts
    <2>7. \A q \in DOMAIN tree : ~IsPrefix(p, q)
        BY <1>3, <2>1, NothingBelow DEF BaseInv, Under
    <2> QED
        BY <1>3, <2>2, <2>3, <2>5, <2>6, <2>7 DEF Under
<1> QED
    BY <1>2, <1>3

\* A request that fails leaves the entries and their sockets, but for the
\* directory that clone has made.
LEMMA FailureStep ==
    ASSUME BaseInv, Request, ret' = "error"
    PROVE  /\ \A p \in DOMAIN tree : p \in DOMAIN tree' /\ tree'[p] = tree[p]
           /\ UNCHANGED socks
           /\ \/ DOMAIN tree' = DOMAIN tree
              \/ \E n \in DOMAIN SessionNames :
                     DOMAIN tree' \ DOMAIN tree = Under(tree', SessionDir(n))
<1>1. ASSUME NEW n \in DOMAIN SessionNames, CloneTurnsTo(n)
      PROVE  /\ \A p \in DOMAIN tree : p \in DOMAIN tree' /\ tree'[p] = tree[p]
             /\ UNCHANGED socks
             /\ \/ DOMAIN tree' = DOMAIN tree
                \/ DOMAIN tree' \ DOMAIN tree = Under(tree', SessionDir(n))
    <2>1. UNCHANGED socks
        BY <1>1 DEF CloneTurnsTo
    <2> QED
        BY <1>1, <2>1, CloneLeaves
<1>2. ASSUME NEW n, Unload(n) PROVE UNCHANGED <<tree, socks>>
    <2>1. CASE n = "module_loader" /\ IsRegistered(db, n)
        <3>1. modules \in DOMAIN tree
            BY <1>2, <2>1 DEF Unload, BaseInv, OpenInv, IsFile
        <3>2. ~UninstallThrows(db, n)
            BY <2>1 DEF UninstallThrows
        <3> QED
            BY <1>2, <2>1, <3>1, <3>2 DEF Unload
    <2>2. CASE ~(n = "module_loader" /\ IsRegistered(db, n))
        BY <1>2, <2>2 DEF Unload
    <2> QED
        BY <2>1, <2>2
<1>3. ASSUME NEW p \in work.files, MknodFails(p) PROVE UNCHANGED <<tree, socks>>
    BY <1>3, WorkPaths, FailedFile DEF MknodFails, Missing, BaseInv, OpenInv
<1>4. ASSUME NEW p \in work.dirs, Mkdir(p) PROVE UNCHANGED <<tree, socks>>
    <2>1. MkdirFails(p) /\ UNCHANGED socks /\ Missing(p) /\ tree' = Made(p)
        BY <1>4 DEF Mkdir
    <2> QED
        BY <2>1, WorkPaths, FailedDirectory DEF Missing, BaseInv, OpenInv
<1>5. ASSUME NEW p, Mknod(p) PROVE FALSE
    BY <1>5 DEF Mknod
<1>6. CASE UNCHANGED <<tree, socks>>
    BY <1>6
<1> QED
    BY <1>1, <1>2, <1>3, <1>4, <1>5, <1>6
       DEF Request, Unlink, Rmdir, Open, OpenFails,
       CloneStuck, OpenClone, Accept, Close, Load, LoadFails

\* What makes or removes entries does all of it or nothing: add_entry, the hooks
\* and the remove_entry of the catch blocks leave no directory half made, and the
\* tree as it was when they fail.
THEOREM MadeWholeOrNotAtAll == Spec => AllOrNothing
<1>1. Spec => []BaseInv
    BY BaseInit, BaseStep, PTL DEF Spec
<1>2. BaseInv /\ [Next]_vars =>
          [/\ \A d \in DOMAIN tree' \ DOMAIN tree :
                 tree'[d] \in DirTypes => Children(d) \subseteq DOMAIN tree'
           /\ ret' = "error" =>
                 /\ \A p \in DOMAIN tree :
                        p \in DOMAIN tree' /\ tree'[p] = tree[p]
                 /\ UNCHANGED socks
                 /\ \/ DOMAIN tree' = DOMAIN tree
                    \/ \E n \in DOMAIN SessionNames :
                           DOMAIN tree' \ DOMAIN tree = Under(tree', SessionDir(n))]_vars
    BY WholeStep, FailureStep DEF Next
<1> QED
    BY <1>1, <1>2, PTL DEF Spec, AllOrNothing

\* An entry that is added has the most specific of the types registered.
LEMMA DefaultStep ==
    ASSUME BaseInv, Request, NEW p \in DOMAIN tree' \ DOMAIN tree
    PROVE  /\ tree'[p] = "file" => OnlyDefaultMatches(p, "file", "regular_file")
           /\ tree'[p] = "dir" => OnlyDefaultMatches(p, "dir", "directory")
<1>1. /\ FileType(p) = "file" => OnlyDefaultMatches(p, "file", "regular_file")
      /\ DirType(p) = "dir" => OnlyDefaultMatches(p, "dir", "directory")
    BY DefaultsAreLast DEF BaseInv, FileType, DirType, OnlyDefaultMatches
<1>2. FileType(p) # "dir" /\ DirType(p) # "file"
    BY GivenTypes DEF BaseInv, DirTypes, NoType
<1>3. \A S : p \notin DOMAIN Without(tree, S)
    BY WithoutFacts
<1>4. CASE KeepsTree
    BY <1>4 DEF KeepsTree
<1>5. ASSUME NEW q \in Paths, Mknod(q)
      PROVE  /\ tree'[p] = "file" => OnlyDefaultMatches(p, "file", "regular_file")
             /\ tree'[p] = "dir" => OnlyDefaultMatches(p, "dir", "directory")
    BY <1>1, <1>2, <1>5, MknodFacts
<1>6. ASSUME NEW q \in Paths, AddsDir(q)
      PROVE  /\ tree'[p] = "file" => OnlyDefaultMatches(p, "file", "regular_file")
             /\ tree'[p] = "dir" => OnlyDefaultMatches(p, "dir", "directory")
    BY <1>1, <1>2, <1>6, AddsDirFacts
<1>7. ASSUME NEW q, RemovesFile(q) \/ RemovesDir(q) \/ RemovesLoader
      PROVE  FALSE
    BY <1>3, <1>7 DEF RemovesFile, Unlink, RemovesDir, Rmdir, RemoveEntry,
           RemovesLoader, Unload
<1> QED
    BY <1>4, <1>5, <1>6, <1>7, TreeSteps

\* No entry is made a plain file or directory while another registered type
\* matches its path, in whatever order types come and go.
THEOREM DefaultsAreUsedLast == Spec => DefaultsComeLast
<1>1. Spec => []BaseInv
    BY BaseInit, BaseStep, PTL DEF Spec
<1>2. BaseInv /\ [Next]_vars =>
          [\A p \in DOMAIN tree' \ DOMAIN tree :
              /\ tree'[p] = "file" => OnlyDefaultMatches(p, "file", "regular_file")
              /\ tree'[p] = "dir" => OnlyDefaultMatches(p, "dir", "directory")]_vars
    BY DefaultStep DEF Next
<1> QED
    BY <1>1, <1>2, PTL DEF Spec, DefaultsComeLast

-----------------------------------------------------------------------------
(* the sockets of client and server files *)

\* What is directly below /tcp has /tcp for its directory.
LEMMA InTcpFacts ==
    ASSUME NEW q \in Paths, InDir(q, "tcp")
    PROVE  Front(q) = <<"tcp">> /\ q = <<"tcp", q[2]>> /\ Len(q) = 2
<1>1. q \in Seq(Names) /\ q # <<>> /\ Len(q) = 2 /\ q[1] = "tcp" /\ "tcp" \in Names
    BY DEF Paths, InDir, Names
<1>2. /\ Front(q) \in Seq(Names) /\ Len(Front(q)) = Len(q) - 1
      /\ \A i \in 1 .. Len(q) - 1 : Front(q)[i] = q[i]
    BY <1>1, FrontFacts
<1> DEFINE d == Front(q)
<1> HIDE DEF d
<1>3. d \in Seq(Names) /\ Len(d) = 1 /\ d[1] = "tcp"
    BY <1>1, <1>2 DEF d
<1>4. d = <<"tcp">>
    BY <1>1, <1>3
<1>5. q = <<"tcp", q[2]>>
    BY <1>1
<1> QED
    BY <1>1, <1>4, <1>5 DEF d

\* /tcp is not below any other directory.
LEMMA BelowTcp ==
    ASSUME TreeInv, NEW p \in DOMAIN tree, IsDir(p), p # <<"tcp">>,
           NEW q \in DOMAIN tree, IsFile(q), Front(q) = <<"tcp">>
    PROVE  q \notin Below(p)
<1>1. <<>> \notin DOMAIN tree /\ Front(<<"tcp">>) = <<>>
    BY FixedPaths DEF TreeInv, Paths
<1>2. p # q
    BY DEF IsDir, IsFile, TreeInv, Paths
<1>3. <<"tcp">> \in DOMAIN tree
    BY <1>1 DEF TreeInv, IsDir, Parent
<1>4. Front(<<"tcp">>) \notin Below(p)
    BY <1>1 DEF Below, Under
<1>5. <<"tcp">> \notin Below(p)
    BY <1>3, <1>4, BelowFacts
<1> QED
    BY <1>2, <1>5, BelowFacts

SocksInv == BaseInv /\ SocketsMatchEntries

\* The steps keep the sockets those of the entries.
LEMMA SocksStep ==
    ASSUME SocksInv, Request
    PROVE  SocketsMatchEntries'
<1> USE DEF SocksInv, BaseInv
<1> DEFINE Both == {"client", "server"}
<1> SUFFICES ASSUME \A t \in {"tcp_dir", "client", "server"} : IsRegistered(db', t)
             PROVE  socks' = PathsOf(tree')
    BY DEF SocketsMatchEntries, Registered
<1>1. \A t \in {"tcp_dir", "client", "server"} : IsRegistered(db, t)
    BY DbStep, NotAModule DEF OpenInv
<1>2. socks = PathsOf(tree)
    BY <1>1 DEF SocketsMatchEntries, Registered
<1>3. <<"tcp">> \in DOMAIN tree /\ Refuses(<<"tcp">>)
    BY <1>1 DEF TcpDirInv, Refuses, Refusing
<1>4. \A q \in PathsOf(tree) : q \in Paths /\ InDir(q, "tcp") /\ IsFile(q)
    BY DEF PathsOf, TreeInv, IsFile, DirTypes
<1>5. CASE KeepsTree
    BY <1>2, <1>5 DEF KeepsTree, PathsOf
<1>6. ASSUME NEW p \in Paths, Mknod(p) PROVE socks' = PathsOf(tree')
    <2>1. /\ DOMAIN tree' = DOMAIN tree \union {p} /\ p \notin DOMAIN tree
          /\ \A q \in DOMAIN tree : tree'[q] = tree[q]
          /\ tree'[p] = FileType(p)
        BY <1>6, MknodFacts
    <2>2. socks' = IF FileType(p) \in Both THEN socks \union {p} ELSE socks
        BY <1>6 DEF Mknod
    <2> QED
        BY <1>2, <2>1, <2>2 DEF PathsOf
<1>7. ASSUME NEW p \in Paths, AddsDir(p) PROVE socks' = PathsOf(tree')
    <2>1. /\ DOMAIN tree' = DOMAIN tree \union Children(p) \union {p} /\ p \notin DOMAIN tree
          /\ \A q \in DOMAIN tree : tree'[q] = tree[q]
          /\ tree'[p] \in DirTypes
          /\ \A c \in Children(p) : /\ c \in Paths /\ Front(c) = p
                                    /\ tree'[c] = FileType(c)
        BY <1>7, AddsDirFacts
    <2>2. ASSUME NEW c \in Children(p) PROVE tree'[c] \notin Both
        <3>1. FileType(c) \in Both => InDir(c, "tcp")
            BY GivenTypes
        <3>2. ~InDir(c, "tcp")
            BY <1>3, <2>1, InTcpFacts
        <3> QED
            BY <2>1, <3>1, <3>2
    <2>3. PathsOf(tree') = PathsOf(tree)
        BY <2>1, <2>2 DEF PathsOf, DirTypes
    <2> QED
        BY <1>2, <1>7, <2>3 DEF AddsDir
<1>8. ASSUME NEW p, RemovesFile(p) PROVE socks' = PathsOf(tree')
    <2>1. p \in DOMAIN tree /\ tree' = Without(tree, {p}) /\ socks' = RmnodSocks(p)
        BY <1>8 DEF RemovesFile, Unlink, IsFile
    <2>2. PathsOf(tree') = PathsOf(tree) \ {p}
        BY <2>1, WithoutFacts DEF PathsOf
    <2>3. RmnodSocks(p) = socks \ {p}
        BY <1>1, <1>2, <2>1 DEF RmnodSocks, PathsOf
    <2> QED
        BY <1>2, <2>1, <2>2, <2>3
<1>9. ASSUME NEW p, RemovesDir(p) PROVE socks' = PathsOf(tree')
    <2>1. /\ p \in DOMAIN tree /\ IsDir(p) /\ p # <<"tcp">> /\ socks' = socks
          /\ tree' = Without(tree, Below(p))
        BY <1>3, <1>9 DEF RemovesDir, Rmdir, RemoveEntry, Below
    <2>2. ASSUME NEW q \in PathsOf(tree) PROVE q \notin Below(p)
        <3>1. q \in DOMAIN tree /\ IsFile(q) /\ Front(q) = <<"tcp">>
            BY <1>4, InTcpFacts DEF IsFile
        <3> QED
            BY <2>1, <3>1, BelowTcp
    <2>3. /\ DOMAIN tree' = DOMAIN tree \ Below(p)
          /\ \A q \in DOMAIN tree' : tree'[q] = tree[q]
        BY <2>1, WithoutFacts
    <2>4. PathsOf(tree') = PathsOf(tree)
        BY <2>2, <2>3 DEF PathsOf
    <2> QED
        BY <1>2, <2>1, <2>4
<1>10. CASE RemovesLoader
    <2>1. tree' = Without(tree, {modules}) /\ socks' = socks
        BY <1>10 DEF RemovesLoader, Unload
    <2>2. modules \notin PathsOf(tree)
        BY <1>4 DEF InDir, modules
    <2>3. /\ DOMAIN tree' = DOMAIN tree \ {modules}
          /\ \A q \in DOMAIN tree' : tree'[q] = tree[q]
        BY <2>1, WithoutFacts
    <2>4. PathsOf(tree') = PathsOf(tree)
        BY <2>2, <2>3 DEF PathsOf
    <2> QED
        BY <1>2, <2>1, <2>4
<1> QED
    BY <1>5, <1>6, <1>7, <1>8, <1>9, <1>10, TreeSteps

\* At the start clone is what is below /tcp.
LEMMA StartClone ==
    ASSUME Init
    PROVE  Children(<<"tcp">>) = {clone} /\ FileType(clone) = "clone"
<1>1. IsRegistered(db, "tcp_dir") /\ IsRegistered(db, "clone") /\ DbInv(db)
    <2>1. 1 \in DOMAIN TcpTypes /\ 2 \in DOMAIN TcpTypes
        BY DEF TcpTypes
    <2>2. TcpTypes[1] = "tcp_dir" /\ TcpTypes[2] = "clone"
        BY DEF TcpTypes
    <2>3. DbInv(db) /\ \A i \in DOMAIN TcpTypes : IsRegistered(db, TcpTypes[i])
        BY InitFacts
    <2> QED
        BY <2>1, <2>2, <2>3
<1>2. DirType(<<"tcp">>) = "tcp_dir" /\ FileType(clone) = "clone"
    BY <1>1, TcpLookups DEF DirType, FileType
<1>3. ChildNames("tcp_dir") = {"clone"}
    BY DEF ChildNames, TcpChildren
<1>4. Append(<<"tcp">>, "clone") = clone
    <2>1. "tcp" \in Names /\ "clone" \in Names
        BY DEF Names, TcpChildren
    <2> QED
        BY <2>1, ShortPaths DEF clone
<1> QED
    BY <1>2, <1>3, <1>4 DEF Children

\* The table of sockets has the path of a client or server file exactly while the
\* entry exists, as long as the types that look after them are registered.
THEOREM SocketsAreThoseOfEntries == Spec => []SocketsMatchEntries
<1>1. Init => SocksInv
    <2> SUFFICES ASSUME Init PROVE SocksInv
        OBVIOUS
    <2>1. BaseInv
        BY BaseInit
    <2>2. ASSUME NEW p \in DOMAIN tree PROVE tree[p] \notin {"client", "server"}
        <3> SUFFICES ASSUME tree[p] \in {"client", "server"} PROVE FALSE
            OBVIOUS
        <3>1. p \in InitFiles /\ tree[p] = FileType(p) /\ InDir(p, "tcp") /\ p \in Paths
            BY <2>1, InitFacts DEF BaseInv, TreeInv, DirTypes
        <3>2. Front(p) = <<"tcp">> /\ Len(p) = 2
            BY <3>1, InTcpFacts
        <3>3. PICK d \in InitDirs : p \in Children(d)
            BY <3>1, <3>2 DEF InitFiles, modules
        <3>4. d = <<"tcp">>
            BY <3>2, <3>3, InitFacts, ChildFacts
        <3>5. p = clone
            BY <3>3, <3>4, StartClone
        <3> QED
            BY <3>1, <3>5, StartClone
    <2> QED
        BY <2>1, <2>2 DEF SocksInv, SocketsMatchEntries, PathsOf, Init
<1>2. SocksInv /\ [Next]_vars => SocksInv'
    <2> SUFFICES ASSUME SocksInv, [Next]_vars PROVE SocksInv'
        OBVIOUS
    <2>1. BaseInv'
        BY BaseStep DEF SocksInv
    <2>2. CASE Next
        BY <2>1, <2>2, SocksStep DEF Next, SocksInv
    <2>3. CASE UNCHANGED vars
        BY <2>1, <2>3 DEF vars, SocksInv, SocketsMatchEntries, Registered, PathsOf
    <2> QED
        BY <2>2, <2>3
<1> QED
    BY <1>1, <1>2, PTL DEF Spec, SocksInv

-----------------------------------------------------------------------------
(* clone and the sessions *)

Serving == {"tcp_dir", "clone", "ctl", "data", "session_dir", "client", "file"}

\* A session directory has the two files a connection needs.
HasFiles(d) ==
    \A f \in {"ctl", "data"} : Append(d, f) \in DOMAIN tree /\ tree[Append(d, f)] = f

\* While the types are registered clone is there, the path of a session is that of
\* a session directory, and session directories have their files.
ServedInv ==
    Registered(Serving) =>
        /\ clone \in DOMAIN tree /\ tree[clone] = "clone"
        /\ \A n \in Numbers :
              <<"tcp", n>> \in DOMAIN tree => tree[<<"tcp", n>>] = "session_dir"
        /\ \A d \in DOMAIN tree : tree[d] = "session_dir" => HasFiles(d)

\* A new session directory, whose types are registered, has its files.
LEMMA SessionFiles ==
    ASSUME DbInv(db), \A t \in Serving : IsRegistered(db, t), NEW n \in Numbers
    PROVE  /\ DirType(<<"tcp", n>>) = "session_dir"
           /\ \A f \in {"ctl", "data"} : /\ Append(<<"tcp", n>>, f) \in Children(<<"tcp", n>>)
                                         /\ FileType(Append(<<"tcp", n>>, f)) = f
<1>1. /\ DirType(<<"tcp", n>>) = "session_dir"
      /\ \A f \in {"ctl", "data"} : FileType(<<"tcp", n, f>>) = f
    BY TcpLookups DEF Serving, DirType, FileType
<1>2. {"ctl", "data"} \subseteq ChildNames("session_dir")
    BY SessionFiveFiles DEF ChildNames
<1>3. ASSUME NEW f \in {"ctl", "data"} PROVE Append(<<"tcp", n>>, f) = <<"tcp", n, f>>
    <2>1. "tcp" \in Names /\ n \in Names /\ f \in Names
        BY SessionFiveFiles DEF Names
    <2>2. \A c \in Names : Append(<<"tcp", n>>, c) = <<"tcp", n, c>>
        BY <2>1, ShortPaths
    <2> QED
        BY <2>1, <2>2
<1> QED
    BY <1>1, <1>2, <1>3 DEF Children

\* While the types are registered ctl of a session opens: its directory is there
\* with it, or can be made.
LEMMA SessionOpens ==
    ASSUME BaseInv, ServedInv, Registered(Serving), NEW k \in DOMAIN SessionNames
    PROVE  CtlOpens(k)
<1> DEFINE n == SessionNames[k]  p == SessionDir(k)
<1>1. n \in Numbers /\ p = <<"tcp", n>> /\ p \in Paths
    BY FixedPaths, SessionFacts DEF SessionDir, BaseInv
<1>2. \A t \in Serving : IsRegistered(db, t)
    BY DEF Registered
<1>3. IsRegistered(db, "ctl") /\ IsRegistered(db, "file")
    BY <1>2 DEF Serving
<1>4. CASE p \in DOMAIN tree
    <2>1. Ctl(k) \in DOMAIN tree /\ tree[Ctl(k)] = "ctl"
        BY <1>1, <1>4 DEF ServedInv, HasFiles, Ctl
    <2> QED
        BY <1>3, <1>4, <2>1 DEF CtlOpens, Confirmed
<1>5. CASE p \notin DOMAIN tree
    <2>1. DirType(p) = "session_dir" /\ Ctl(k) \in Children(p) /\ FileType(Ctl(k)) = "ctl"
        BY <1>1, <1>2, SessionFiles DEF Ctl, BaseInv
    <2>2. ASSUME NEW c \in Children(p) PROVE ~MknodMustFail(c)
        <3>1. Len(c) = 3
            <4>1. Len(c) = Len(p) + 1
                BY <1>1, ChildFacts
            <4>2. Len(p) = 2
                BY <1>1
            <4> QED
                BY <4>1, <4>2
        <3>2. FileType(c) \notin {"client", "server"}
            BY <3>1, GivenTypes DEF InDir, BaseInv
        <3>3. FileType(c) # NoType
            BY <1>3, LookupTypes DEF FileType, BaseInv
        <3> QED
            BY <3>2, <3>3 DEF MknodMustFail
    <2>3. ~MkdirFails(p)
        BY <2>1, <2>2 DEF MkdirFails, NoType
    <2>4. Confirmed(k) = WithDir(p)
        BY <1>5, <2>3, AllChildrenMade DEF Confirmed
    <2>5. Ctl(k) \in DOMAIN WithDir(p) /\ WithDir(p)[Ctl(k)] = "ctl"
        BY <1>1, <1>5, <2>1, <2>3, WithDirFacts DEF BaseInv
    <2> QED
        BY <1>3, <2>4, <2>5 DEF CtlOpens
<1> QED
    BY <1>4, <1>5

\* The invariant implies that connections can be had.
LEMMA ServedImplies == BaseInv /\ ServedInv => TcpServed
    BY SessionOpens DEF TcpServed, ServedInv, HasFiles, BaseInv, OpenInv, Serving

\* The files of a session are not below another directory than its own.
LEMMA BelowSession ==
    ASSUME TreeInv, NEW p \in DOMAIN tree, IsDir(p), NEW d \in DOMAIN tree, d \notin Below(p),
           NEW f \in {"ctl", "data"}, Append(d, f) \in DOMAIN tree, tree[Append(d, f)] = f
    PROVE  Append(d, f) \notin Below(p)
<1>1. Front(Append(d, f)) = d
    <2>1. d \in Seq(Names) /\ f \in Names
        BY SessionFiveFiles DEF TreeInv, Paths, Names
    <2> QED
        BY <2>1, AppendFacts
<1>2. p # Append(d, f)
    <2>1. p # <<>>
        BY DEF TreeInv, Paths
    <2> QED
        BY <2>1 DEF IsDir, DirTypes
<1> QED
    BY <1>1, <1>2, BelowFacts

\* The steps keep clone and the sessions.
LEMMA ServedStep ==
    ASSUME BaseInv, ServedInv, Request
    PROVE  ServedInv'
<1> USE DEF BaseInv
<1> DEFINE Clone == clone \in DOMAIN tree' /\ tree'[clone] = "clone"
           Dirs == \A n \in Numbers :
                      <<"tcp", n>> \in DOMAIN tree' => tree'[<<"tcp", n>>] = "session_dir"
           Files == \A d \in DOMAIN tree' : tree'[d] = "session_dir" =>
                       \A f \in {"ctl", "data"} :
                           Append(d, f) \in DOMAIN tree' /\ tree'[Append(d, f)] = f
<1> SUFFICES ASSUME \A t \in Serving : IsRegistered(db', t)
             PROVE  Clone /\ Dirs /\ Files
    BY DEF ServedInv, Registered, HasFiles
<1>1. \A t \in Serving : IsRegistered(db, t)
    BY DbStep, NotAModule DEF OpenInv, Serving
<1>2. /\ clone \in DOMAIN tree /\ tree[clone] = "clone"
      /\ \A n \in Numbers :
            <<"tcp", n>> \in DOMAIN tree => tree[<<"tcp", n>>] = "session_dir"
      /\ \A d \in DOMAIN tree : tree[d] = "session_dir" =>
            \A f \in {"ctl", "data"} : Append(d, f) \in DOMAIN tree /\ tree[Append(d, f)] = f
    BY <1>1 DEF ServedInv, Registered, HasFiles
<1>3. /\ <<"tcp">> \in DOMAIN tree /\ Refuses(<<"tcp">>) /\ Refuses(clone)
      /\ \A p \in DOMAIN tree : tree[p] \in {"ctl", "data"} => Refuses(p)
    BY <1>1, <1>2 DEF TcpDirInv, Refuses, Refusing, Serving
<1>4. \A n \in Numbers : Front(<<"tcp", n>>) = <<"tcp">> /\ <<"tcp", n>> \in Paths
    BY FixedPaths
<1>5. CASE KeepsTree
    BY <1>2, <1>5 DEF KeepsTree
<1>6. ASSUME NEW p \in Paths, Mknod(p) PROVE Clone /\ Dirs /\ Files
    <2>1. /\ DOMAIN tree' = DOMAIN tree \union {p} /\ p \notin DOMAIN tree
          /\ \A q \in DOMAIN tree : tree'[q] = tree[q]
          /\ tree'[p] = FileType(p) /\ FileType(p) \notin DirTypes
        BY <1>6, MknodFacts
    <2>2. ASSUME NEW n \in Numbers PROVE p # <<"tcp", n>>
        <3> SUFFICES ASSUME p = <<"tcp", n>> PROVE FALSE
            OBVIOUS
        <3>1. FileType(p) = "client"
            BY <1>1, TcpLookups DEF FileType, Serving
        <3>2. p[2] \in HostPorts
            BY <1>6, <3>1 DEF Mknod, MknodMustFail
        <3>3. p[2] = n
            OBVIOUS
        <3> QED
            BY <3>2, <3>3, NamesAssumption
    <2> QED
        BY <1>2, <2>1, <2>2 DEF DirTypes
<1>7. ASSUME NEW p \in Paths, AddsDir(p) PROVE Clone /\ Dirs /\ Files
    <2>1. /\ DOMAIN tree' = DOMAIN tree \union Children(p) \union {p} /\ p \notin DOMAIN tree
          /\ \A q \in DOMAIN tree : tree'[q] = tree[q]
          /\ tree'[p] = DirType(p)
          /\ \A c \in Children(p) : /\ Front(c) = p /\ tree'[c] = FileType(c)
                                    /\ FileType(c) \notin DirTypes
        BY <1>7, AddsDirFacts
    <2>2. ASSUME NEW n \in Numbers, <<"tcp", n>> \in DOMAIN tree'
          PROVE  tree'[<<"tcp", n>>] = "session_dir"
        <3>1. <<"tcp", n>> \notin Children(p)
            BY <1>3, <1>4, <2>1
        <3>2. CASE <<"tcp", n>> = p
            BY <1>1, <2>1, <3>2, SessionFiles
        <3>3. CASE <<"tcp", n>> \in DOMAIN tree
            BY <1>2, <2>1, <3>3
        <3> QED
            BY <2>1, <2>2, <3>1, <3>2, <3>3
    <2>3. ASSUME DirType(p) = "session_dir", NEW f \in {"ctl", "data"}
          PROVE  Append(p, f) \in DOMAIN tree' /\ tree'[Append(p, f)] = f
        <3>1. MatchesDir("session_dir", p)
            BY <2>3, LookupTypes DEF DirType, NoType
        <3>2. InDir(p, "tcp") /\ p[2] \in Numbers
            BY <3>1 DEF MatchesDir, SessionDirPath
        <3>3. p = <<"tcp", p[2]>>
            BY <3>2, InTcpFacts
        <3> DEFINE n == p[2]
        <3> HIDE DEF n
        <3>4. n \in Numbers /\ p = <<"tcp", n>>
            BY <3>2, <3>3 DEF n
        <3>5. Append(p, f) \in Children(p) /\ FileType(Append(p, f)) = f
            BY <1>1, <3>4, SessionFiles
        <3> QED
            BY <2>1, <3>5
    <2>4. Files
        BY <1>2, <2>1, <2>3 DEF DirTypes
    <2> QED
        BY <1>2, <2>1, <2>2, <2>4
<1>8. ASSUME NEW p, RemovesFile(p) PROVE Clone /\ Dirs /\ Files
    <2>1. /\ p \in DOMAIN tree /\ ~Refuses(p)
          /\ tree' = Without(tree, {p})
        BY <1>8 DEF RemovesFile, Unlink, IsFile
    <2>2. /\ DOMAIN tree' = DOMAIN tree \ {p}
          /\ \A q \in DOMAIN tree' : tree'[q] = tree[q]
        BY <2>1, WithoutFacts
    <2> QED
        BY <1>2, <1>3, <2>1, <2>2
<1>9. ASSUME NEW p, RemovesDir(p) PROVE Clone /\ Dirs /\ Files
    <2>1. /\ p \in DOMAIN tree /\ IsDir(p) /\ p # <<"tcp">>
          /\ tree' = Without(tree, Below(p))
        BY <1>3, <1>9 DEF RemovesDir, Rmdir, RemoveEntry, Below
    <2>2. /\ DOMAIN tree' = DOMAIN tree \ Below(p)
          /\ \A q \in DOMAIN tree' : tree'[q] = tree[q]
        BY <2>1, WithoutFacts
    <2>3. clone \notin Below(p)
        BY <1>2, <2>1, FixedPaths, BelowTcp DEF IsFile, DirTypes
    <2>4. ASSUME NEW d \in DOMAIN tree', tree'[d] = "session_dir", NEW f \in {"ctl", "data"}
          PROVE  Append(d, f) \in DOMAIN tree' /\ tree'[Append(d, f)] = f
        <3>1. d \in DOMAIN tree /\ d \notin Below(p) /\ tree[d] = "session_dir"
            BY <2>2, <2>4
        <3>2. Append(d, f) \in DOMAIN tree /\ tree[Append(d, f)] = f
            BY <1>2, <3>1
        <3>3. Append(d, f) \notin Below(p)
            BY <2>1, <3>1, <3>2, BelowSession
        <3> QED
            BY <2>2, <3>2, <3>3
    <2> QED
        BY <1>2, <2>2, <2>3, <2>4
<1>10. CASE RemovesLoader
    <2>1. tree' = Without(tree, {modules})
        BY <1>10 DEF RemovesLoader, Unload
    <2>2. /\ DOMAIN tree' = DOMAIN tree \ {modules}
          /\ \A q \in DOMAIN tree' : tree'[q] = tree[q]
        BY <2>1, WithoutFacts
    <2>3. clone # modules
        BY DEF clone, modules
    <2>4. ASSUME NEW d \in DOMAIN tree, NEW f \in {"ctl", "data"}
          PROVE  Append(d, f) # modules
        <3>1. d \in Seq(Names) /\ f \in Names /\ d # <<>>
            BY SessionFiveFiles DEF TreeInv, Paths, Names
        <3>2. Front(Append(d, f)) = d
            BY <3>1, AppendFacts
        <3> QED
            BY <3>1, <3>2, FixedPaths
    <2> QED
        BY <1>2, <2>2, <2>3, <2>4
<1> QED
    BY <1>5, <1>6, <1>7, <1>8, <1>9, <1>10, TreeSteps

\* As long as the TCP types are registered, whatever else was made, removed, loaded
\* or unloaded, opening clone gets a ctl, and sessions have their files.
THEOREM ConnectionsCanBeHad == Spec => []TcpServed
<1>1. Init => ServedInv
    <2> SUFFICES ASSUME Init PROVE ServedInv
        OBVIOUS
    <2>1. clone \in InitFiles /\ tree[clone] = "clone" /\ clone \in DOMAIN tree
        BY InitFacts, StartClone DEF InitFiles, InitDirs
    <2>2. ASSUME NEW d \in DOMAIN tree PROVE tree[d] # "session_dir"
        <3>1. CASE d \in InitFiles
            BY <3>1, InitFacts DEF DirTypes
        <3>2. CASE d \in InitDirs
            <4>1. tree[d] = DirType(d) /\ DirType(d) # NoType /\ DbInv(db)
                BY <3>2, InitFacts DEF NoType, DirTypes
            <4>2. MatchesDir(DirType(d), d)
                BY <4>1, LookupTypes DEF DirType
            <4>3. Len(d) = 1
                BY <3>2 DEF InitDirs
            <4> QED
                BY <4>1, <4>2, <4>3 DEF MatchesDir, SessionDirPath, InDir
        <3> QED
            BY <3>1, <3>2, InitFacts
    <2>3. ASSUME NEW n \in Numbers, <<"tcp", n>> \in DOMAIN tree PROVE FALSE
        <3>1. <<"tcp", n>> \in Paths /\ Front(<<"tcp", n>>) = <<"tcp">>
            BY FixedPaths
        <3>2. <<"tcp", n>> \in InitFiles
            BY <2>3, InitFacts DEF InitDirs
        <3>3. PICK d \in InitDirs : <<"tcp", n>> \in Children(d)
            BY <3>2 DEF InitFiles, modules
        <3>4. d = <<"tcp">>
            BY <3>1, <3>3, InitFacts, ChildFacts
        <3>5. <<"tcp", n>> = clone
            BY <3>3, <3>4, StartClone
        <3> QED
            BY <3>5, NamesAssumption DEF clone
    <2> QED
        BY <2>1, <2>2, <2>3 DEF ServedInv
<1>2. BaseInv /\ ServedInv /\ [Next]_vars => ServedInv'
    <2> SUFFICES ASSUME BaseInv, ServedInv, [Next]_vars PROVE ServedInv'
        OBVIOUS
    <2>1. CASE Next
        BY <2>1, ServedStep DEF Next
    <2>2. CASE UNCHANGED vars
        BY <2>2 DEF vars, ServedInv, Registered, HasFiles
    <2> QED
        BY <2>1, <2>2
<1>3. Spec => []BaseInv
    BY BaseInit, BaseStep, PTL DEF Spec
<1> QED
    BY <1>1, <1>2, <1>3, ServedImplies, PTL DEF Spec
=============================================================================
