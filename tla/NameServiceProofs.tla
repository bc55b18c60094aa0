-------------------------- MODULE NameServiceProofs --------------------------
(* Proofs about NameService, for every number of open files, whatever programs  *)
(* write and whatever the resolver of the C library answers: what is read is    *)
(* the answer to the last request, in order.                                    *)
(* The second half is about its RequestParser, for texts of every length: they  *)
(* are parsed, and their arguments split, as they were written.                 *)
EXTENDS NameService, OrderTheorems, TLAPS

\* What was told and what is still to be told is the answer, or its beginning.
ServiceInv ==
    /\ resolved_names \in [Handles -> Seq(Addresses) \union {Closed}]
    /\ request \in [Handles -> [found : Seq(Addresses), granted : BOOLEAN]]
    /\ told \in [Handles -> Seq(Addresses)]
    /\ TypeOK
    /\ AnswerInOrder

\* A name that moves from the rest to what was told leaves the whole as it was.
LEMMA NameMoves ==
    ASSUME NEW T, NEW s \in Seq(T), NEW t \in Seq(T), t # <<>>
    PROVE  /\ Append(s, Head(t)) \in Seq(T) /\ Tail(t) \in Seq(T)
           /\ Append(s, Head(t)) \o Tail(t) = s \o t
<1>1. Len(t) # 0 /\ Head(t) \in T /\ Tail(t) \in Seq(T)
    OBVIOUS
<1>2. Append(s, Head(t)) \in Seq(T)
    BY <1>1
<1> QED
    BY <1>1, <1>2

\* The beginning of a sequence.
LEMMA Beginning ==
    ASSUME NEW T, NEW s \in Seq(T), NEW n \in 0 .. Len(s)
    PROVE  /\ SubSeq(s, 1, n) \in Seq(T)
           /\ IsPrefix(SubSeq(s, 1, n), s)
           /\ \A i \in DOMAIN SubSeq(s, 1, n) : i \in DOMAIN s /\ SubSeq(s, 1, n)[i] = s[i]
BY DEF IsPrefix

\* The answer that write keeps: addresses.
LEMMA AskedAreAddresses ==
    ASSUME NEW text, NEW answer \in Seq(Addresses)
    PROVE  Asked(text, answer) \in Seq(Addresses)
<1> DEFINE K == {i \in DOMAIN answer : answer[i].family \in families[Command(text)]}
<1>1. K \in SUBSET DOMAIN answer
    OBVIOUS
<1> HIDE DEF K
<1>2. Picked(answer, K) \in Seq(Addresses)
    BY <1>1, PickedElements
<1> QED
    BY <1>2 DEF Asked, K

\* A write that was understood: the handle has a beginning of what was found, all of it
\* if the write is granted.
LEMMA ResolveKeeps ==
    ASSUME ServiceInv, NEW h \in Handles,
           NEW found \in Seq(Addresses), NEW n \in 0 .. Len(found),
           NEW granted \in BOOLEAN,
           granted => SubSeq(found, 1, n) = found,
           Resolve(h, SubSeq(found, 1, n), found, granted)
    PROVE  ServiceInv'
<1> DEFINE names == SubSeq(found, 1, n)
           req == [found |-> found, granted |-> granted]
<1>1. /\ names \in Seq(Addresses) /\ IsPrefix(names, found)
      /\ \A i \in DOMAIN names : i \in DOMAIN found /\ names[i] = found[i]
    BY Beginning
<1>2. /\ resolved_names' = [resolved_names EXCEPT ![h] = names]
      /\ request' = [request EXCEPT ![h] = req]
      /\ told' = [told EXCEPT ![h] = <<>>]
    BY DEF Resolve
<1>3. <<>> \o names = names /\ <<>> \in Seq(Addresses)
    BY <1>1
<1>4. req \in [found : Seq(Addresses), granted : BOOLEAN]
    OBVIOUS
<1>6. req.found = found /\ req.granted = granted
    OBVIOUS
<1>7. granted => names = found
    OBVIOUS
<1> HIDE DEF names, req
<1>8. /\ resolved_names' \in [Handles -> Seq(Addresses) \union {Closed}]
      /\ request' \in [Handles -> [found : Seq(Addresses), granted : BOOLEAN]]
      /\ told' \in [Handles -> Seq(Addresses)]
    BY <1>1, <1>2, <1>3, <1>4 DEF ServiceInv
<1>9. /\ resolved_names'[h] = names /\ request'[h] = req /\ told'[h] = <<>>
      /\ names # Closed
      /\ \A k \in Handles : k # h => /\ resolved_names'[k] = resolved_names[k]
                                     /\ request'[k] = request[k] /\ told'[k] = told[k]
    BY <1>1, <1>2, LookupAssumption DEF ServiceInv
<1>10. TypeOK'
    BY <1>8, <1>9 DEF TypeOK, ServiceInv
<1>11. AnswerInOrder'
    <2>1. told'[h] \o resolved_names'[h] = names
        BY <1>3, <1>9
    <2>2. IsPrefix(names, request'[h].found) /\ request'[h].granted => names = request'[h].found
        BY <1>6, <1>7, <1>9
    <2>3. IsPrefix(names, request'[h].found)
        BY <1>1, <1>6, <1>9
    <2> QED
        BY <2>1, <2>2, <2>3, <1>9 DEF AnswerInOrder, ServiceInv, IsOpen
<1> QED
    BY <1>8, <1>10, <1>11 DEF ServiceInv

\* The invariant holds when no file is open.
LEMMA ServiceInit == Init => ServiceInv
BY LookupAssumption
   DEF Init, ServiceInv, TypeOK, AnswerInOrder, IsOpen, NoRequest

\* open starts with no names, release forgets them.
LEMMA OpenReleaseKeep ==
    ASSUME ServiceInv, NEW h \in Handles, Open(h) \/ Release(h)
    PROVE  ServiceInv'
<1>0. <<>> \in Seq(Addresses) /\ <<>> # Closed
    <2>1. <<>> \in Seq(Addresses)
        OBVIOUS
    <2>2. Closed \notin Seq(Addresses)
        BY LookupAssumption
    <2> QED
        BY <2>1, <2>2
<1>1. /\ <<>> \in Seq(Addresses) /\ <<>> # Closed
      /\ NoRequest \in [found : Seq(Addresses), granted : BOOLEAN]
      /\ NoRequest.found = <<>>
    BY <1>0 DEF NoRequest
<1>2. /\ resolved_names'[h] \in {<<>>, Closed} /\ request'[h] = NoRequest /\ told'[h] = <<>>
      /\ \A k \in Handles : k # h => /\ resolved_names'[k] = resolved_names[k]
                                     /\ request'[k] = request[k] /\ told'[k] = told[k]
    BY DEF Open, Release, ServiceInv, TypeOK, IsOpen
<1>3. /\ resolved_names' \in [Handles -> Seq(Addresses) \union {Closed}]
      /\ request' \in [Handles -> [found : Seq(Addresses), granted : BOOLEAN]]
      /\ told' \in [Handles -> Seq(Addresses)]
    <2>1. CASE Open(h)
        BY <1>1, <2>1 DEF Open, ServiceInv
    <2>2. CASE Release(h)
        BY <1>1, <2>2 DEF Release, ServiceInv
    <2> QED
        BY <2>1, <2>2
<1>4. TypeOK'
    BY <1>1, <1>2, <1>3 DEF TypeOK, ServiceInv
<1>5. AnswerInOrder'
    <2>1. <<>> \o <<>> = <<>> /\ IsPrefix(<<>>, <<>>)
        BY DEF IsPrefix
    <2> QED
        BY <1>1, <1>2, <2>1 DEF AnswerInOrder, ServiceInv, IsOpen
<1> QED
    BY <1>3, <1>4, <1>5 DEF ServiceInv

\* read takes the first name, and the whole of what was and will be told stays.
LEMMA ReadKeeps ==
    ASSUME ServiceInv, NEW h \in Handles, NEW size, Read(h, size)
    PROVE  ServiceInv'
<1> DEFINE names == resolved_names[h]
<1>1. names \in Seq(Addresses) /\ names # <<>> /\ names # Closed /\ told[h] \in Seq(Addresses)
    BY DEF Read, ServiceInv, IsOpen
<1>2. /\ resolved_names' = [resolved_names EXCEPT ![h] = Tail(names)]
      /\ told' = [told EXCEPT ![h] = Append(told[h], Head(names))]
      /\ request' = request
    BY DEF Read, ServiceInv
<1>3. /\ Append(told[h], Head(names)) \in Seq(Addresses) /\ Tail(names) \in Seq(Addresses)
      /\ Append(told[h], Head(names)) \o Tail(names) = told[h] \o names
    BY <1>1, NameMoves
<1>5. /\ resolved_names'[h] = Tail(names) /\ told'[h] = Append(told[h], Head(names))
      /\ Tail(names) # Closed
      /\ \A k \in Handles : k # h => /\ resolved_names'[k] = resolved_names[k]
                                     /\ told'[k] = told[k]
    BY <1>2, <1>3, LookupAssumption DEF ServiceInv
<1>6. /\ resolved_names' \in [Handles -> Seq(Addresses) \union {Closed}]
      /\ told' \in [Handles -> Seq(Addresses)]
    BY <1>2, <1>3 DEF ServiceInv
<1>7. TypeOK'
    BY <1>2, <1>5, <1>6 DEF TypeOK, ServiceInv
<1>8. AnswerInOrder'
    BY <1>1, <1>2, <1>3, <1>5 DEF AnswerInOrder, ServiceInv, IsOpen
<1> QED
    BY <1>2, <1>6, <1>7, <1>8 DEF ServiceInv

\* Every step keeps the invariant.
LEMMA ServiceStep == ServiceInv /\ [Next]_vars => ServiceInv'
<1> SUFFICES ASSUME ServiceInv, [Next]_vars PROVE ServiceInv'
    OBVIOUS
<1>1. CASE UNCHANGED vars
    BY <1>1 DEF vars, ServiceInv, TypeOK, AnswerInOrder, IsOpen
<1>2. ASSUME NEW h \in Handles, Open(h) \/ Release(h) PROVE ServiceInv'
    BY <1>2, OpenReleaseKeep
<1>3. ASSUME NEW h \in Handles, NEW text \in Writes, Write(h, text) PROVE ServiceInv'
    <2>1. PICK answer \in Answers(Host(text)) :
              Resolve(h, Asked(text, answer), Asked(text, answer), TRUE)
        BY <1>3 DEF Write
    <2>2. answer \in Seq(Addresses)
        BY <1>3, LookupAssumption DEF Write
    <2> DEFINE found == Asked(text, answer)
    <2>3. found \in Seq(Addresses)
        BY <2>2, AskedAreAddresses
    <2> HIDE DEF found
    <2>4. Len(found) \in 0 .. Len(found) /\ SubSeq(found, 1, Len(found)) = found
        BY <2>3
    <2>5. Resolve(h, SubSeq(found, 1, Len(found)), found, TRUE)
        BY <2>1, <2>4 DEF found
    <2> QED
        BY <2>2, <2>3, <2>4, <2>5, ResolveKeeps
<1>4. ASSUME NEW h \in Handles, NEW text \in Writes, WriteUnknown(h, text) PROVE ServiceInv'
    <2>1. <<>> \in Seq(Addresses) /\ 0 \in 0 .. Len(<<>>) /\ SubSeq(<<>>, 1, 0) = <<>>
        OBVIOUS
    <2>2. Resolve(h, SubSeq(<<>>, 1, 0), <<>>, FALSE)
        BY <1>4, <2>1 DEF WriteUnknown
    <2> QED
        BY <2>1, <2>2, ResolveKeeps
<1>5. ASSUME NEW h \in Handles, NEW text \in Writes, LookupFails(h, text) PROVE ServiceInv'
    <2>1. PICK answer \in Answers(Host(text)) :
              \E n \in {0} \union 0 .. Len(Asked(text, answer)) - 1 :
                  Resolve(h, SubSeq(Asked(text, answer), 1, n), Asked(text, answer), FALSE)
        BY <1>5 DEF LookupFails
    <2>2. answer \in Seq(Addresses)
        BY <1>5, LookupAssumption DEF LookupFails
    <2> DEFINE found == Asked(text, answer)
    <2>3. found \in Seq(Addresses)
        BY <2>2, AskedAreAddresses
    <2>4. PICK n \in {0} \union 0 .. Len(found) - 1 :
              Resolve(h, SubSeq(found, 1, n), found, FALSE)
        BY <2>1
    <2> HIDE DEF found
    <2>5. n \in 0 .. Len(found)
        BY <2>3
    <2> QED
        BY <2>2, <2>3, <2>4, <2>5, ResolveKeeps
<1>6. ASSUME NEW h \in Handles, NEW text \in Writes, WriteRefused(h, text) PROVE ServiceInv'
    BY <1>1, <1>6 DEF WriteRefused
<1>7. ASSUME NEW h \in Handles, NEW size \in Sizes, Read(h, size) \/ ReadNothing(h, size)
      PROVE  ServiceInv'
    BY <1>1, <1>7, ReadKeeps DEF ReadNothing
<1> QED
    BY <1>1, <1>2, <1>3, <1>4, <1>5, <1>6, <1>7 DEF Next

\* The invariant holds in every state of every behaviour.
LEMMA ServiceInvariant == Spec => []ServiceInv
BY ServiceInit, ServiceStep, PTL DEF Spec

\* The variables have their types; a file that is closed has no request.
THEOREM ServiceTypes == Spec => []TypeOK
<1>1. ServiceInv => TypeOK
    BY DEF ServiceInv
<1> QED
    BY ServiceInvariant, <1>1, PTL

\* What was read and what is left is the answer to the last request that was not
\* refused: nothing of an earlier one, nothing lost and nothing twice.
THEOREM AnswersAreInOrder == Spec => []AnswerInOrder
<1>1. ServiceInv => AnswerInOrder
    BY DEF ServiceInv
<1> QED
    BY ServiceInvariant, <1>1, PTL

-----------------------------------------------------------------------------
(* the request parser *)

\* What Lead finds: the beginning that is made of pieces of P, and no longer one is.
LEMMA LeadFacts ==
    ASSUME NEW T, NEW s \in Seq(T), NEW P
    PROVE  \E n \in 0 .. Len(s) :
              /\ Lead(s, P) = SubSeq(s, 1, n)
              /\ \A k \in 1 .. n : s[k] \in P
              /\ n < Len(s) => s[n + 1] \notin P
<1> DEFINE Ends(n) == Only(s, 1, n, P) /\ (n < Len(s) => s[n + 1] \notin P)
<1>1. \E n \in 0 .. Len(s) : Ends(n)
    <2> DEFINE O == {k \in 1 .. Len(s) : s[k] \notin P}
    <2>1. CASE O = {}
        <3>1. Ends(Len(s))
            BY <2>1 DEF Only
        <3> QED
            BY <3>1
    <2>2. CASE O # {}
        <3>1. PICK m \in O : \A k \in O : m <= k
            <4>1. O \in SUBSET Nat
                OBVIOUS
            <4> HIDE DEF O
            <4> QED
                BY <2>2, <4>1, MinIsMember
        <3>2. m - 1 \in 0 .. Len(s) /\ Ends(m - 1)
            BY <3>1 DEF Only
        <3> QED
            BY <3>2
    <2> QED
        BY <2>1, <2>2
<1> DEFINE n == CHOOSE n \in 0 .. Len(s) : Ends(n)
<1>2. n \in 0 .. Len(s) /\ Ends(n)
    BY <1>1
<1>3. Lead(s, P) = SubSeq(s, 1, n)
    BY DEF Lead
<1> HIDE DEF n
<1> QED
    BY <1>2, <1>3 DEF Only

\* What comes after a beginning.
LEMMA AfterFacts ==
    ASSUME NEW T, NEW s \in Seq(T), NEW n \in 0 .. Len(s)
    PROVE  /\ After(s, SubSeq(s, 1, n)) \in Seq(T)
           /\ Len(After(s, SubSeq(s, 1, n))) = Len(s) - n
           /\ \A i \in 1 .. Len(s) - n : After(s, SubSeq(s, 1, n))[i] = s[n + i]
BY DEF After

\* A reversed sequence.
LEMMA ReverseFacts ==
    ASSUME NEW T, NEW s \in Seq(T)
    PROVE  /\ Reverse(s) \in Seq(T) /\ Len(Reverse(s)) = Len(s)
           /\ \A i \in 1 .. Len(s) : Reverse(s)[i] = s[Len(s) - i + 1]
BY DEF Reverse

\* The text without the newlines at its end.
Line(s) == Reverse(After(Reverse(s), Lead(Reverse(s), {"\n"})))

\* The line is a beginning, and newlines are all that follows it.
LEMMA LineFacts ==
    ASSUME NEW T, NEW s \in Seq(T)
    PROVE  \E e \in 0 .. Len(s) :
              /\ Line(s) \in Seq(T) /\ Len(Line(s)) = e
              /\ \A k \in 1 .. e : Line(s)[k] = s[k]
              /\ \A k \in e + 1 .. Len(s) : s[k] = "\n"
              /\ e > 0 => s[e] # "\n"
<1> DEFINE r == Reverse(s)
<1>1. /\ r \in Seq(T) /\ Len(r) = Len(s)
      /\ \A i \in 1 .. Len(s) : r[i] = s[Len(s) - i + 1]
    BY ReverseFacts
<1> HIDE DEF r
<1>2. PICK n \in 0 .. Len(r) :
              /\ Lead(r, {"\n"}) = SubSeq(r, 1, n)
              /\ \A k \in 1 .. n : r[k] \in {"\n"}
              /\ n < Len(r) => r[n + 1] \notin {"\n"}
    BY <1>1, LeadFacts
<1> DEFINE a == After(r, SubSeq(r, 1, n))  e == Len(s) - n
<1>3. a \in Seq(T) /\ Len(a) = e /\ \A i \in 1 .. e : a[i] = r[n + i]
    <2>1. /\ a \in Seq(T) /\ Len(a) = Len(r) - n
          /\ \A i \in 1 .. Len(r) - n : a[i] = r[n + i]
        BY <1>1, AfterFacts
    <2> HIDE DEF a
    <2> QED
        BY <1>1, <2>1
<1> HIDE DEF a
<1>4. /\ Reverse(a) \in Seq(T) /\ Len(Reverse(a)) = e
      /\ \A i \in 1 .. e : Reverse(a)[i] = a[e - i + 1]
    <2>1. /\ Reverse(a) \in Seq(T) /\ Len(Reverse(a)) = Len(a)
          /\ \A i \in 1 .. Len(a) : Reverse(a)[i] = a[Len(a) - i + 1]
        BY <1>3, ReverseFacts
    <2> QED
        BY <1>3, <2>1
<1>5. Line(s) = Reverse(a)
    BY <1>2 DEF Line, r, a
<1>6. e \in 0 .. Len(s)
    BY <1>1, <1>2
<1>7. \A k \in 1 .. e : Reverse(a)[k] = s[k]
    <2> SUFFICES ASSUME NEW k \in 1 .. e PROVE Reverse(a)[k] = s[k]
        OBVIOUS
    <2>1. e - k + 1 \in 1 .. e /\ n + (e - k + 1) \in 1 .. Len(s)
        BY <1>1, <1>2
    <2>2. Len(s) - (n + (e - k + 1)) + 1 = k
        BY <1>1, <1>2
    <2>3. Reverse(a)[k] = a[e - k + 1] /\ a[e - k + 1] = r[n + (e - k + 1)]
        BY <1>3, <1>4, <2>1
    <2>4. r[n + (e - k + 1)] = s[Len(s) - (n + (e - k + 1)) + 1]
        BY <1>1, <2>1
    <2> QED
        BY <2>2, <2>3, <2>4
<1>8. \A k \in e + 1 .. Len(s) : s[k] = "\n"
    <2> SUFFICES ASSUME NEW k \in e + 1 .. Len(s) PROVE s[k] = "\n"
        OBVIOUS
    <2>1. Len(s) - k + 1 \in 1 .. n /\ Len(s) - (Len(s) - k + 1) + 1 = k
        BY <1>1, <1>2
    <2>2. r[Len(s) - k + 1] = s[k]
        <3>1. Len(s) - k + 1 \in 1 .. Len(s)
            BY <1>1, <1>2
        <3> QED
            BY <1>1, <2>1, <3>1
    <2> QED
        BY <1>2, <2>1, <2>2
<1>9. e > 0 => s[e] # "\n"
    BY <1>1, <1>2
<1> HIDE DEF e
<1> QED
    BY <1>4, <1>5, <1>6, <1>7, <1>8, <1>9
-----------------------------------------------------------------------------
\* The parts of a text s: the line ends at e, its first word at w, and the blanks after
\* that at b.
Parts(s, e, w, b) ==
    /\ e \in 0 .. Len(s) /\ w \in 0 .. e /\ b \in w .. e
    /\ \A k \in 1 .. w : s[k] \in Words
    /\ w < e => s[w + 1] \notin Words
    /\ \A k \in w + 1 .. b : s[k] \in Blanks
    /\ b < e => s[b + 1] \notin Blanks
    /\ \A k \in e + 1 .. Len(s) : s[k] = "\n"
    /\ e > 0 => s[e] # "\n"

Word(s) == Lead(Line(s), Words)
Rest(s) == After(Line(s), Word(s))
Given(s) == After(Rest(s), Lead(Rest(s), Blanks))

\* The reference finds them.
LEMMA PartsFound ==
    ASSUME NEW T, NEW s \in Seq(T)
    PROVE  \E e, w, b \in 0 .. Len(s) :
              /\ Parts(s, e, w, b)
              /\ Word(s) = SubSeq(s, 1, w)
              /\ Rest(s) \in Seq(T) /\ Len(Rest(s)) = e - w
              /\ \A i \in 1 .. e - w : Rest(s)[i] = s[w + i]
              /\ Given(s) = SubSeq(s, b + 1, e)
<1> DEFINE l == Line(s)
<1>1. PICK e \in 0 .. Len(s) :
              /\ l \in Seq(T) /\ Len(l) = e
              /\ \A k \in 1 .. e : l[k] = s[k]
              /\ \A k \in e + 1 .. Len(s) : s[k] = "\n"
              /\ e > 0 => s[e] # "\n"
    BY LineFacts
<1> HIDE DEF l
<1>2. PICK w \in 0 .. Len(l) :
              /\ Lead(l, Words) = SubSeq(l, 1, w)
              /\ \A k \in 1 .. w : l[k] \in Words
              /\ w < Len(l) => l[w + 1] \notin Words
    BY <1>1, LeadFacts
<1> DEFINE r == After(l, SubSeq(l, 1, w))
<1>3. r \in Seq(T) /\ Len(r) = e - w /\ \A i \in 1 .. e - w : r[i] = l[w + i]
    <2>1. /\ r \in Seq(T) /\ Len(r) = Len(l) - w
          /\ \A i \in 1 .. Len(l) - w : r[i] = l[w + i]
        BY <1>1, <1>2, AfterFacts
    <2> HIDE DEF r
    <2> QED
        BY <1>1, <2>1
<1> HIDE DEF r
<1>4. PICK n \in 0 .. Len(r) :
              /\ Lead(r, Blanks) = SubSeq(r, 1, n)
              /\ \A k \in 1 .. n : r[k] \in Blanks
              /\ n < Len(r) => r[n + 1] \notin Blanks
    BY <1>3, LeadFacts
<1> DEFINE a == After(r, SubSeq(r, 1, n))
<1>5. a \in Seq(T) /\ Len(a) = e - w - n /\ \A i \in 1 .. e - w - n : a[i] = r[n + i]
    <2>1. /\ a \in Seq(T) /\ Len(a) = Len(r) - n
          /\ \A i \in 1 .. Len(r) - n : a[i] = r[n + i]
        BY <1>3, <1>4, AfterFacts
    <2> HIDE DEF a
    <2> QED
        BY <1>3, <2>1
<1> HIDE DEF a
<1>6. Word(s) = SubSeq(l, 1, w) /\ Rest(s) = r /\ Given(s) = a
    BY <1>2, <1>4 DEF Word, Rest, Given, l, r, a
<1>7. SubSeq(l, 1, w) = SubSeq(s, 1, w)
    BY <1>1, <1>2
<1>8. \A i \in 1 .. e - w : r[i] = s[w + i]
    BY <1>1, <1>2, <1>3
<1> DEFINE b == w + n
<1>9. a = SubSeq(s, b + 1, e)
    <2>1. /\ SubSeq(s, b + 1, e) \in Seq(T) /\ Len(SubSeq(s, b + 1, e)) = e - w - n
          /\ \A i \in 1 .. e - w - n : SubSeq(s, b + 1, e)[i] = s[b + i]
        BY <1>1, <1>2, <1>3, <1>4
    <2>2. \A i \in 1 .. e - w - n : a[i] = s[b + i]
        <3> SUFFICES ASSUME NEW i \in 1 .. e - w - n PROVE a[i] = s[b + i]
            OBVIOUS
        <3>1. n + i \in 1 .. e - w /\ w + (n + i) = b + i
            BY <1>1, <1>2, <1>3, <1>4
        <3> QED
            BY <1>5, <1>8, <3>1
    <2>3. a = [i \in 1 .. Len(a) |-> a[i]]
        BY <1>5
    <2> DEFINE q == SubSeq(s, b + 1, e)
    <2>4. q = [i \in 1 .. Len(q) |-> q[i]]
        BY <2>1
    <2> HIDE DEF b, q
    <2>5. Len(a) = Len(q) /\ \A i \in 1 .. Len(a) : a[i] = q[i]
        BY <1>5, <2>1, <2>2 DEF q
    <2>6. a = q
        BY <2>3, <2>4, <2>5
    <2> QED
        BY <2>6 DEF q
<1>10. Parts(s, e, w, b)
    <2>1. \A k \in w + 1 .. b : s[k] \in Blanks
        <3> SUFFICES ASSUME NEW k \in w + 1 .. b PROVE s[k] \in Blanks
            OBVIOUS
        <3>1. k - w \in 1 .. n /\ k - w \in 1 .. e - w /\ w + (k - w) = k
            BY <1>1, <1>2, <1>3, <1>4
        <3> QED
            BY <1>4, <1>8, <3>1
    <2>2. b < e => s[b + 1] \notin Blanks
        <3> SUFFICES ASSUME b < e PROVE s[b + 1] \notin Blanks
            OBVIOUS
        <3>1. n + 1 \in 1 .. e - w /\ w + (n + 1) = b + 1 /\ n < e - w
            BY <1>1, <1>2, <1>3, <1>4
        <3> QED
            BY <1>3, <1>4, <1>8, <3>1
    <2>3. (\A k \in 1 .. w : s[k] \in Words) /\ (w < e => s[w + 1] \notin Words)
        BY <1>1, <1>2
    <2>4. w \in 0 .. e /\ b \in w .. e
        BY <1>1, <1>2, <1>3, <1>4
    <2> HIDE DEF b
    <2> QED
        BY <1>1, <2>1, <2>2, <2>3, <2>4 DEF Parts
<1>11. w \in 0 .. Len(s) /\ b \in 0 .. Len(s)
    BY <1>1, <1>2, <1>3, <1>4
<1> HIDE DEF b
<1> QED
    BY <1>3, <1>6, <1>7, <1>8, <1>9, <1>10, <1>11
\* Pieces of a kind are not of another.
LEMMA Kinds ==
    /\ \A p \in Words : p \notin Blanks /\ p # "\n" /\ p # ","
    /\ \A p \in Blanks : p # "\n" /\ p # ","
BY PiecesAssumption DEF Blanks

\* A match of the first alternative takes the whole first word, blanks that follow it,
\* and then pieces of the line.
LEMMA WithArgsFacts ==
    ASSUME NEW T, NEW s \in Seq(T), NEW e, NEW w, NEW b, Parts(s, e, w, b),
           NEW m \in WithArgs(s)
    PROVE  /\ m.command = w /\ w > 0
           /\ m.delim \in w + 1 .. b /\ m.args \in m.delim + 1 .. e
           /\ \A k \in m.args + 1 .. Len(s) : s[k] = "\n"
           /\ \A k \in w + 1 .. e : s[k] # "\n"
<1> DEFINE N == Len(s)
<1>1. /\ m.command \in 1 .. N /\ m.delim \in 1 .. N /\ m.args \in 1 .. N
      /\ m.command < m.delim /\ m.delim < m.args
      /\ \A k \in 1 .. m.command : s[k] \in Words
      /\ \A k \in m.command + 1 .. m.delim : s[k] \in Blanks
      /\ \A k \in m.delim + 1 .. m.args : s[k] # "\n"
      /\ \A k \in m.args + 1 .. N : s[k] = "\n"
    BY DEF WithArgs, Only, Without
<1>2. m.args <= e
    <2> SUFFICES ASSUME m.args > e PROVE FALSE
        BY <1>1 DEF Parts
    <2>1. m.args \in e + 1 .. N /\ m.args \in m.delim + 1 .. m.args
        BY <1>1 DEF Parts
    <2> QED
        BY <1>1, <2>1 DEF Parts
<1>3. m.command = w
    <2>1. CASE m.command < w
        <3>1. m.command + 1 \in 1 .. w /\ m.command + 1 \in m.command + 1 .. m.delim
            BY <1>1, <2>1 DEF Parts
        <3> QED
            BY <1>1, <3>1, Kinds DEF Parts
    <2>2. CASE m.command > w
        <3>1. w + 1 \in 1 .. m.command /\ w < e
            BY <1>1, <1>2, <2>2 DEF Parts
        <3> QED
            BY <1>1, <3>1 DEF Parts
    <2> QED
        BY <1>1, <2>1, <2>2 DEF Parts
<1>4. m.delim <= b
    <2> SUFFICES ASSUME m.delim > b PROVE FALSE
        BY <1>1 DEF Parts
    <2>1. b + 1 \in m.command + 1 .. m.delim /\ b < e
        BY <1>1, <1>2, <1>3 DEF Parts
    <2> QED
        BY <1>1, <2>1 DEF Parts
<1>5. ASSUME NEW k \in w + 1 .. e PROVE s[k] # "\n"
    <2>1. CASE k <= m.delim
        <3>1. k \in m.command + 1 .. m.delim
            BY <1>1, <1>3, <2>1 DEF Parts
        <3> QED
            BY <1>1, <3>1, Kinds
    <2>2. CASE m.delim < k /\ k <= m.args
        <3>1. k \in m.delim + 1 .. m.args
            BY <1>1, <2>2 DEF Parts
        <3> QED
            BY <1>1, <3>1
    <2>3. CASE m.args < k
        <3>1. e \in m.args + 1 .. N /\ e > 0
            BY <1>1, <2>3 DEF Parts
        <3> QED
            BY <1>1, <3>1 DEF Parts
    <2> QED
        BY <1>1, <2>1, <2>2, <2>3 DEF Parts
<1> QED
    BY <1>1, <1>2, <1>3, <1>4, <1>5 DEF Parts

\* A match of the second alternative takes the whole line, which is one word.
LEMMA WordAloneFacts ==
    ASSUME NEW T, NEW s \in Seq(T), NEW e, NEW w, NEW b, Parts(s, e, w, b)
    PROVE  WordAlone(s) = IF w > 0 /\ w = e THEN {w} ELSE {}
<1>1. ASSUME NEW n \in WordAlone(s) PROVE n = w /\ w > 0 /\ w = e
    <2>1. /\ n \in 1 .. Len(s)
          /\ \A k \in 1 .. n : s[k] \in Words
          /\ \A k \in n + 1 .. Len(s) : s[k] = "\n"
        BY DEF WordAlone, Only
    <2>2. n >= e
        <3> SUFFICES ASSUME n < e PROVE FALSE
            BY <2>1 DEF Parts
        <3>1. e \in n + 1 .. Len(s) /\ e > 0
            BY <2>1 DEF Parts
        <3> QED
            BY <2>1, <3>1 DEF Parts
    <2>3. n <= e
        <3> SUFFICES ASSUME n > e PROVE FALSE
            BY <2>1 DEF Parts
        <3>1. n \in e + 1 .. Len(s) /\ n \in 1 .. n
            BY <2>1 DEF Parts
        <3> QED
            BY <2>1, <3>1, Kinds DEF Parts
    <2>4. w >= e
        <3> SUFFICES ASSUME w < e PROVE FALSE
            BY DEF Parts
        <3>1. w + 1 \in 1 .. n
            BY <2>1, <2>2 DEF Parts
        <3> QED
            BY <2>1, <3>1 DEF Parts
    <2> QED
        BY <2>1, <2>2, <2>3, <2>4 DEF Parts
<1>2. ASSUME w > 0, w = e PROVE w \in WordAlone(s)
    BY <1>2 DEF WordAlone, Only, Parts
<1> QED
    BY <1>1, <1>2

\* The match that dominates all others is the preferred one.
LEMMA PreferredIs ==
    ASSUME NEW N \in Nat, NEW ms \in SUBSET [command : 1 .. N, delim : 1 .. N, args : 1 .. N],
           NEW m \in ms,
           \A o \in ms : o.command = m.command /\ o.delim <= m.delim /\ o.args <= m.args
    PROVE  Preferred(ms) = m
<1> DEFINE Best(q) ==
        \A o \in ms :
            \/ q.command > o.command
            \/ q.command = o.command /\ q.delim > o.delim
            \/ q.command = o.command /\ q.delim = o.delim /\ q.args >= o.args
<1>1. Best(m)
    BY SMT
<1>2. ASSUME NEW q \in ms, Best(q) PROVE q = m
    <2>1. q.command = m.command /\ q.delim = m.delim /\ q.args = m.args
        BY <1>2
    <2>2. /\ q = [command |-> q.command, delim |-> q.delim, args |-> q.args]
          /\ m = [command |-> m.command, delim |-> m.delim, args |-> m.args]
        OBVIOUS
    <2> QED
        BY <2>1, <2>2
<1>3. Preferred(ms) = CHOOSE q \in ms : Best(q)
    BY DEF Preferred
<1> QED
    BY <1>1, <1>2, <1>3

\* When ParsedAsWritten calls a text wrong.
Wrong(s) ==
    \/ Word(s) = <<>>
    \/ Rest(s) # <<>> /\ (Head(Rest(s)) \notin Blanks \/ Len(Rest(s)) = 1)
    \/ Contains(Rest(s), "\n")

\* Parse gives what was written.
LEMMA ParseFacts ==
    ASSUME NEW T, NEW s \in Seq(T)
    PROVE  Parse(s) =
              IF Wrong(s) THEN NotARequest
              ELSE [command |-> Word(s),
                    args |-> IF Rest(s) # <<>> /\ Given(s) = <<>>
                             THEN <<Last(Rest(s))>> ELSE Given(s)]
<1> DEFINE N == Len(s)  r == Rest(s)
<1>1. PICK e, w, b \in 0 .. N :
              /\ Parts(s, e, w, b)
              /\ Word(s) = SubSeq(s, 1, w)
              /\ r \in Seq(T) /\ Len(r) = e - w
              /\ \A i \in 1 .. e - w : r[i] = s[w + i]
              /\ Given(s) = SubSeq(s, b + 1, e)
    BY PartsFound
<1> HIDE DEF r
<1>2. /\ e \in 0 .. N /\ w \in 0 .. e /\ b \in w .. e /\ N \in Nat
      /\ e \in Nat /\ w \in Nat /\ b \in Nat
    BY <1>1 DEF Parts
<1> DEFINE Bad == \/ w = 0
                  \/ w < e /\ (s[w + 1] \notin Blanks \/ e - w = 1)
                  \/ \E k \in w + 1 .. e : s[k] = "\n"
<1>3. Wrong(s) <=> Bad
    <2>1. Word(s) = <<>> <=> w = 0
        <3> DEFINE q == SubSeq(s, 1, w)
        <3>1. q \in Seq(T) /\ Len(q) = w
            BY <1>2
        <3>2. Word(s) = q
            BY <1>1
        <3> HIDE DEF q
        <3>3. q = <<>> <=> Len(q) = 0
            BY <3>1
        <3> QED
            BY <3>1, <3>2, <3>3
    <2>2. r # <<>> <=> w < e
        BY <1>1, <1>2
    <2>3. w < e => Head(r) = s[w + 1]
        BY <1>1, <1>2
    <2>4. Contains(r, "\n") <=> \E k \in w + 1 .. e : s[k] = "\n"
        <3>1. ASSUME NEW i \in 1 .. e - w, r[i] = "\n" PROVE \E k \in w + 1 .. e : s[k] = "\n"
            <4>1. w + i \in w + 1 .. e
                BY <1>2
            <4> QED
                BY <1>1, <3>1, <4>1
        <3>2. ASSUME NEW k \in w + 1 .. e, s[k] = "\n" PROVE \E i \in 1 .. e - w : r[i] = "\n"
            <4>1. k - w \in 1 .. e - w /\ w + (k - w) = k
                BY <1>2
            <4> QED
                BY <1>1, <3>2, <4>1
        <3> QED
            BY <1>1, <3>1, <3>2 DEF Contains
    <2> QED
        BY <1>1, <2>1, <2>2, <2>3, <2>4 DEF Wrong, r
<1> HIDE DEF Bad
<1>4. WordAlone(s) = IF w > 0 /\ w = e THEN {w} ELSE {}
    BY <1>1, WordAloneFacts
<1>5. CASE Bad
    <2>1. WithArgs(s) = {}
        <3> SUFFICES ASSUME NEW m \in WithArgs(s) PROVE FALSE
            OBVIOUS
        <3>0. Parts(s, e, w, b)
            BY <1>1
        <3>1. /\ w > 0 /\ m.delim \in w + 1 .. b /\ m.args \in m.delim + 1 .. e
              /\ \A k \in w + 1 .. e : s[k] # "\n"
            BY <3>0, WithArgsFacts
        <3>2. w + 1 \in w + 1 .. b /\ w + 2 <= e
            BY <1>2, <3>1
        <3>3. s[w + 1] \in Blanks
            BY <1>1, <3>2 DEF Parts
        <3> QED
            BY <1>2, <1>5, <3>1, <3>2, <3>3 DEF Bad
    <2>2. WordAlone(s) = {}
        <3> SUFFICES ASSUME w > 0, w = e PROVE FALSE
            BY <1>4
        <3>1. ~\E k \in w + 1 .. e : s[k] = "\n"
            BY <1>2
        <3> QED
            BY <1>2, <1>5, <3>1 DEF Bad
    <2> QED
        BY <1>3, <1>5, <2>1, <2>2 DEF Parse
<1>6. CASE ~Bad /\ w = e
    <2>1. WithArgs(s) = {}
        <3> SUFFICES ASSUME NEW m \in WithArgs(s) PROVE FALSE
            OBVIOUS
        <3>1. m.delim \in w + 1 .. b
            BY <1>1, WithArgsFacts
        <3> QED
            BY <1>2, <1>6, <3>1
    <2>2. w > 0
        BY <1>2, <1>6 DEF Bad
    <2>3. WordAlone(s) = {w}
        BY <1>4, <1>6, <2>2
    <2>4. (CHOOSE n \in WordAlone(s) : \A o \in WordAlone(s) : n >= o) = w
        BY <1>2, <2>3
    <2>5. Parse(s) = [command |-> SubSeq(s, 1, w), args |-> <<>>]
        BY <2>1, <2>3, <2>4 DEF Parse
    <2>6. r = <<>> /\ Given(s) = <<>>
        <3>1. b = e
            BY <1>2, <1>6
        <3>2. SubSeq(s, e + 1, e) = <<>>
            BY <1>2
        <3> QED
            BY <1>1, <1>2, <1>6, <3>1, <3>2
    <2> QED
        BY <1>1, <1>3, <1>6, <2>5, <2>6 DEF r
<1>7. CASE ~Bad /\ w < e
    <2>1. w > 0 /\ w + 2 <= e /\ s[w + 1] \in Blanks /\ \A k \in w + 1 .. e : s[k] # "\n"
        BY <1>2, <1>7 DEF Bad
    <2>2. b > w
        <3> SUFFICES ASSUME b = w PROVE FALSE
            BY <1>2
        <3> QED
            BY <1>1, <1>7, <2>1 DEF Parts
    <2> DEFINE d == IF b < e THEN b ELSE e - 1
               m == [command |-> w, delim |-> d, args |-> e]
    <2>3. d \in w + 1 .. e - 1 /\ d \in w + 1 .. b
        BY <1>2, <2>1, <2>2
    <2>4. m \in WithArgs(s)
        <3> HIDE DEF d
        <3>1. m \in [command : DOMAIN s, delim : DOMAIN s, args : DOMAIN s]
            BY <1>2, <2>1, <2>3
        <3>2. /\ Only(s, 1, w, Words) /\ Only(s, w + 1, d, Blanks)
              /\ Only(s, e + 1, Len(s), {"\n"})
            BY <1>1, <1>2, <2>3 DEF Only, Parts
        <3>3. Without(s, d + 1, e, {"\n"})
            BY <1>2, <2>1, <2>3 DEF Without
        <3> QED
            BY <1>2, <2>3, <3>1, <3>2, <3>3 DEF WithArgs
    <2>5. ASSUME NEW o \in WithArgs(s)
          PROVE  o.command = w /\ o.delim <= d /\ o.args <= e
        <3>1. o.command = w /\ o.delim \in w + 1 .. b /\ o.args \in o.delim + 1 .. e
            BY <1>1, WithArgsFacts
        <3> QED
            BY <1>2, <3>1
    <2>6. Preferred(WithArgs(s)) = m
        <3>1. WithArgs(s) \in SUBSET [command : 1 .. N, delim : 1 .. N, args : 1 .. N]
            BY DEF WithArgs
        <3> HIDE DEF d
        <3>2. m.command = w /\ m.delim = d /\ m.args = e
            OBVIOUS
        <3> HIDE DEF m
        <3> QED
            BY <1>2, <2>4, <2>5, <3>1, <3>2, PreferredIs
    <2>7. Parse(s) = [command |-> SubSeq(s, 1, w), args |-> SubSeq(s, d + 1, e)]
        <3> HIDE DEF d
        <3> QED
            BY <2>4, <2>6 DEF Parse
    <2>8. r # <<>>
        BY <1>1, <1>2, <1>7
    <2>9. CASE b < e
        <3>1. SubSeq(s, b + 1, e) # <<>>
            BY <1>2, <2>9
        <3> QED
            BY <1>1, <1>3, <1>7, <2>7, <2>9, <3>1 DEF r
    <2>10. CASE b = e
        <3>1. Given(s) = <<>>
            BY <1>1, <1>2, <2>10
        <3>2. Last(r) = s[e]
            <4>1. e - w \in 1 .. e - w /\ w + (e - w) = e
                BY <1>2, <2>1
            <4> QED
                BY <1>1, <4>1 DEF Last
        <3>3. SubSeq(s, e, e) = <<s[e]>>
            <4>1. /\ SubSeq(s, e, e) \in Seq(T) /\ Len(SubSeq(s, e, e)) = 1
                  /\ SubSeq(s, e, e)[1] = s[e]
                BY <1>2, <2>1
            <4> DEFINE q == SubSeq(s, e, e)
            <4> HIDE DEF q
            <4>2. q \in Seq(T) /\ Len(q) = 1 => q = <<q[1]>>
                OBVIOUS
            <4> QED
                BY <4>1, <4>2 DEF q
        <3>4. d + 1 = e
            BY <1>2, <2>10
        <3> QED
            BY <1>1, <1>3, <1>7, <2>7, <2>8, <3>1, <3>2, <3>3, <3>4 DEF r
    <2> QED
        BY <1>2, <2>9, <2>10
<1> QED
    BY <1>2, <1>5, <1>6, <1>7

\* Every text, however long, is parsed as it was written.
THEOREM RequestsAreUnderstood == Spec => []CommandsUnderstood
<1>1. ParsedAsWritten
    <2> SUFFICES ASSUME NEW s \in Texts
                 PROVE  Parse(s) =
                            IF Wrong(s) THEN NotARequest
                            ELSE [command |-> Word(s),
                                  args |-> IF Rest(s) # <<>> /\ Given(s) = <<>>
                                           THEN <<Last(Rest(s))>> ELSE Given(s)]
        BY Zenon DEF ParsedAsWritten, Wrong, Given, Rest, Word, Line
    <2> QED
        BY PiecesAssumption, ParseFacts
<1>2. CommandsUnderstood
    BY <1>1 DEF CommandsUnderstood
<1> QED
    BY <1>2, PTL
-----------------------------------------------------------------------------
\* The positions of K in their order, and what lies between two that follow each other.
LEMMA EndsFacts ==
    ASSUME NEW n \in Nat, NEW K \in SUBSET (1 .. n)
    PROVE  LET ends == Picked([i \in 1 .. n |-> i], K) IN
           /\ ends \in Seq(1 .. n)
           /\ \A k \in DOMAIN ends : ends[k] \in K
           /\ K # {} => Len(ends) > 0 /\ \A i \in K : i <= ends[Len(ends)]
           /\ \A k \in DOMAIN ends : k > 1 =>
                 ends[k - 1] < ends[k] /\ \A i \in K : ~(ends[k - 1] < i /\ i < ends[k])
           /\ \A i \in K : ends # <<>> => ends[1] <= i
<1> DEFINE s == [i \in 1 .. n |-> i]  ends == Picked(s, K)
<1>0. \A i \in K : i \in Nat
    OBVIOUS
<1>1. s \in Seq(1 .. n) /\ DOMAIN s = 1 .. n /\ \A i \in 1 .. n : s[i] = i
    OBVIOUS
<1> HIDE DEF s
<1>2. /\ ends \in Seq(1 .. n)
      /\ \A k \in DOMAIN ends : \E i \in K : Rank(K, i) = k /\ ends[k] = s[i]
      /\ \A i \in K : Rank(K, i) \in DOMAIN ends /\ ends[Rank(K, i)] = s[i]
      /\ \A i, j \in K : i < j => Rank(K, i) < Rank(K, j)
    BY <1>1, PickedElements
<1> HIDE DEF ends
<1> DEFINE L == Len(ends)
<1>3. DOMAIN ends = 1 .. L /\ L \in Nat
    BY <1>2
<1> HIDE DEF L
<1>4. ASSUME NEW k \in DOMAIN ends
      PROVE  ends[k] \in K /\ Rank(K, ends[k]) = k
    BY <1>1, <1>2
<1>5. ASSUME NEW i \in K PROVE Rank(K, i) \in 1 .. L
    BY <1>2, <1>3
<1>6. ASSUME NEW k \in DOMAIN ends, k > 1
      PROVE  ends[k - 1] < ends[k] /\ \A i \in K : ~(ends[k - 1] < i /\ i < ends[k])
    <2>1. k - 1 \in DOMAIN ends /\ k \in Nat
        BY <1>3, <1>6
    <2> DEFINE p == ends[k - 1]  q == ends[k]
    <2>2. p \in K /\ q \in K /\ Rank(K, p) = k - 1 /\ Rank(K, q) = k
        BY <1>4, <2>1
    <2> HIDE DEF p, q
    <2>3. p < q
        <3> SUFFICES ASSUME q <= p PROVE FALSE
            BY <2>2
        <3>1. CASE q = p
            BY <2>1, <2>2, <3>1
        <3>2. CASE q < p
            <4>1. Rank(K, q) < Rank(K, p)
                BY <1>2, <2>2, <3>2
            <4> QED
                BY <2>1, <2>2, <4>1
        <3> QED
            BY <2>2, <3>1, <3>2
    <2>4. ASSUME NEW i \in K, p < i, i < q PROVE FALSE
        <3>1. Rank(K, p) < Rank(K, i) /\ Rank(K, i) < Rank(K, q)
            BY <1>2, <2>2, <2>4
        <3>2. Rank(K, i) \in Nat
            BY <1>3, <1>5
        <3> QED
            BY <2>1, <2>2, <3>1, <3>2
    <2> QED
        BY <2>3, <2>4 DEF p, q
<1>7. ASSUME NEW i \in K, L > 0 PROVE ends[1] <= i /\ i <= ends[L]
    <2>1. 1 \in DOMAIN ends /\ L \in DOMAIN ends
        BY <1>3, <1>7
    <2>2. /\ ends[1] \in K /\ Rank(K, ends[1]) = 1
          /\ ends[L] \in K /\ Rank(K, ends[L]) = L
        BY <1>4, <2>1
    <2>3. ~(i < ends[1])
        <3> SUFFICES ASSUME i < ends[1] PROVE FALSE
            OBVIOUS
        <3>1. Rank(K, i) < Rank(K, ends[1])
            BY <1>2, <2>2
        <3> QED
            BY <1>5, <2>2, <3>1
    <2>4. ~(ends[L] < i)
        <3> SUFFICES ASSUME ends[L] < i PROVE FALSE
            OBVIOUS
        <3>1. Rank(K, ends[L]) < Rank(K, i)
            BY <1>2, <2>2
        <3> QED
            BY <1>3, <1>5, <2>2, <3>1
    <2>5. i \in Nat /\ ends[1] \in Nat /\ ends[L] \in Nat
        BY <1>0, <2>2
    <2> QED
        BY <2>3, <2>4, <2>5
<1>8. ASSUME K # {} PROVE L > 0
    <2>1. PICK i \in K : TRUE
        BY <1>8
    <2>2. Rank(K, i) \in 1 .. L
        BY <1>5, <2>1
    <2> QED
        BY <1>3, <2>2
<1>9. ends # <<>> => L > 0
    BY <1>2 DEF L
<1> QED
    BY <1>2, <1>4, <1>6, <1>7, <1>8, <1>9 DEF ends, s, L

\* Sequences put together one after the other, whose beginnings are known.
LEMMA Flattened ==
    ASSUME NEW T, NEW segs \in Seq(Seq(T)), NEW c \in Nat, Len(segs) = c, c # 0,
           NEW g \in [1 .. c -> Seq(T)], g[1] = segs[1],
           \A i \in 1 .. c : i # 1 => g[i] = g[i - 1] \o segs[i]
    PROVE  FlattenSeq(segs) = g[c]
<1> DEFINE F(f) == [i \in 1 .. Len(segs) |-> IF i = 1 THEN segs[i] ELSE f[i - 1] \o segs[i]]
           f == CHOOSE h : h = F(h)
<1>1. FlattenSeq(segs) = f[c]
    BY DEF FlattenSeq
<1>2. g = F(g)
    OBVIOUS
<1>3. f = F(f)
    BY <1>2
<1> DEFINE D == {i \in 1 .. c : f[i] # g[i]}
<1>4. D = {}
    <2> SUFFICES ASSUME D # {} PROVE FALSE
        OBVIOUS
    <2>1. PICK i \in D : \A j \in D : i <= j
        <3>1. D \in SUBSET Nat
            OBVIOUS
        <3> HIDE DEF D
        <3> QED
            BY <3>1, MinIsMember
    <2> HIDE DEF f
    <2>2. f[i] = IF i = 1 THEN segs[i] ELSE f[i - 1] \o segs[i]
        <3> DEFINE h == f
        <3>1. F(h)[i] = IF i = 1 THEN segs[i] ELSE h[i - 1] \o segs[i]
            BY <2>1
        <3> QED
            BY <1>3, <3>1
    <2>3. CASE i = 1
        BY <2>1, <2>2, <2>3
    <2>4. CASE i # 1
        <3>1. i - 1 \in 1 .. c /\ ~(i <= i - 1)
            <4>1. i \in 1 .. c
                BY <2>1
            <4> QED
                BY <2>4, <4>1
        <3>2. i - 1 \notin D
            BY <2>1, <3>1
        <3>3. f[i - 1] = g[i - 1]
            BY <3>1, <3>2
        <3> QED
            BY <2>1, <2>2, <2>4, <3>3
    <2> QED
        BY <2>3, <2>4
<1> HIDE DEF f
<1>5. c \in 1 .. c /\ f[c] = g[c]
    BY <1>4
<1> QED
    BY <1>1, <1>5
\* A part of a sequence.
LEMMA PartFacts ==
    ASSUME NEW T, NEW s \in Seq(T), NEW p \in 1 .. Len(s) + 1, NEW q \in 0 .. Len(s),
           p <= q + 1
    PROVE  /\ SubSeq(s, p, q) \in Seq(T) /\ Len(SubSeq(s, p, q)) = q - p + 1
           /\ \A i \in 1 .. q - p + 1 : SubSeq(s, p, q)[i] = s[p + i - 1]
<1>1. Len(s) \in Nat /\ p \in Nat /\ q \in Nat
    OBVIOUS
<1>2. SubSeq(s, p, q) \in Seq(T)
    OBVIOUS
<1>3. Len(SubSeq(s, p, q)) = q - p + 1
    OBVIOUS
<1>4. \A i \in 1 .. q - p + 1 : SubSeq(s, p, q)[i] = s[p + i - 1]
    OBVIOUS
<1> QED
    BY <1>2, <1>3, <1>4

\* Sequences with the same elements are the same.
LEMMA SameElements ==
    ASSUME NEW T, NEW s \in Seq(T), NEW t \in Seq(T), Len(s) = Len(t),
           \A i \in 1 .. Len(s) : s[i] = t[i]
    PROVE  s = t
<1>1. s = [i \in 1 .. Len(s) |-> s[i]] /\ t = [i \in 1 .. Len(t) |-> t[i]]
    OBVIOUS
<1> QED
    BY <1>1

\* A beginning continued by the part that follows it is a longer beginning.
LEMMA PartsJoin ==
    ASSUME NEW T, NEW s \in Seq(T), NEW p \in 1 .. Len(s), NEW q \in 1 .. Len(s), p <= q
    PROVE  SubSeq(s, 1, p - 1) \o SubSeq(s, p, q) = SubSeq(s, 1, q)
<1> DEFINE u == SubSeq(s, 1, p - 1)  v == SubSeq(s, p, q)  x == SubSeq(s, 1, q)
<1>0. p \in Nat /\ q \in Nat /\ 1 <= p /\ q <= Len(s) /\ Len(s) \in Nat
    OBVIOUS
<1>1. u \in Seq(T) /\ Len(u) = p - 1 /\ \A i \in 1 .. p - 1 : u[i] = s[i]
    OBVIOUS
<1>2. v \in Seq(T) /\ Len(v) = q - p + 1 /\ \A i \in 1 .. q - p + 1 : v[i] = s[p + i - 1]
    <2>1. p \in 1 .. Len(s) + 1 /\ q \in 0 .. Len(s) /\ p <= q + 1
        BY <1>0
    <2> QED
        BY <2>1, PartFacts
<1>3. x \in Seq(T) /\ Len(x) = q /\ \A i \in 1 .. q : x[i] = s[i]
    OBVIOUS
<1> HIDE DEF u, v, x
<1>4. u \o v \in Seq(T) /\ Len(u \o v) = q
    <2>0. u \in Seq(T) /\ v \in Seq(T)
        BY <1>1, <1>2
    <2>1. u \o v \in Seq(T) /\ Len(u \o v) = Len(u) + Len(v)
        BY <2>0
    <2>2. (p - 1) + (q - p + 1) = q
        BY <1>0
    <2> QED
        BY <1>1, <1>2, <2>1, <2>2
<1>5. ASSUME NEW i \in 1 .. q PROVE (u \o v)[i] = x[i]
    <2>1. CASE i <= p - 1
        <3>1. i \in 1 .. p - 1 /\ i \in 1 .. Len(u)
            BY <1>0, <1>1, <2>1
        <3>2. (u \o v)[i] = u[i]
            BY <1>1, <1>2, <3>1
        <3> QED
            BY <1>1, <1>3, <3>1, <3>2
    <2>2. CASE i > p - 1
        <3>1. i - (p - 1) \in 1 .. q - p + 1 /\ p + (i - (p - 1)) - 1 = i
            BY <1>0, <2>2
        <3>2. v[i - (p - 1)] = s[i]
            BY <1>2, <3>1
        <3>3. (u \o v)[i] = v[i - Len(u)]
            BY <1>0, <1>1, <1>2, <2>2
        <3> QED
            BY <1>1, <1>3, <3>2, <3>3
    <2>3. i <= p - 1 \/ i > p - 1
        BY <1>0
    <2> QED
        BY <2>1, <2>2, <2>3
<1> DEFINE y == u \o v
<1> HIDE DEF y
<1>6. y = x
    <2>1. y \in Seq(T) /\ Len(y) = Len(x) /\ \A i \in 1 .. Len(y) : y[i] = x[i]
        BY <1>3, <1>4, <1>5 DEF y
    <2> QED
        BY <1>3, <2>1, SameElements
<1> QED
    BY <1>6 DEF u, v, x, y

\* A part with the element before it.
LEMMA PartAfter ==
    ASSUME NEW T, NEW s \in Seq(T), NEW p \in 1 .. Len(s), NEW q \in 1 .. Len(s), p <= q
    PROVE  <<s[p]>> \o SubSeq(s, p + 1, q) = SubSeq(s, p, q)
<1> DEFINE v == SubSeq(s, p + 1, q)  x == SubSeq(s, p, q)  y == <<s[p]>> \o v
<1>0. p \in Nat /\ q \in Nat /\ 1 <= p /\ q <= Len(s) /\ Len(s) \in Nat
    OBVIOUS
<1>1. v \in Seq(T) /\ Len(v) = q - p /\ \A i \in 1 .. q - p : v[i] = s[p + i]
    <2> DEFINE r == p + 1
    <2>1. r \in 1 .. Len(s) + 1 /\ q \in 0 .. Len(s) /\ r <= q + 1
        BY <1>0
    <2> HIDE DEF r
    <2>2. /\ SubSeq(s, r, q) \in Seq(T) /\ Len(SubSeq(s, r, q)) = q - r + 1
          /\ \A i \in 1 .. q - r + 1 : SubSeq(s, r, q)[i] = s[r + i - 1]
        BY <2>1, PartFacts
    <2>3. q - r + 1 = q - p /\ \A i \in 1 .. q - p : r + i - 1 = p + i
        BY <1>0 DEF r
    <2> QED
        BY <2>2, <2>3 DEF r
<1>2. x \in Seq(T) /\ Len(x) = q - p + 1 /\ \A i \in 1 .. q - p + 1 : x[i] = s[p + i - 1]
    <2>1. p \in 1 .. Len(s) + 1 /\ q \in 0 .. Len(s) /\ p <= q + 1
        BY <1>0
    <2> QED
        BY <2>1, PartFacts
<1> HIDE DEF v, x
<1>3. s[p] \in T
    OBVIOUS
<1>4. y \in Seq(T) /\ Len(y) = q - p + 1
    <2>1. <<s[p]>> \in Seq(T) /\ Len(<<s[p]>>) = 1
        BY <1>3
    <2>2. y \in Seq(T) /\ Len(y) = 1 + Len(v)
        BY <1>1, <2>1
    <2> QED
        BY <1>0, <1>1, <2>2
<1>5. ASSUME NEW i \in 1 .. q - p + 1 PROVE y[i] = x[i]
    <2>1. CASE i = 1
        <3>1. y[1] = s[p]
            BY <1>1, <1>3
        <3>2. p + 1 - 1 = p
            BY <1>0
        <3> QED
            BY <1>2, <2>1, <3>1, <3>2
    <2>2. CASE i # 1
        <3>1. i - 1 \in 1 .. q - p /\ p + (i - 1) = p + i - 1
            BY <1>0, <2>2
        <3>2. y[i] = v[i - 1]
            BY <1>0, <1>1, <1>3, <2>2
        <3> QED
            BY <1>1, <1>2, <3>1, <3>2
    <2> QED
        BY <2>1, <2>2
<1> HIDE DEF y
<1>6. y = x
    BY <1>2, <1>4, <1>5, SameElements
<1> QED
    BY <1>6 DEF v, x, y

\* The fields and their commas make up the text, and there is no comma in a field.
LEMMA FieldsFacts ==
    ASSUME NEW T, NEW a \in Seq(T), a # <<>>
    PROVE  LET fields == GetArgs(a) IN
           /\ FlattenSeq([k \in DOMAIN fields |->
                  IF k = 1 THEN fields[k] ELSE <<",">> \o fields[k]])
              = (IF Last(a) = "," THEN Front(a) ELSE a)
           /\ \A k \in DOMAIN fields : ~Contains(fields[k], ",")
<1> DEFINE n == Len(a)  C == Commas(a)
           K == C \union (IF n \in C THEN {} ELSE {n + 1})
           E == Picked([i \in 1 .. n + 1 |-> i], K)
<1>1. n \in Nat /\ n > 0 /\ DOMAIN a = 1 .. n
    OBVIOUS
<1>2. /\ \A i \in 1 .. n : i \in C <=> a[i] = ","
      /\ \A i \in C : i \in Nat /\ 1 <= i /\ i <= n /\ a[i] = ","
    <2>1. C = {i \in 1 .. n : a[i] = ","}
        BY <1>1 DEF Commas
    <2> HIDE DEF C, n
    <2>2. \A i \in 1 .. n : i \in Nat /\ 1 <= i /\ i <= n
        BY <1>1
    <2> QED
        BY <2>1, <2>2
<1> HIDE DEF C
<1> HIDE DEF n
<1>3. K \in SUBSET (1 .. n + 1) /\ K # {}
    <2>1. \A i \in C : i \in 1 .. n + 1
        <3> SUFFICES ASSUME NEW i \in C PROVE i \in 1 .. n + 1
            OBVIOUS
        <3>1. i \in Nat /\ 1 <= i /\ i <= n
            BY <1>2
        <3> QED
            BY <1>1, <3>1
    <2>2. n + 1 \in 1 .. n + 1
        BY <1>1
    <2>3. CASE n \in C
        BY <2>1, <2>3
    <2>4. CASE n \notin C
        BY <2>1, <2>2, <2>4
    <2> QED
        BY <2>3, <2>4
<1>4. \A i \in K : i <= n => i \in C
    BY <1>1
<1> DEFINE last == IF n \in C THEN n ELSE n + 1
<1>5. last \in K /\ \A i \in K : i <= last
    <2>1. ASSUME NEW i \in C PROVE i <= n /\ i <= n + 1
        <3>1. i \in Nat /\ i <= n
            BY <1>2
        <3> QED
            BY <1>1, <3>1
    <2>2. n <= n /\ n + 1 <= n + 1
        BY <1>1
    <2>3. CASE n \in C
        BY <2>1, <2>3
    <2>4. CASE n \notin C
        BY <2>1, <2>2, <2>4
    <2> QED
        BY <2>3, <2>4
<1>6. C \subseteq K
    OBVIOUS
<1> HIDE DEF K, last
<1> DEFINE c == Len(E)
<1>7. /\ E \in Seq(1 .. n + 1)
      /\ \A k \in DOMAIN E : E[k] \in K
      /\ Len(E) > 0 /\ \A i \in K : i <= E[Len(E)]
      /\ \A k \in DOMAIN E : k > 1 =>
            E[k - 1] < E[k] /\ \A i \in K : ~(E[k - 1] < i /\ i < E[k])
      /\ \A i \in K : E # <<>> => E[1] <= i
    <2>1. n + 1 \in Nat
        BY <1>1
    <2> DEFINE m == n + 1
    <2>2. m \in Nat /\ K \in SUBSET (1 .. m)
        BY <1>3, <2>1
    <2> HIDE DEF m
    <2>3. LET ends == Picked([i \in 1 .. m |-> i], K) IN
           /\ ends \in Seq(1 .. m)
           /\ \A k \in DOMAIN ends : ends[k] \in K
           /\ K # {} => Len(ends) > 0 /\ \A i \in K : i <= ends[Len(ends)]
           /\ \A k \in DOMAIN ends : k > 1 =>
                 ends[k - 1] < ends[k] /\ \A i \in K : ~(ends[k - 1] < i /\ i < ends[k])
           /\ \A i \in K : ends # <<>> => ends[1] <= i
        BY <2>2, EndsFacts
    <2> QED
        BY <1>3, <2>3 DEF m
<1> DEFINE begin(k) == IF k = 1 THEN 1 ELSE E[k - 1] + 1
           fields == [k \in 1 .. c |-> SubSeq(a, begin(k), E[k] - 1)]
<1>8. GetArgs(a) = fields
    <2>1. DOMAIN E = 1 .. Len(E)
        BY <1>7
    <2>2. GetArgs(a) = [k \in DOMAIN E |-> SubSeq(a, begin(k), E[k] - 1)]
        BY DEF GetArgs, Fields, Between, K, C, n
    <2> QED
        BY <2>1, <2>2
<1> HIDE DEF E
<1>9. c \in Nat /\ c # 0 /\ DOMAIN E = 1 .. c
    BY <1>7
<1> HIDE DEF c
<1>10. E[c] = last
    <2>1. c \in DOMAIN E
        BY <1>9
    <2>2. E[c] \in K /\ last <= E[c] /\ E[c] <= last
        BY <1>5, <1>7, <2>1 DEF c
    <2>3. \A i \in K : i \in Int
        BY <1>1, <1>3
    <2>4. E[c] \in Int /\ last \in Int
        BY <1>5, <2>2, <2>3
    <2> QED
        BY <2>2, <2>4
<1>11. ASSUME NEW k \in 1 .. c
       PROVE  /\ E[k] \in 1 .. n + 1 /\ begin(k) \in 1 .. n + 1 /\ begin(k) <= E[k]
              /\ k # 1 => k - 1 \in 1 .. c /\ E[k - 1] \in C /\ E[k - 1] < E[k]
              /\ \A i \in begin(k) .. E[k] - 1 : a[i] # ","
    <2>1. E[k] \in K /\ E[k] \in 1 .. n + 1
        BY <1>3, <1>7, <1>9
    <2>2. ASSUME k # 1
          PROVE  /\ k - 1 \in 1 .. c /\ E[k - 1] \in C /\ E[k - 1] \in 1 .. n
                 /\ E[k - 1] < E[k]
                 /\ \A i \in K : ~(E[k - 1] < i /\ i < E[k])
        <3>1. k - 1 \in 1 .. c /\ k > 1
            BY <1>9, <2>2
        <3>2. /\ E[k - 1] < E[k] /\ E[k - 1] \in K /\ E[k - 1] \in 1 .. n + 1
              /\ \A i \in K : ~(E[k - 1] < i /\ i < E[k])
            BY <1>3, <1>7, <1>9, <3>1
        <3>3. E[k - 1] <= n
            BY <1>1, <2>1, <3>2
        <3> QED
            BY <1>1, <1>4, <3>1, <3>2, <3>3
    <2>3. begin(k) \in 1 .. n + 1 /\ begin(k) <= E[k]
        <3>1. CASE k = 1
            BY <1>1, <2>1, <3>1
        <3>2. CASE k # 1
            BY <1>1, <2>1, <2>2, <3>2
        <3> QED
            BY <3>1, <3>2
    <2>4. ASSUME NEW i \in begin(k) .. E[k] - 1 PROVE a[i] # ","
        <3>1. i \in 1 .. n /\ i < E[k] /\ begin(k) <= i
            BY <1>1, <2>1, <2>3
        <3>2. i \notin K
            <4>1. CASE k = 1
                <5>1. E # <<>> /\ \A j \in K : E[1] <= j
                    BY <1>7
                <5> QED
                    BY <2>1, <3>1, <4>1, <5>1
            <4>2. CASE k # 1
                <5>1. E[k - 1] < i
                    BY <2>2, <3>1, <4>2
                <5> QED
                    BY <2>2, <3>1, <4>2, <5>1
            <4> QED
                BY <4>1, <4>2
        <3> QED
            BY <1>2, <1>6, <3>1, <3>2
    <2> QED
        BY <2>1, <2>2, <2>3, <2>4
<1> HIDE DEF begin
<1>0. ASSUME NEW k \in 1 .. c
      PROVE  /\ E[k] \in Nat /\ 1 <= E[k] /\ E[k] <= n + 1
             /\ begin(k) \in Nat /\ 1 <= begin(k) /\ begin(k) <= n + 1
    <2>1. E[k] \in 1 .. n + 1 /\ begin(k) \in 1 .. n + 1
        BY <1>11
    <2> DEFINE x == E[k]  y == begin(k)  m == n + 1
    <2>2. m \in Nat
        BY <1>1
    <2>3. x \in 1 .. m /\ y \in 1 .. m
        BY <2>1
    <2> HIDE DEF x, y, m
    <2>4. x \in Nat /\ 1 <= x /\ x <= m /\ y \in Nat /\ 1 <= y /\ y <= m
        BY <2>2, <2>3
    <2> QED
        BY <2>4 DEF x, y, m
<1>12. ASSUME NEW k \in 1 .. c PROVE ~Contains(fields[k], ",")
    <2> DEFINE p == begin(k)  q == E[k] - 1
    <2>0. /\ p \in 1 .. Len(a) + 1 /\ q \in 0 .. Len(a) /\ p <= q + 1
          /\ p \in Nat /\ q \in Int /\ \A i \in p .. q : a[i] # ","
        <3>1. /\ E[k] \in Nat /\ 1 <= E[k] /\ E[k] <= n + 1
              /\ p \in Nat /\ 1 <= p /\ p <= n + 1 /\ p <= E[k]
            BY <1>0, <1>11
        <3>2. \A i \in p .. q : a[i] # ","
            BY <1>11
        <3> HIDE DEF p
        <3>3. p \in 1 .. n + 1 /\ q \in 0 .. n /\ p <= q + 1 /\ q \in Int
            BY <1>1, <3>1
        <3> HIDE DEF q
        <3> QED
            BY <3>1, <3>2, <3>3 DEF n
    <2> HIDE DEF p, q
    <2>1. /\ SubSeq(a, p, q) \in Seq(T) /\ Len(SubSeq(a, p, q)) = q - p + 1
          /\ \A i \in 1 .. q - p + 1 : SubSeq(a, p, q)[i] = a[p + i - 1]
        BY <2>0, PartFacts
    <2> DEFINE f == SubSeq(a, p, q)
    <2> HIDE DEF f
    <2>2. ASSUME NEW i \in 1 .. Len(f) PROVE f[i] # ","
        <3>1. i \in 1 .. q - p + 1
            BY <2>1 DEF f
        <3>2. p + i - 1 \in p .. q
            <4>1. p \in Nat /\ q \in Int
                BY <2>0
            <4> QED
                BY <3>1, <4>1
        <3> QED
            BY <2>0, <2>1, <3>1, <3>2 DEF f
    <2>3. ~Contains(f, ",")
        BY <2>2 DEF Contains
    <2> QED
        BY <2>3 DEF f, p, q
<1> DEFINE segs == [k \in 1 .. c |-> IF k = 1 THEN fields[k] ELSE <<",">> \o fields[k]]
           g == [k \in 1 .. c |-> SubSeq(a, 1, E[k] - 1)]
<1>13. ASSUME NEW k \in 1 .. c
       PROVE  segs[k] = SubSeq(a, IF k = 1 THEN 1 ELSE E[k - 1], E[k] - 1)
    <2>1. CASE k = 1
        BY <2>1 DEF begin
    <2>2. CASE k # 1
        <3> DEFINE p == E[k - 1]  q == E[k] - 1
        <3>1. p \in 1 .. Len(a) /\ q \in 1 .. Len(a) /\ p <= q /\ a[p] = ","
            <4>1. p \in C /\ p < E[k]
                BY <1>11, <2>2
            <4>2. p \in Nat /\ 1 <= p /\ p <= n /\ a[p] = ","
                BY <1>2, <4>1
            <4>3. E[k] \in Nat /\ E[k] <= n + 1
                BY <1>0
            <4> HIDE DEF p
            <4>4. p \in 1 .. n /\ q \in 1 .. n /\ p <= q
                <5>1. p \in Nat /\ 1 <= p /\ p <= n /\ p < E[k]
                    BY <4>1, <4>2
                <5> QED
                    BY <1>1, <4>3, <5>1
            <4> HIDE DEF q
            <4> QED
                BY <4>2, <4>4 DEF n
        <3>2. segs[k] = <<",">> \o SubSeq(a, p + 1, q)
            BY <2>2 DEF begin
        <3> HIDE DEF p, q, segs
        <3>3. <<a[p]>> \o SubSeq(a, p + 1, q) = SubSeq(a, p, q)
            BY <3>1, PartAfter
        <3> QED
            BY <2>2, <3>1, <3>2, <3>3 DEF p, q
    <2> QED
        BY <2>1, <2>2
<1>14. ASSUME NEW k \in 1 .. c
       PROVE  /\ E[k] - 1 \in 0 .. n
              /\ segs[k] \in Seq(T) /\ g[k] \in Seq(T)
              /\ g[k] = SubSeq(a, 1, E[k] - 1)
    <2>1. E[k] - 1 \in 0 .. Len(a)
        <3>1. E[k] \in Nat /\ 1 <= E[k] /\ E[k] <= n + 1
            BY <1>0
        <3>2. E[k] - 1 \in 0 .. n
            BY <1>1, <3>1
        <3> QED
            BY <3>2 DEF n
    <2>2. g[k] = SubSeq(a, 1, E[k] - 1)
        OBVIOUS
    <2> DEFINE q == E[k] - 1
    <2>3. SubSeq(a, 1, q) \in Seq(T)
        BY <2>1
    <2>4. segs[k] \in Seq(T)
        <3>1. CASE k = 1
            BY <1>13, <2>3, <3>1
        <3>2. CASE k # 1
            <4>1. E[k - 1] \in 1 .. Len(a)
                <5>1. E[k - 1] \in C
                    BY <1>11, <3>2
                <5>2. E[k - 1] \in Nat /\ 1 <= E[k - 1] /\ E[k - 1] <= n
                    BY <1>2, <5>1
                <5> QED
                    BY <1>1, <5>2 DEF n
            <4> DEFINE p == E[k - 1]
            <4> HIDE DEF p, q, segs
            <4>2. SubSeq(a, p, q) \in Seq(T)
                BY <2>1, <4>1 DEF p, q
            <4> QED
                BY <1>13, <3>2, <4>2 DEF p, q
        <3> QED
            BY <3>1, <3>2
    <2> QED
        BY <2>1, <2>2, <2>3, <2>4 DEF n
<1>15. ASSUME NEW k \in 1 .. c, k # 1 PROVE g[k] = g[k - 1] \o segs[k]
    <2> DEFINE p == E[k - 1]  q == E[k] - 1
    <2>1. k - 1 \in 1 .. c /\ p \in 1 .. Len(a) /\ q \in 1 .. Len(a) /\ p <= q
        <3>1. k - 1 \in 1 .. c /\ p \in C /\ p < E[k]
            BY <1>11, <1>15
        <3>2. p \in Nat /\ 1 <= p /\ p <= n /\ E[k] \in Nat /\ E[k] <= n + 1
            BY <1>0, <1>2, <3>1
        <3> HIDE DEF p
        <3>3. p \in 1 .. n /\ q \in 1 .. n /\ p <= q
            BY <1>1, <3>1, <3>2
        <3> QED
            BY <3>1, <3>3 DEF n
    <2>2. g[k] = SubSeq(a, 1, q) /\ g[k - 1] = SubSeq(a, 1, p - 1) /\ segs[k] = SubSeq(a, p, q)
        BY <1>13, <1>14, <1>15, <2>1
    <2> HIDE DEF p, q, g, segs
    <2>3. SubSeq(a, 1, p - 1) \o SubSeq(a, p, q) = SubSeq(a, 1, q)
        BY <2>1, PartsJoin
    <2> QED
        BY <2>2, <2>3
<1>16. FlattenSeq(segs) = g[c]
    <2>1. segs \in Seq(Seq(T)) /\ Len(segs) = c
        <3>1. segs \in [1 .. c -> Seq(T)]
            BY <1>14
        <3> HIDE DEF segs
        <3> QED
            BY <1>9, <3>1
    <2>2. g \in [1 .. c -> Seq(T)]
        BY <1>14
    <2>3. g[1] = segs[1]
        <3>1. 1 \in 1 .. c
            BY <1>9
        <3>2. g[1] = SubSeq(a, 1, E[1] - 1) /\ segs[1] = SubSeq(a, 1, E[1] - 1)
            BY <1>13, <1>14, <3>1
        <3> QED
            BY <3>2
    <2> HIDE DEF segs, g
    <2> QED
        BY <1>9, <1>15, <2>1, <2>2, <2>3, Flattened
<1>17. g[c] = IF Last(a) = "," THEN Front(a) ELSE a
    <2>1. g[c] = SubSeq(a, 1, last - 1)
        <3>1. c \in 1 .. c
            BY <1>9
        <3> QED
            BY <1>10, <1>14, <3>1
    <2>2. Last(a) = "," <=> n \in C
        <3>1. n \in 1 .. n
            BY <1>1
        <3> QED
            BY <1>2, <3>1 DEF Last, n
    <2>3. SubSeq(a, 1, n) = a
        BY DEF n
    <2>4. Front(a) = SubSeq(a, 1, n - 1)
        BY DEF Front, n
    <2>5. n + 1 - 1 = n
        BY <1>1
    <2> HIDE DEF g
    <2>6. CASE n \in C
        BY <2>1, <2>2, <2>4, <2>6 DEF last
    <2>7. CASE n \notin C
        <3>1. last = n + 1
            BY <2>7 DEF last
        <3>2. last - 1 = n
            BY <1>1, <3>1
        <3> QED
            BY <2>1, <2>2, <2>3, <2>7, <3>2
    <2> QED
        BY <2>6, <2>7
<1>18. DOMAIN fields = 1 .. c
    OBVIOUS
<1> DEFINE G == GetArgs(a)
<1>19. G = fields
    BY <1>8 DEF begin, c
<1> HIDE DEF fields, G
<1>20. FlattenSeq([k \in DOMAIN G |-> IF k = 1 THEN G[k] ELSE <<",">> \o G[k]])
         = (IF Last(a) = "," THEN Front(a) ELSE a)
    BY <1>16, <1>17, <1>18, <1>19
<1>21. \A k \in DOMAIN G : ~Contains(G[k], ",")
    BY <1>12, <1>18, <1>19
<1> QED
    BY <1>20, <1>21 DEF G

\* The arguments are a part of the text.
LEMMA ArgsOfText ==
    ASSUME NEW T, NEW s \in Seq(T), Parse(s) # NotARequest
    PROVE  Parse(s).args \in Seq(T)
<1> DEFINE args == IF Rest(s) # <<>> /\ Given(s) = <<>> THEN <<Last(Rest(s))>> ELSE Given(s)
<1>1. Parse(s) = [command |-> Word(s), args |-> args]
    BY ParseFacts
<1>2. PICK e, w, b \in 0 .. Len(s) :
              /\ Parts(s, e, w, b)
              /\ Word(s) = SubSeq(s, 1, w)
              /\ Rest(s) \in Seq(T) /\ Len(Rest(s)) = e - w
              /\ \A i \in 1 .. e - w : Rest(s)[i] = s[w + i]
              /\ Given(s) = SubSeq(s, b + 1, e)
    BY PartsFound
<1>3. Given(s) \in Seq(T)
    <2>1. b \in 0 .. Len(s) /\ e \in 0 .. Len(s)
        OBVIOUS
    <2>2. SubSeq(s, b + 1, e) \in Seq(T)
        BY <2>1
    <2> QED
        BY <1>2, <2>2
<1>4. Rest(s) # <<>> => <<Last(Rest(s))>> \in Seq(T)
    BY <1>2 DEF Last
<1>5. args \in Seq(T)
    BY <1>3, <1>4
<1> HIDE DEF args
<1> QED
    BY <1>1, <1>5

\* The arguments of every request, however long, are what commas separate.
THEOREM ArgumentsAreSplit == Spec => []ArgumentsUnderstood
<1>1. ArgumentsSplit
    <2> SUFFICES ASSUME NEW s \in Texts, Parse(s) # NotARequest, Parse(s).args # <<>>
                 PROVE  LET args == Parse(s).args
                            fields == GetArgs(args)
                        IN  /\ FlattenSeq([k \in DOMAIN fields |->
                                   IF k = 1 THEN fields[k] ELSE <<",">> \o fields[k]])
                               = (IF Last(args) = "," THEN Front(args) ELSE args)
                            /\ \A k \in DOMAIN fields : ~Contains(fields[k], ",")
        BY Zenon DEF ArgumentsSplit
    <2>1. s \in Seq(Range(s))
        BY PiecesAssumption
    <2> DEFINE a == Parse(s).args
    <2>2. a \in Seq(Range(s)) /\ a # <<>>
        BY <2>1, ArgsOfText
    <2> HIDE DEF a
    <2> QED
        BY <2>2, FieldsFacts DEF a
<1>2. ArgumentsUnderstood
    BY <1>1 DEF ArgumentsUnderstood
<1> QED
    BY <1>2, PTL
=============================================================================
