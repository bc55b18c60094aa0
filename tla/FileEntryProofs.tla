-------------------------- MODULE FileEntryProofs --------------------------
(* Proofs about FileEntry, for every number of open files, every size of the  *)
(* memory and all addresses: the vector keeps the contents of a file, and the *)
(* reader of an address gets one name as long as it is given one name.        *)
EXTENDS FileEntry, SequenceTheorems, TLAPS

\* The buffers are the sequences that fit in memory.
LEMMA BufferIsSequence ==
    ASSUME NEW b \in Buffers
    PROVE  b \in Seq(Bytes) /\ Len(b) <= MaxSize
<1>1. PICK n \in 0 .. MaxSize : b \in [1 .. n -> Bytes]
    BY DEF Buffers
<1>2. n \in Nat /\ n <= MaxSize
    BY EntryAssumption
<1> QED
    BY <1>1, <1>2

\* A sequence of bytes that is not too long is the contents of a buffer.
LEMMA BuffersFit ==
    ASSUME NEW b \in Seq(Bytes), Len(b) <= MaxSize
    PROVE  b \in Buffers
<1>1. Len(b) \in 0 .. MaxSize /\ b \in [1 .. Len(b) -> Bytes]
    BY EntryAssumption, LenProperties
<1> QED
    BY <1>1 DEF Buffers

\* One sequence is the beginning of another.
LEMMA PrefixElements ==
    ASSUME NEW T, NEW s \in Seq(T), NEW t \in Seq(T)
    PROVE  IsPrefix(s, t) <=> Len(s) <= Len(t) /\ \A i \in 1 .. Len(s) : s[i] = t[i]
<1>1. SubSeq(s, 1, Len(s)) = s
    OBVIOUS
<1>2. CASE Len(s) <= Len(t)
    <2> DEFINE u == SubSeq(t, 1, Len(s))
    <2>1. u \in Seq(T) /\ Len(u) = Len(s) /\ \A i \in 1 .. Len(s) : u[i] = t[i]
        BY <1>2
    <2>2. (\A i \in 1 .. Len(s) : s[i] = u[i]) => s = u
        BY <2>1, SeqEqual
    <2> QED
        BY <1>1, <1>2, <2>1, <2>2 DEF IsPrefix
<1> QED
    BY <1>2 DEF IsPrefix

\* std::vector::resize.
LEMMA ResizeElements ==
    ASSUME NEW bytes \in Seq(Bytes), NEW n \in Nat
    PROVE  /\ Resize(bytes, n) \in Seq(Bytes) /\ Len(Resize(bytes, n)) = n
           /\ \A i \in 1 .. n :
                 Resize(bytes, n)[i] = IF i <= Len(bytes) THEN bytes[i] ELSE 0
<1>1. \A i \in 1 .. n : (IF i <= Len(bytes) THEN bytes[i] ELSE 0) \in Bytes
    BY EntryAssumption
<1> QED
    BY <1>1 DEF Resize

\* default_file_op::write: the file is as long as it was or as the write reaches, and
\* has zeros in between.
LEMMA WriteElements ==
    ASSUME NEW bytes \in Seq(Bytes), NEW buf \in Seq(Bytes), NEW offset \in Nat
    PROVE  LET w == WriteBytes(bytes, buf, offset)
           IN  /\ w \in Seq(Bytes)
               /\ Len(w) = IF Len(bytes) < Len(buf) + offset THEN Len(buf) + offset
                                                             ELSE Len(bytes)
               /\ \A i \in 1 .. Len(w) :
                     w[i] = IF i \in offset + 1 .. offset + Len(buf) THEN buf[i - offset]
                            ELSE IF i <= Len(bytes) THEN bytes[i] ELSE 0
<1> DEFINE room == IF Len(bytes) < Len(buf) + offset
                   THEN Resize(bytes, Len(buf) + offset) ELSE bytes
           at(i) == IF i \in offset + 1 .. offset + Len(buf) THEN buf[i - offset] ELSE room[i]
<1>1. /\ room \in Seq(Bytes)
      /\ Len(room) = IF Len(bytes) < Len(buf) + offset THEN Len(buf) + offset ELSE Len(bytes)
      /\ \A i \in 1 .. Len(room) : room[i] = IF i <= Len(bytes) THEN bytes[i] ELSE 0
    <2>1. CASE Len(bytes) < Len(buf) + offset
        <3>1. Len(buf) + offset \in Nat
            OBVIOUS
        <3> QED
            BY <2>1, <3>1, ResizeElements
    <2>2. CASE ~(Len(bytes) < Len(buf) + offset)
        BY <2>2
    <2> QED
        BY <2>1, <2>2
<1>2. WriteBytes(bytes, buf, offset) = [i \in 1 .. Len(room) |-> at(i)]
    BY <1>1 DEF WriteBytes
<1> HIDE DEF room
<1>3. \A i \in 1 .. Len(room) : at(i) \in Bytes
    <2>1. ASSUME NEW i \in 1 .. Len(room) PROVE at(i) \in Bytes
        <3>1. CASE i \in offset + 1 .. offset + Len(buf)
            <4>1. i - offset \in 1 .. Len(buf)
                BY <1>1, <3>1
            <4> QED
                BY <3>1, <4>1
        <3>2. CASE i \notin offset + 1 .. offset + Len(buf)
            BY <1>1, <3>2
        <3> QED
            BY <3>1, <3>2
    <2> QED
        BY <2>1
<1> DEFINE w == [i \in 1 .. Len(room) |-> at(i)]
<1>4. w \in Seq(Bytes) /\ Len(w) = Len(room)
    <2> HIDE DEF at
    <2> QED
        BY <1>1, <1>3
<1>5. \A i \in 1 .. Len(w) :
         w[i] = IF i \in offset + 1 .. offset + Len(buf) THEN buf[i - offset]
                ELSE IF i <= Len(bytes) THEN bytes[i] ELSE 0
    BY <1>1, <1>4
<1> HIDE DEF w
<1> QED
    BY <1>1, <1>2, <1>4, <1>5 DEF w

\* default_file_op::read: what there is from the offset on, and no more than was asked.
LEMMA ReadElements ==
    ASSUME NEW bytes \in Seq(Bytes), NEW size \in Nat, NEW offset \in Nat
    PROVE  LET r == ReadBytes(bytes, size, offset)
           IN  /\ r \in Seq(Bytes) /\ Len(r) \in 0 .. size
               /\ Len(r) > 0 => offset + Len(r) <= Len(bytes)
               /\ Len(r) < size => offset + Len(r) >= Len(bytes)
               /\ \A i \in 1 .. Len(r) : r[i] = bytes[offset + i]
<1>1. CASE offset > Len(bytes)
    BY <1>1 DEF ReadBytes
<1>2. CASE offset <= Len(bytes)
    <2> DEFINE n == IF Len(bytes) < size + offset THEN Len(bytes) - offset ELSE size
    <2>1. /\ n \in 0 .. size /\ offset + n <= Len(bytes)
          /\ n < size => offset + n = Len(bytes)
        BY <1>2
    <2>2. ReadBytes(bytes, size, offset) = SubSeq(bytes, offset + 1, offset + n)
        BY <1>2 DEF ReadBytes
    <2> HIDE DEF n
    <2>3. /\ SubSeq(bytes, offset + 1, offset + n) \in Seq(Bytes)
          /\ Len(SubSeq(bytes, offset + 1, offset + n)) = n
          /\ \A i \in 1 .. n : SubSeq(bytes, offset + 1, offset + n)[i] = bytes[offset + i]
        BY <2>1
    <2> QED
        BY <2>1, <2>2, <2>3
<1> QED
    BY <1>1, <1>2

\* update_address: whatever the entry had, it has the address now.
LEMMA AddressStored ==
    ASSUME NEW bytes \in Seq(Bytes), NEW name \in Seq(Bytes)
    PROVE  UpdateAddress(bytes, name) = name
<1> DEFINE w == WriteBytes(Resize(bytes, 0), name, 0)
<1>1. Resize(bytes, 0) \in Seq(Bytes) /\ Len(Resize(bytes, 0)) = 0
    BY ResizeElements
<1>2. /\ w \in Seq(Bytes)
      /\ Len(w) = IF 0 < Len(name) + 0 THEN Len(name) + 0 ELSE 0
      /\ \A i \in 1 .. Len(w) : w[i] = IF i \in 0 + 1 .. 0 + Len(name) THEN name[i - 0]
                ELSE IF i <= 0 THEN Resize(bytes, 0)[i] ELSE 0
    BY <1>1, WriteElements
<1> HIDE DEF w
<1>3. Len(w) = Len(name) /\ \A i \in 1 .. Len(w) : w[i] = name[i]
    BY <1>2
<1> QED
    BY <1>2, <1>3, SeqEqual DEF UpdateAddress, w
-----------------------------------------------------------------------------
\* A reader that was given no name has been told nothing; only open files are read.
FileInv ==
    /\ TypeOK
    /\ WholeName
    /\ \A h \in Handles :
          /\ h \notin opened => got[h] = Nothing
          /\ got[h].names = {} => got[h].bytes = <<>> /\ ~got[h].eof

\* The invariant holds for a new file.
LEMMA FileInit == Init => FileInv
<1> SUFFICES ASSUME Init PROVE FileInv
    OBVIOUS
<1>1. <<>> \in Buffers
    <2>1. <<>> \in Seq(Bytes) /\ Len(<<>>) <= MaxSize
        BY EntryAssumption
    <2> QED
        BY <2>1, BuffersFit
<1>2. Nothing \in [bytes : Buffers, eof : BOOLEAN, names : SUBSET Names]
    BY <1>1 DEF Nothing
<1>3. TypeOK
    BY <1>1, <1>2 DEF Init, TypeOK
<1> QED
    BY <1>3 DEF Init, FileInv, WholeName, Nothing

\* A read of an address: the entry has the name now, whatever it had.
LEMMA AddressRead ==
    ASSUME FileInv, NEW h \in Handles, NEW name \in Names,
           NEW size \in Offsets, NEW offset \in Offsets,
           ReadAddress(h, name, size, offset)
    PROVE  /\ name \in Buffers /\ name \in Seq(Bytes) /\ data' = name
           /\ reply' = ReadBytes(name, size, offset) /\ reply' \in Buffers
<1>1. name \in Buffers /\ data \in Buffers
    BY EntryAssumption DEF FileInv, TypeOK
<1>2. data \in Seq(Bytes) /\ name \in Seq(Bytes) /\ Len(name) <= MaxSize
    BY <1>1, BufferIsSequence
<1>3. data' = name /\ reply' = ReadBytes(name, size, offset)
    BY <1>2, AddressStored DEF ReadAddress
<1>4. size \in Nat /\ offset \in Nat /\ MaxSize \in Nat
    BY EntryAssumption DEF Offsets
<1>5. /\ reply' \in Seq(Bytes)
      /\ Len(reply') > 0 => offset + Len(reply') <= Len(name)
    BY <1>2, <1>3, <1>4, ReadElements
<1>6. Len(reply') <= MaxSize
    BY <1>2, <1>4, <1>5
<1> QED
    BY <1>1, <1>2, <1>3, <1>5, <1>6, BuffersFit

\* Two pieces put together fit in memory when the second was read behind the first.
LEMMA PiecesFit ==
    ASSUME NEW name \in Buffers, NEW had \in Buffers, NEW size \in Nat
    PROVE  had \o ReadBytes(name, size, Len(had)) \in Buffers
<1> DEFINE r == ReadBytes(name, size, Len(had))
           all == had \o r
<1>1. /\ name \in Seq(Bytes) /\ Len(name) <= MaxSize /\ MaxSize \in Nat
      /\ had \in Seq(Bytes) /\ Len(had) <= MaxSize /\ Len(had) \in Nat
    BY BufferIsSequence, EntryAssumption
<1>2. /\ r \in Seq(Bytes) /\ Len(r) \in 0 .. size
      /\ Len(r) > 0 => Len(had) + Len(r) <= Len(name)
    BY <1>1, ReadElements
<1> HIDE DEF r
<1>3. all \in Seq(Bytes) /\ Len(all) = Len(had) + Len(r)
    BY <1>1, <1>2, ConcatProperties
<1>4. Len(all) <= MaxSize
    BY <1>1, <1>2, <1>3
<1> HIDE DEF all
<1>5. all \in Buffers
    BY <1>3, <1>4, BuffersFit
<1> QED
    BY <1>5 DEF all, r

\* The piece a reader gets continues what it has of the same name.
LEMMA PieceContinues ==
    ASSUME NEW name \in Buffers, NEW had \in Buffers, IsPrefix(had, name),
           NEW size \in Nat
    PROVE  LET r == ReadBytes(name, size, Len(had))
           IN  /\ IsPrefix(had \o r, name)
               /\ size > 0 /\ r = <<>> => had = name
               /\ had = name => had \o r = name
<1> DEFINE r == ReadBytes(name, size, Len(had))
           all == had \o r
<1>0. /\ name \in Seq(Bytes) /\ had \in Seq(Bytes) /\ Len(had) \in Nat
      /\ Len(had) <= Len(name) /\ \A i \in 1 .. Len(had) : had[i] = name[i]
    BY BufferIsSequence, PrefixElements
<1>1. /\ r \in Seq(Bytes) /\ Len(r) \in 0 .. size
      /\ Len(r) > 0 => Len(had) + Len(r) <= Len(name)
      /\ Len(r) < size => Len(had) + Len(r) >= Len(name)
      /\ \A i \in 1 .. Len(r) : r[i] = name[Len(had) + i]
    BY <1>0, ReadElements
<1> HIDE DEF r
<1>2. /\ all \in Seq(Bytes) /\ Len(all) = Len(had) + Len(r)
      /\ \A i \in 1 .. Len(all) : all[i] = IF i <= Len(had) THEN had[i] ELSE r[i - Len(had)]
    BY <1>0, <1>1, ConcatProperties
<1>3. Len(all) <= Len(name)
    BY <1>0, <1>1, <1>2
<1>4. ASSUME NEW i \in 1 .. Len(all) PROVE all[i] = name[i]
    <2>1. CASE i <= Len(had)
        BY <1>0, <1>2, <2>1
    <2>2. CASE i > Len(had)
        <3>1. i - Len(had) \in 1 .. Len(r) /\ Len(had) + (i - Len(had)) = i
            BY <1>1, <1>2, <2>2
        <3> QED
            BY <1>1, <1>2, <2>2, <3>1
    <2> QED
        BY <1>2, <2>1, <2>2
<1>5. IsPrefix(all, name)
    BY <1>0, <1>2, <1>3, <1>4, PrefixElements
<1>6. ASSUME size > 0, r = <<>> PROVE had = name
    <2>1. Len(had) = Len(name)
        BY <1>0, <1>1, <1>6
    <2> QED
        BY <1>0, <2>1, SeqEqual
<1>7. ASSUME had = name PROVE all = name
    <2>1. Len(all) = Len(name)
        BY <1>0, <1>2, <1>3, <1>7
    <2> QED
        BY <1>0, <1>2, <1>4, <2>1, SeqEqual
<1> QED
    BY <1>5, <1>6, <1>7 DEF r

\* read, of an address.
LEMMA AddressReadKeeps ==
    ASSUME FileInv, NEW h \in Handles, NEW name \in Names,
           NEW size \in Offsets, NEW offset \in Offsets,
           ReadAddress(h, name, size, offset)
    PROVE  FileInv'
<1> DEFINE had == got[h].bytes
           answer == ReadBytes(name, size, offset)
           all == had \o answer
           new == [bytes |-> all, eof |-> got[h].eof \/ (size > 0 /\ answer = <<>>),
                   names |-> got[h].names \union {name}]
<1>1. /\ name \in Buffers /\ data' = name /\ reply' = answer /\ reply' \in Buffers
      /\ had \in Buffers /\ size \in Nat
    BY AddressRead, EntryAssumption DEF Offsets, FileInv, TypeOK
<1>2. /\ UNCHANGED <<ops_name, opened>> /\ inode' = [inode EXCEPT !.atime = "clock"]
      /\ Told(h, name, size, offset, answer) /\ h \in opened
    BY <1>1 DEF ReadAddress
<1>3. CASE offset # Len(had)
    <2>1. got' = got
        BY <1>2, <1>3 DEF Told
    <2> QED
        BY <1>1, <1>2, <2>1 DEF FileInv, TypeOK, WholeName
<1>4. CASE offset = Len(had)
    <2>1. got' = [got EXCEPT ![h] = new]
        BY <1>2, <1>4 DEF Told
    <2>2. all \in Buffers
        BY <1>1, <1>4, PiecesFit
    <2>3. /\ new \in [bytes : Buffers, eof : BOOLEAN, names : SUBSET Names]
          /\ new.bytes = all /\ new.names = got[h].names \union {name}
          /\ new.eof = (got[h].eof \/ (size > 0 /\ answer = <<>>))
        BY <2>2 DEF FileInv, TypeOK
    <2>4. ASSUME NEW n \in Names, got[h].names \union {name} = {n}
          PROVE  IsPrefix(all, n) /\ (new.eof => all = n)
        <3>1. n = name /\ (got[h].names = {} \/ got[h].names = {n})
            BY <2>4
        <3>2. IsPrefix(had, name) /\ (got[h].eof => had = name)
            <4>1. CASE got[h].names = {}
                <5>1. had = <<>> /\ ~got[h].eof
                    BY <4>1 DEF FileInv
                <5>2. IsPrefix(<<>>, name)
                    BY <1>1, BufferIsSequence DEF IsPrefix
                <5> QED
                    BY <5>1, <5>2
            <4>2. CASE got[h].names = {n}
                BY <1>2, <3>1, <4>2 DEF FileInv, WholeName
            <4> QED
                BY <3>1, <4>1, <4>2
        <3>3. /\ IsPrefix(all, name)
              /\ size > 0 /\ answer = <<>> => had = name
              /\ had = name => all = name
            BY <1>1, <1>4, <3>2, PieceContinues
        <3> HIDE DEF all, answer, had, new
        <3> QED
            BY <2>3, <3>1, <3>2, <3>3 DEF had
    <2> HIDE DEF new, all
    <2>5. got'[h] = new /\ \A k \in Handles : k # h => got'[k] = got[k]
        BY <2>1 DEF FileInv, TypeOK
    <2>6. TypeOK'
        BY <1>1, <1>2, <2>1, <2>3 DEF FileInv, TypeOK
    <2>7. WholeName'
        BY <1>2, <2>3, <2>4, <2>5 DEF FileInv, WholeName, TypeOK
    <2> QED
        BY <1>2, <2>3, <2>5, <2>6, <2>7 DEF FileInv
<1> QED
    BY <1>3, <1>4

\* read, of a plain file.
LEMMA PlainReadKeeps ==
    ASSUME FileInv, NEW h \in Handles, NEW size \in Offsets, NEW offset \in Offsets,
           ReadFile(h, size, offset)
    PROVE  FileInv'
<1>1. /\ data' = data /\ reply' = ReadBytes(data, size, offset) /\ got' = got
      /\ UNCHANGED <<ops_name, opened>> /\ inode' = [inode EXCEPT !.atime = "clock"]
    BY DEF ReadFile
<1>2. data \in Seq(Bytes) /\ Len(data) <= MaxSize /\ size \in Nat /\ offset \in Nat
    BY BufferIsSequence, EntryAssumption DEF FileInv, TypeOK, Offsets
<1>3. reply' \in Buffers
    <2>1. /\ reply' \in Seq(Bytes)
          /\ Len(reply') > 0 => offset + Len(reply') <= Len(data)
        BY <1>1, <1>2, ReadElements
    <2>2. Len(reply') <= MaxSize
        BY <1>2, <2>1, EntryAssumption
    <2> QED
        BY <2>1, <2>2, BuffersFit
<1>4. TypeOK'
    BY <1>1, <1>3 DEF FileInv, TypeOK
<1> QED
    BY <1>1, <1>4 DEF FileInv, WholeName

\* What a write leaves fits in memory.
LEMMA WriteFits ==
    ASSUME FileInv, NEW buf \in Buffers, NEW offset \in Offsets,
           Len(buf) + offset <= MaxSize
    PROVE  WriteBytes(data, buf, offset) \in Buffers
<1> DEFINE w == WriteBytes(data, buf, offset)
<1>1. /\ data \in Seq(Bytes) /\ Len(data) <= MaxSize /\ buf \in Seq(Bytes)
      /\ offset \in Nat /\ MaxSize \in Nat
    BY BufferIsSequence, EntryAssumption DEF FileInv, TypeOK, Offsets
<1>2. /\ w \in Seq(Bytes)
      /\ Len(w) = IF Len(data) < Len(buf) + offset THEN Len(buf) + offset ELSE Len(data)
    BY <1>1, WriteElements
<1> HIDE DEF w
<1>3. Len(w) <= MaxSize
    BY <1>1, <1>2
<1> QED
    BY <1>2, <1>3, BuffersFit DEF w

\* Every step keeps the invariant.
LEMMA FileStep == FileInv /\ [Next]_vars => FileInv'
<1> SUFFICES ASSUME FileInv, [Next]_vars PROVE FileInv'
    OBVIOUS
<1>0. CASE UNCHANGED vars
    BY <1>0 DEF vars, FileInv, TypeOK, WholeName
<1>1. /\ <<>> \in Buffers
      /\ Nothing \in [bytes : Buffers, eof : BOOLEAN, names : SUBSET Names]
      /\ Nothing.bytes = <<>> /\ Nothing.eof = FALSE /\ Nothing.names = {}
    <2>1. <<>> \in Seq(Bytes) /\ Len(<<>>) <= MaxSize
        BY EntryAssumption
    <2> QED
        BY <2>1, BuffersFit DEF Nothing
<1>2. ASSUME NEW h \in Handles, Open(h) PROVE FileInv'
    BY <1>1, <1>2, EntryAssumption
       DEF Open, FileInv, TypeOK, WholeName
<1>3. ASSUME NEW h \in Handles, Release(h) PROVE FileInv'
    BY <1>1, <1>3, EntryAssumption
       DEF Release, FileInv, TypeOK, WholeName
<1>4. ASSUME NEW h \in Handles, NEW size \in Offsets, NEW offset \in Offsets,
             ReadFile(h, size, offset) \/ \E name \in Names : ReadAddress(h, name, size, offset)
      PROVE  FileInv'
    BY <1>4, AddressReadKeeps, PlainReadKeeps
<1>5. ASSUME NEW h \in Handles, NEW buf \in Buffers, NEW offset \in Offsets,
             Write(h, buf, offset)
      PROVE  FileInv'
    <2>1. data' \in Buffers
        BY <1>5, WriteFits DEF Write, FileInv, TypeOK
    <2> QED
        BY <1>5, <2>1 DEF Write, FileInv, TypeOK, WholeName
<1>6. ASSUME NEW n \in 0 .. MaxSize, Truncate(n) PROVE FileInv'
    <2>1. data \in Seq(Bytes) /\ n \in Nat /\ n <= MaxSize
        BY BufferIsSequence, EntryAssumption DEF FileInv, TypeOK
    <2>2. data' \in Seq(Bytes) /\ Len(data') = n
        BY <1>6, <2>1, ResizeElements DEF Truncate
    <2>3. data' \in Buffers
        BY <2>1, <2>2, BuffersFit
    <2> QED
        BY <1>6, <2>3 DEF Truncate, FileInv, TypeOK, WholeName
<1>7. ASSUME \/ \E mode \in Modes : Chmod(mode)
             \/ \E uid \in Owners : Chown(uid)
             \/ Utimens
      PROVE  FileInv'
    BY <1>7 DEF Chmod, Chown, Utimens, ChangeInode, FileInv, TypeOK, WholeName
<1> QED
    BY <1>0, <1>2, <1>3, <1>4, <1>5, <1>6, <1>7 DEF Next

\* The invariant holds in every state of every behaviour.
LEMMA FileInvariant == Spec => []FileInv
BY FileInit, FileStep, PTL DEF Spec

\* The variables have their types; no file is longer than the memory.
THEOREM FileTypes == Spec => []TypeOK
<1>1. FileInv => TypeOK
    BY DEF FileInv
<1> QED
    BY FileInvariant, <1>1, PTL

\* As long as a descriptor goes by one name its reader gets that name and all of it,
\* whatever name other readers leave in the entry between two of its pieces.
THEOREM ReadersGetWholeNames == Spec => []WholeName
<1>1. FileInv => WholeName
    BY DEF FileInv
<1> QED
    BY FileInvariant, <1>1, PTL
-----------------------------------------------------------------------------
(* The refinement of ByteFile *)

\* The byte at a position, as ByteFile has it.
Byte(bytes, i) == IF i < Len(bytes) THEN bytes[i + 1] ELSE 0
Held == [i \in 0 .. MaxSize - 1 |-> Byte(data, i)]

\* A new file is empty.
LEMMA InitKeepsContents == Init => Contents!Init
<1> SUFFICES ASSUME Init PROVE Contents!Init
    OBVIOUS
<1>1. Len(data) = 0 /\ reply = <<>> /\ IsAddress \in BOOLEAN
    BY DEF Init, IsAddress
<1>2. \A i \in 0 .. MaxSize - 1 : ~(i < Len(data))
    BY <1>1
<1>3. Held = [i \in 0 .. MaxSize - 1 |-> 0]
    BY <1>2 DEF Held, Byte
<1> QED
    BY <1>1, <1>3 DEF Contents!Init, Contents!Positions, Held, Byte

\* What a reader is told is one of the answers that ByteFile allows.
LEMMA AnswersKept ==
    ASSUME data' \in Buffers, NEW size \in Offsets, NEW offset \in Offsets,
           reply' = ReadBytes(data', size, offset)
    PROVE  Contents!Answers(size, offset)
<1>1. data' \in Seq(Bytes) /\ Len(data') <= MaxSize
    BY BufferIsSequence
<1>2. size \in Nat /\ offset \in Nat /\ MaxSize \in Nat
    BY EntryAssumption DEF Offsets
<1>3. /\ reply' \in Seq(Bytes) /\ Len(reply') \in 0 .. size
      /\ Len(reply') > 0 => offset + Len(reply') <= Len(data')
      /\ Len(reply') < size => offset + Len(reply') >= Len(data')
      /\ \A i \in 1 .. Len(reply') : reply'[i] = data'[offset + i]
    BY <1>1, <1>2, ReadElements
<1> DEFINE n == Len(reply')
<1>4. \A i \in 1 .. n : /\ offset + i - 1 \in 0 .. MaxSize - 1
                        /\ Byte(data', offset + i - 1) = data'[offset + i]
    BY <1>1, <1>2, <1>3 DEF Byte
<1>5. reply' = [i \in 1 .. n |-> reply'[i]]
    BY <1>3
<1>6. reply' = [i \in 1 .. n |-> Held'[offset + i - 1]]
    BY <1>3, <1>4, <1>5 DEF Held
<1> QED
    BY <1>3, <1>6 DEF Contents!Answers, Held, Byte

\* read, of a plain file and of an address.
LEMMA ReadKeepsContents ==
    ASSUME FileInv, NEW h \in Handles, NEW size \in Offsets, NEW offset \in Offsets,
           ReadFile(h, size, offset) \/ \E name \in Names : ReadAddress(h, name, size, offset)
    PROVE  Contents!Next
<1>1. CASE ReadFile(h, size, offset)
    <2>1. /\ data' = data /\ reply' = ReadBytes(data, size, offset) /\ data \in Buffers
          /\ IsAddress' = IsAddress /\ ~IsAddress
        BY <1>1 DEF ReadFile, IsAddress, FileInv, TypeOK
    <2>2. Contents!Answers(size, offset)
        BY <2>1, AnswersKept
    <2> QED
        BY <2>1, <2>2 DEF Contents!Next, Contents!Read, Offsets
<1>2. ASSUME NEW name \in Names, ReadAddress(h, name, size, offset) PROVE Contents!Next
    <2>1. /\ data' = name /\ reply' = ReadBytes(name, size, offset) /\ name \in Buffers
          /\ IsAddress' = IsAddress /\ IsAddress
        BY <1>2, AddressRead DEF ReadAddress, IsAddress
    <2>2. Contents!Answers(size, offset)
        BY <2>1, AnswersKept
    <2>3. Contents!ReadDevice(name, size, offset)
        BY <2>1, <2>2 DEF Contents!ReadDevice, Contents!Positions
    <2> QED
        BY <2>3 DEF Contents!Next, Offsets
<1> QED
    BY <1>1, <1>2

\* write, of a plain file.
LEMMA WriteKeepsContents ==
    ASSUME FileInv, NEW h \in Handles, NEW buf \in Buffers, NEW offset \in Offsets,
           Write(h, buf, offset), ~IsAddress
    PROVE  Contents!Next
<1>1. /\ data \in Seq(Bytes) /\ Len(data) <= MaxSize /\ buf \in Seq(Bytes)
      /\ offset \in Nat /\ MaxSize \in Nat
    BY BufferIsSequence, EntryAssumption DEF FileInv, TypeOK, Offsets
<1>2. /\ Len(buf) + offset <= MaxSize /\ data' = WriteBytes(data, buf, offset)
      /\ IsAddress' = IsAddress /\ reply' = reply
    BY DEF Write, IsAddress
<1>3. /\ data' \in Seq(Bytes)
      /\ Len(data') = IF Len(data) < Len(buf) + offset THEN Len(buf) + offset ELSE Len(data)
      /\ \A i \in 1 .. Len(data') :
            data'[i] = IF i \in offset + 1 .. offset + Len(buf) THEN buf[i - offset]
                       ELSE IF i <= Len(data) THEN data[i] ELSE 0
    BY <1>1, <1>2, WriteElements
<1>4. Len(data') = Contents!Larger(Len(data), offset + Len(buf))
    BY <1>1, <1>3 DEF Contents!Larger
<1>5. ASSUME NEW i \in 0 .. MaxSize - 1
      PROVE  Byte(data', i) = IF i \in offset .. offset + Len(buf) - 1
                              THEN buf[i - offset + 1] ELSE Byte(data, i)
    <2>1. CASE i \in offset .. offset + Len(buf) - 1
        <3>1. /\ i + 1 \in 1 .. Len(data') /\ i < Len(data')
              /\ i + 1 \in offset + 1 .. offset + Len(buf)
              /\ i + 1 - offset = i - offset + 1
            BY <1>1, <1>3, <2>1
        <3>2. PICK k \in 1 .. Len(data') : k = i + 1
            BY <3>1
        <3>3. data'[k] = buf[k - offset]
            BY <1>3, <3>1, <3>2
        <3> QED
            BY <1>1, <2>1, <3>1, <3>2, <3>3 DEF Byte
    <2>2. CASE i \notin offset .. offset + Len(buf) - 1
        <3>1. i + 1 \notin offset + 1 .. offset + Len(buf)
            BY <1>1, <2>2
        <3>2. CASE i < Len(data')
            <4>1. i + 1 \in 1 .. Len(data') /\ (i + 1 <= Len(data) <=> i < Len(data))
                BY <1>1, <1>3, <3>2
            <4> QED
                BY <1>3, <2>2, <3>1, <3>2, <4>1 DEF Byte
        <3>3. CASE ~(i < Len(data'))
            <4>1. ~(i < Len(data))
                BY <1>1, <1>3, <3>3
            <4> QED
                BY <2>2, <3>3, <4>1 DEF Byte
        <3> QED
            BY <3>2, <3>3
    <2> QED
        BY <2>1, <2>2
<1>6. Held' = [i \in 0 .. MaxSize - 1 |->
                  IF i \in offset .. offset + Len(buf) - 1
                  THEN buf[i - offset + 1] ELSE Held[i]]
    BY <1>5 DEF Held
<1>7. Contents!Write(buf, offset)
    BY <1>1, <1>2, <1>4, <1>6 DEF Contents!Write, Contents!Positions, Held, Byte
<1>8. /\ Len(buf) \in 0 .. MaxSize /\ offset \in 0 .. MaxSize
      /\ buf \in [1 .. Len(buf) -> Bytes]
    BY <1>1, <1>2, LenProperties
<1> QED
    BY <1>7, <1>8 DEF Contents!Next

\* truncate.
LEMMA TruncateKeepsContents ==
    ASSUME FileInv, NEW n \in 0 .. MaxSize, Truncate(n)
    PROVE  Contents!Next
<1>1. data \in Seq(Bytes) /\ n \in Nat
    BY BufferIsSequence DEF FileInv, TypeOK
<1>2. data' = Resize(data, n) /\ IsAddress' = IsAddress /\ reply' = reply
    BY DEF Truncate, IsAddress
<1>3. /\ Len(data') = n
      /\ \A i \in 1 .. n : data'[i] = IF i <= Len(data) THEN data[i] ELSE 0
    BY <1>1, <1>2, ResizeElements
<1>4. ASSUME NEW i \in 0 .. MaxSize - 1
      PROVE  Byte(data', i) = IF i < n THEN Byte(data, i) ELSE 0
    <2>1. CASE i < n
        <3>1. i + 1 \in 1 .. n /\ (i + 1 <= Len(data) <=> i < Len(data))
            BY <1>1, <2>1
        <3> QED
            BY <1>3, <2>1, <3>1 DEF Byte
    <2>2. CASE ~(i < n)
        BY <1>3, <2>2 DEF Byte
    <2> QED
        BY <2>1, <2>2
<1>5. Held' = [i \in 0 .. MaxSize - 1 |-> IF i < n THEN Held[i] ELSE 0]
    BY <1>4 DEF Held
<1>6. Contents!Truncate(n)
    BY <1>2, <1>3, <1>5 DEF Contents!Truncate, Contents!Positions, Held, Byte
<1> QED
    BY <1>6 DEF Contents!Next

\* Every step is one of ByteFile's or none.
LEMMA StepKeepsContents ==
    FileInv /\ [Next]_vars => [Contents!Next]_Contents!vars
<1> SUFFICES ASSUME FileInv, [Next]_vars PROVE [Contents!Next]_Contents!vars
    OBVIOUS
<1>1. ASSUME UNCHANGED <<ops_name, data, reply>> PROVE UNCHANGED Contents!vars
    BY <1>1 DEF Contents!vars, IsAddress
<1>2. CASE UNCHANGED vars
    BY <1>1, <1>2 DEF vars
<1>3. ASSUME NEW h \in Handles, Open(h) \/ Release(h) PROVE UNCHANGED Contents!vars
    BY <1>1, <1>3 DEF Open, Release
<1>4. ASSUME NEW h \in Handles, NEW size \in Offsets, NEW offset \in Offsets,
             ReadFile(h, size, offset) \/ \E name \in Names : ReadAddress(h, name, size, offset)
      PROVE  Contents!Next
    BY <1>4, ReadKeepsContents
<1>5. ASSUME NEW h \in Handles, NEW buf \in Buffers, NEW offset \in Offsets,
             Write(h, buf, offset)
      PROVE  [Contents!Next]_Contents!vars
    <2>1. CASE IsAddress
        BY <1>1, <1>5, <2>1 DEF Write
    <2>2. CASE ~IsAddress
        BY <1>5, <2>2, WriteKeepsContents
    <2> QED
        BY <2>1, <2>2
<1>6. ASSUME NEW n \in 0 .. MaxSize, Truncate(n) PROVE Contents!Next
    BY <1>6, TruncateKeepsContents
<1>7. ASSUME \/ \E mode \in Modes : Chmod(mode)
             \/ \E uid \in Owners : Chown(uid)
             \/ Utimens
      PROVE  UNCHANGED Contents!vars
    BY <1>1, <1>7 DEF Chmod, Chown, Utimens, ChangeInode
<1> QED
    BY <1>2, <1>3, <1>4, <1>5, <1>6, <1>7 DEF Next

\* The vector of a file_entry and the operations on it keep the contents of a file.
THEOREM KeepsContentsHolds == Spec => KeepsContents
BY InitKeepsContents, StepKeepsContents, FileInvariant, PTL
   DEF Spec, KeepsContents, Contents!Spec
=============================================================================
