------------------------------ MODULE FileEntry ------------------------------
(***************************************************************************)
(* A regular file: the bytes and the attributes of a file_entry, and what  *)
(* the requests on it do, one request at a time.  A file has the default   *)
(* operations, or it is the local or remote file of a TCP session, which   *)
(* asks for the address of a descriptor whenever it is read, writes it     *)
(* into the entry, and then reads that like any other file.  All handles   *)
(* share the entry, so readers of different addresses rewrite it under     *)
(* each other.                                                             *)
(*                                                                         *)
(* Which address a descriptor has is asked anew at every read, and the     *)
(* answer may be another each time: the session's socket may be closed,    *)
(* the number be that of another session's socket by then, and getnameinfo *)
(* may give another name for the same address.                             *)
(***************************************************************************)
EXTENDS Integers, Sequences, SequencesExt

CONSTANTS
    Handles,    \* the open files
    Bytes,      \* the values of a byte, 0 among them
    MaxSize,    \* the length at which resize throws
    Modes, Owners,
    Names       \* the texts that an address may be given as

Buffers == UNION {[1 .. n -> Bytes] : n \in 0 .. MaxSize}
Offsets == 0 .. MaxSize + 1

\* addresses fit in memory
ASSUME EntryAssumption ==
    MaxSize \in Nat /\ 0 \in Bytes /\ Names \subseteq Buffers

VARIABLES
    ops_name,   \* the type of the file: "file", or "address" for local and remote
    data,       \* data_
    inode,      \* inode_; of the times only whether a program or the clock gave them
    opened,     \* the handles that are open
    reply,      \* what the last read returned
    got         \* got[h]: what the reader h of an address has read from 0 on, piece
                \* by piece, whether it was told that this is all, and the names
                \* that the reads of the pieces were given

vars == <<ops_name, data, inode, opened, reply, got>>

Nothing == [bytes |-> <<>>, eof |-> FALSE, names |-> {}]

TypeOK ==
    /\ ops_name \in {"file", "address"}
    /\ data \in Buffers
    /\ inode \in [mode : Modes, uid : Owners,
                  atime : {"clock", "program"}, mtime : {"clock", "program"}]
    /\ opened \subseteq Handles
    /\ reply \in Buffers
    /\ got \in [Handles -> [bytes : Buffers, eof : BOOLEAN, names : SUBSET Names]]

Init ==
    /\ ops_name \in {"file", "address"}
    /\ data = <<>>
    /\ inode \in [mode : Modes, uid : Owners, atime : {"clock"}, mtime : {"clock"}]
    /\ opened = {}
    /\ reply = <<>>
    /\ got = [h \in Handles |-> Nothing]

IsAddress == ops_name # "file"

----------------------------------------------------------------------------
(* std::vector and default_file_op. *)

\* what is cut is gone, what is added is 0
Resize(bytes, n) == [i \in 1 .. n |-> IF i <= Len(bytes) THEN bytes[i] ELSE 0]

\* Mutant of WriteBytes: the file grows by one more.
WriteBytesOneMore(bytes, buf, offset) ==
    LET room == Resize(bytes, Len(buf) + offset + 1)
    IN  [i \in DOMAIN room |->
            IF i \in offset + 1 .. offset + Len(buf) THEN buf[i - offset] ELSE room[i]]

\* Mutant of WriteBytes: resize is called without comparing.
WriteBytesShortens(bytes, buf, offset) ==
    LET room == Resize(bytes, Len(buf) + offset)
    IN  [i \in DOMAIN room |->
            IF i \in offset + 1 .. offset + Len(buf) THEN buf[i - offset] ELSE room[i]]

\* a write never makes the file shorter
WriteBytes(bytes, buf, offset) ==
    LET room == IF Len(bytes) < Len(buf) + offset
                THEN Resize(bytes, Len(buf) + offset) ELSE bytes
    IN  [i \in DOMAIN room |->
            IF i \in offset + 1 .. offset + Len(buf) THEN buf[i - offset] ELSE room[i]]

ReadBytes(bytes, size, offset) ==
    IF offset > Len(bytes) THEN <<>>
    ELSE SubSeq(bytes, offset + 1,
                offset + (IF Len(bytes) < size + offset THEN Len(bytes) - offset ELSE size))

----------------------------------------------------------------------------
(* Open and release. *)

\* an address file is refused while its session has no socket, and nothing changes
Open(h) ==
    /\ h \notin opened
    /\ opened' = opened \union {h}
    /\ inode' = [inode EXCEPT !.atime = "clock"]
    /\ got' = [got EXCEPT ![h] = Nothing]
    /\ UNCHANGED <<ops_name, data, reply>>

Release(h) ==
    /\ h \in opened
    /\ opened' = opened \ {h}
    /\ got' = [got EXCEPT ![h] = Nothing]
    /\ UNCHANGED <<ops_name, data, inode, reply>>

----------------------------------------------------------------------------
(* Read and write through a handle. *)

\* Mutant of UpdateAddress: no clear.
UpdateAddressUncleared(bytes, name) == WriteBytes(bytes, name, 0)

\* data().clear(), then the address is written at 0
UpdateAddress(bytes, name) == WriteBytes(Resize(bytes, 0), name, 0)

\* the reader h of an address is told answer, of name, for size bytes at offset
Told(h, name, size, offset, answer) ==
    got' = IF offset # Len(got[h].bytes) THEN got
           ELSE [got EXCEPT ![h] = [bytes |-> got[h].bytes \o answer,
                                    eof |-> got[h].eof \/ (size > 0 /\ answer = <<>>),
                                    names |-> got[h].names \union {name}]]

\* default_file_op::read
ReadFile(h, size, offset) ==
    /\ h \in opened /\ ~IsAddress
    /\ reply' = ReadBytes(data, size, offset)
    /\ inode' = [inode EXCEPT !.atime = "clock"]
    /\ UNCHANGED <<ops_name, data, opened, got>>

\* local_op::read and remote_op::read: getsockname or getpeername, and getnameinfo,
\* of whatever the descriptor is now; when one of them fails nothing has changed
ReadAddress(h, name, size, offset) ==
    /\ h \in opened /\ IsAddress
    /\ data' = UpdateAddress(data, name)
    /\ reply' = ReadBytes(data', size, offset)
    /\ Told(h, name, size, offset, reply')
    /\ inode' = [inode EXCEPT !.atime = "clock"]
    /\ UNCHANGED <<ops_name, opened>>

\* the first bytes are stored, and both times; resize throws when there is no memory.
\* An address file refuses with -EPERM, which is a result like any other: times change
Write(h, buf, offset) ==
    /\ h \in opened
    /\ IsAddress \/ Len(buf) + offset <= MaxSize
    /\ data' = IF IsAddress THEN data ELSE WriteBytes(data, buf, offset)
    /\ inode' = [inode EXCEPT !.atime = "clock", !.mtime = "clock"]
    /\ UNCHANGED <<ops_name, opened, reply, got>>

----------------------------------------------------------------------------
(* Requests by path. *)

\* of a file of any type, and without looking at the times
Truncate(n) ==
    /\ data' = Resize(data, n)
    /\ UNCHANGED <<ops_name, inode, opened, reply, got>>

ChangeInode(new_inode) ==
    /\ inode' = new_inode
    /\ UNCHANGED <<ops_name, data, opened, reply, got>>

Chmod(mode) == ChangeInode([inode EXCEPT !.mode = mode])
Chown(uid) == ChangeInode([inode EXCEPT !.uid = uid])
Utimens == ChangeInode([inode EXCEPT !.atime = "program", !.mtime = "program"])

----------------------------------------------------------------------------
Next ==
    \/ \E h \in Handles :
          \/ Open(h)
          \/ Release(h)
          \/ \E size \in Offsets, offset \in Offsets :
                \/ ReadFile(h, size, offset)
                \/ \E name \in Names : ReadAddress(h, name, size, offset)
          \/ \E buf \in Buffers, offset \in Offsets : Write(h, buf, offset)
    \/ \E n \in 0 .. MaxSize : Truncate(n)
    \/ \E mode \in Modes : Chmod(mode)
    \/ \E uid \in Owners : Chown(uid)
    \/ Utimens

Spec == Init /\ [][Next]_vars

----------------------------------------------------------------------------
(* Properties. *)

(* The vector is a file of bytes: what is read is what was last written there, or
   zero where the file has grown by a write past its end or by truncate
   (default_file_op::read and write, core_file_system::truncate), and neither the
   attributes nor open and release change it. *)
Contents == INSTANCE ByteFile WITH
    Texts <- Names,
    device <- IsAddress,
    length <- Len(data),
    byte <- [i \in 0 .. MaxSize - 1 |-> IF i < Len(data) THEN data[i + 1] ELSE 0]

KeepsContents == Contents!Spec

(* Whoever reads local or remote from the start, a piece at a time, while its
   descriptor goes by one and the same name gets that name, and all of it: not the
   tail of a longer one which another reader left in the entry, nor a piece of that
   one's name, whatever programs do to the file by its path in between
   (update_address clears the entry and writes it anew, at every read).  A reader
   whose descriptor changes its name between two pieces gets some of each. *)
WholeName ==
    \A h \in opened : \A name \in Names :
        got[h].names = {name} =>
            /\ IsPrefix(got[h].bytes, name)
            /\ got[h].eof => got[h].bytes = name
=============================================================================
