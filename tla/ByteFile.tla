------------------------------ MODULE ByteFile ------------------------------
(***************************************************************************)
(* What the contents of a file promise: a byte for every position, zero    *)
(* where nothing was written, and a length.  A device is a file that takes *)
(* another text whenever it is read.  FileEntry shows that the vector of a *)
(* file_entry and the operations on it keep this, and that no request but  *)
(* write, truncate and the read of a device touches the contents.          *)
(***************************************************************************)
EXTENDS Integers, Sequences

CONSTANTS
    Bytes,      \* the values of a byte, 0 among them
    MaxSize,    \* no file is longer: the memory of the process
    Texts       \* what a device may say

Positions == 0 .. MaxSize - 1

VARIABLES
    device,     \* is it a device
    length,     \* the positions below are the file
    byte,       \* byte[i]: at position i; zero from length on
    reply       \* what the last read was told

vars == <<device, length, byte, reply>>

Init ==
    /\ device \in BOOLEAN
    /\ length = 0
    /\ byte = [i \in Positions |-> 0]
    /\ reply = <<>>

Larger(m, n) == IF m > n THEN m ELSE n

\* buf is stored from offset on; what lay between the end and offset is zero already
Write(buf, offset) ==
    /\ ~device
    /\ offset + Len(buf) <= MaxSize
    /\ length' = Larger(length, offset + Len(buf))
    /\ byte' = [i \in Positions |->
          IF i \in offset .. offset + Len(buf) - 1 THEN buf[i - offset + 1]
                                                   ELSE byte[i]]
    /\ UNCHANGED <<device, reply>>

\* the file becomes n long; a file that grows later has forgotten what was cut
Truncate(n) ==
    /\ length' = n
    /\ byte' = [i \in Positions |-> IF i < n THEN byte[i] ELSE 0]
    /\ UNCHANGED <<device, reply>>

\* the bytes from offset on, size of them or as many as there are
Answers(size, offset) ==
    \E n \in 0 .. size :
        /\ n > 0 => offset + n <= length'
        /\ n < size => offset + n >= length'
        /\ reply' = [i \in 1 .. n |-> byte'[offset + i - 1]]

Read(size, offset) ==
    /\ ~device
    /\ UNCHANGED <<device, length, byte>>
    /\ Answers(size, offset)

ReadDevice(text, size, offset) ==
    /\ device
    /\ length' = Len(text)
    /\ byte' = [i \in Positions |-> IF i < Len(text) THEN text[i + 1] ELSE 0]
    /\ UNCHANGED device
    /\ Answers(size, offset)

Next ==
    \/ \E n \in 0 .. MaxSize, offset \in 0 .. MaxSize : \E buf \in [1 .. n -> Bytes] :
          Write(buf, offset)
    \/ \E n \in 0 .. MaxSize : Truncate(n)
    \/ \E size, offset \in 0 .. MaxSize + 1 : Read(size, offset)
    \/ \E text \in Texts, size, offset \in 0 .. MaxSize + 1 :
          ReadDevice(text, size, offset)

Spec == Init /\ [][Next]_vars
=============================================================================
