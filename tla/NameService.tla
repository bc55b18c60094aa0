----------------------------- MODULE NameService -----------------------------
(***************************************************************************)
(* The file dns: a program writes "resolve host" and reads the addresses,  *)
(* one line for each read.  Every open file has its own resolver_op with   *)
(* the names it still has to tell (resolved_names_).  One request at a     *)
(* time; the resolver of the C library is external and may answer the same *)
(* question differently from one time to the next.                         *)
(***************************************************************************)
EXTENDS Integers, RequestParser

CONSTANTS
    Handles,    \* the open files
    Writes,     \* bound: the texts that programs write
    Answers(_), \* the lists of addresses that getaddrinfo may give for a host
    Length,     \* [{"inet", "inet6"} -> lengths of a line]
    Sizes,      \* the sizes of the buffers programs read into
    Closed      \* the handle is not open

\* the families that a command asks for
families ==
    [command \in {<<"resolve">>, <<"resolve_inet">>, <<"resolve_inet6">>} |->
        IF command = <<"resolve">> THEN {"inet", "inet6"}
        ELSE IF command = <<"resolve_inet">> THEN {"inet"} ELSE {"inet6"}]

VARIABLES
    resolved_names, \* resolved_names[h], or Closed
    request,        \* request[h]: the last one that was not refused: what it found, and
                    \* whether write returned without an error
    told            \* told[h]: what was read since then

vars == <<resolved_names, request, told>>

NoRequest == [found |-> <<>>, granted |-> TRUE]

Addresses == [family : {"inet", "inet6"}, number : Nat]

TypeOK ==
    \A h \in Handles :
        /\ resolved_names[h] = Closed \/ resolved_names[h] \in Seq(Addresses)
        /\ request[h] \in [found : Seq(Addresses), granted : BOOLEAN]
        /\ told[h] \in Seq(Addresses)
        /\ resolved_names[h] = Closed => request[h] = NoRequest /\ told[h] = <<>>

Init ==
    /\ resolved_names = [h \in Handles |-> Closed]
    /\ request = [h \in Handles |-> NoRequest]
    /\ told = [h \in Handles |-> <<>>]

IsOpen(h) == resolved_names[h] # Closed

----------------------------------------------------------------------------
\* Mutant of Open: resolved_names_ starts with an empty name.
OpenWithOneName(h) ==
    /\ ~IsOpen(h)
    /\ resolved_names' = [resolved_names EXCEPT ![h] = <<[family |-> "none", number |-> 0]>>]
    /\ UNCHANGED <<request, told>>

Open(h) ==
    /\ ~IsOpen(h)
    /\ resolved_names' = [resolved_names EXCEPT ![h] = <<>>]
    /\ UNCHANGED <<request, told>>

Release(h) ==
    /\ IsOpen(h)
    /\ resolved_names' = [resolved_names EXCEPT ![h] = Closed]
    /\ request' = [request EXCEPT ![h] = NoRequest]
    /\ told' = [told EXCEPT ![h] = <<>>]

----------------------------------------------------------------------------
(* write: request_parser, then the lookup. *)

Args(text) == GetArgs(Parse(text).args)

\* the request is one, and has one argument; else write returns -ENOTSUP
IsRequest(text) == Parse(text) # NotARequest /\ Len(Args(text)) = 1

Command(text) == Parse(text).command
Host(text) == Head(Args(text))

\* what getaddrinfo gives are addresses, and a list of them is not "closed"
ASSUME LookupAssumption ==
    /\ \A text \in Writes : IsRequest(text) => Answers(Host(text)) \subseteq Seq(Addresses)
    /\ Closed \notin Seq(Addresses)

\* the addresses of the families that the command asks for (hints.ai_family)
Asked(text, answer) ==
    Picked(answer, {i \in DOMAIN answer : answer[i].family \in families[Command(text)]})

\* clear, then names are stored one after the other: all that were found if write
\* returns size, some of them if it throws
Resolve(h, names, found, granted) ==
    /\ IsOpen(h)
    /\ resolved_names' = [resolved_names EXCEPT ![h] = names]
    /\ request' = [request EXCEPT ![h] = [found |-> found, granted |-> granted]]
    /\ told' = [told EXCEPT ![h] = <<>>]

Write(h, text) ==
    /\ IsRequest(text)
    /\ Command(text) \in DOMAIN families
    /\ \E answer \in Answers(Host(text)) :
          LET found == Asked(text, answer)
          IN  /\ found # <<>>
              /\ Resolve(h, found, found, TRUE)

\* families.at throws, after the clear
WriteUnknown(h, text) ==
    /\ IsRequest(text)
    /\ Command(text) \notin DOMAIN families
    /\ Resolve(h, <<>>, <<>>, FALSE)

\* getaddrinfo finds nothing, or get_name_info throws at one of the addresses
LookupFails(h, text) ==
    /\ IsRequest(text)
    /\ Command(text) \in DOMAIN families
    /\ \E answer \in Answers(Host(text)) :
          LET found == Asked(text, answer)
          IN  \E n \in {0} \union 0 .. Len(found) - 1 :
                  Resolve(h, SubSeq(found, 1, n), found, FALSE)

\* nothing changes
WriteRefused(h, text) ==
    /\ IsOpen(h)
    /\ ~IsRequest(text)
    /\ UNCHANGED vars

----------------------------------------------------------------------------
(* read: one name, if its line fits. *)

Fits(name, size) == Length[name.family] + 1 <= size

\* Mutant of Read: the name is erased before it is known to fit.
ReadErasesFirst(h, size) ==
    /\ IsOpen(h) /\ resolved_names[h] # <<>>
    /\ resolved_names' = [resolved_names EXCEPT ![h] = Tail(@)]
    /\ told' = IF Fits(Head(resolved_names[h]), size)
               THEN [told EXCEPT ![h] = Append(@, Head(resolved_names[h]))] ELSE told
    /\ UNCHANGED request

Read(h, size) ==
    /\ IsOpen(h) /\ resolved_names[h] # <<>>
    /\ Fits(Head(resolved_names[h]), size)
    /\ told' = [told EXCEPT ![h] = Append(@, Head(resolved_names[h]))]
    /\ resolved_names' = [resolved_names EXCEPT ![h] = Tail(@)]
    /\ UNCHANGED request

\* the end of the names, or -ENAMETOOLONG
ReadNothing(h, size) ==
    /\ IsOpen(h)
    /\ resolved_names[h] # <<>> => ~Fits(Head(resolved_names[h]), size)
    /\ UNCHANGED vars

----------------------------------------------------------------------------
Next ==
    \E h \in Handles :
        \/ Open(h)
        \/ Release(h)
        \/ \E text \in Writes :
              \/ Write(h, text)
              \/ WriteUnknown(h, text)
              \/ LookupFails(h, text)
              \/ WriteRefused(h, text)
        \/ \E size \in Sizes : Read(h, size) \/ ReadNothing(h, size)

Spec == Init /\ [][Next]_vars

----------------------------------------------------------------------------
(* Properties. *)

(* What a program reads, and what it still will, is the answer to its last request,
   each address once and in order: no name of an earlier request, none lost to a
   buffer that was too small or to a write that was refused (resolver_op::write and
   read).  When the lookup threw, it is the beginning of the answer. *)
AnswerInOrder ==
    \A h \in Handles : IsOpen(h) =>
        LET all == told[h] \o resolved_names[h]
        IN  /\ IsPrefix(all, request[h].found)
            /\ request[h].granted => all = request[h].found

Idle == \A h \in Handles : ~IsOpen(h)

(* The parser takes every text as it was written (ParsedAsWritten, of
   request_parser::parse).  It keeps nothing from one request to the next, so it is
   enough to ask this while no file is open. *)
CommandsUnderstood == Idle => ParsedAsWritten

(* ... and its arguments (ArgumentsSplit, of request_parser::get_args). *)
ArgumentsUnderstood == Idle => ArgumentsSplit
=============================================================================
