---------------------------- MODULE RequestParser ----------------------------
(***************************************************************************)
(* The requests that programs write to ctl, dns and modules: a word, and   *)
(* after blanks the arguments, which commas separate.                      *)
(*                                                                         *)
(* A text is a sequence of pieces: a blank, a comma, a newline, another    *)
(* character, or a run of characters that \w and '.' match.  Xpressive     *)
(* (external) takes the first alternative that matches as a whole, and in  *)
(* it the longest of each repetition, from left to right.                  *)
(***************************************************************************)
EXTENDS Naturals, Sequences, SequencesExt, Subsequences

CONSTANTS
    Words,        \* the runs of word characters
    Texts,        \* bound: the texts that are parsed
    NotARequest   \* parse returned false

Blanks == {" ", "\t"}

ASSUME PiecesAssumption ==
    /\ Words \intersect (Blanks \union {",", "\n"}) = {}
    /\ \A s \in Texts : s \in Seq(Range(s))

\* s[i .. j] is made of pieces of P, or of others
Only(s, i, j, P) == \A k \in i .. j : s[k] \in P
Without(s, i, j, P) == \A k \in i .. j : s[k] \notin P

\* every way to match the first alternative of request_: where the word, the blanks
\* and the arguments end
WithArgs(s) ==
    {m \in [command : DOMAIN s, delim : DOMAIN s, args : DOMAIN s] :
        /\ m.command < m.delim /\ m.delim < m.args
        /\ Only(s, 1, m.command, Words)
        /\ Only(s, m.command + 1, m.delim, Blanks)
        /\ Without(s, m.delim + 1, m.args, {"\n"})
        /\ Only(s, m.args + 1, Len(s), {"\n"})}

\* ... and the second, a word alone
WordAlone(s) ==
    {n \in DOMAIN s : Only(s, 1, n, Words) /\ Only(s, n + 1, Len(s), {"\n"})}

\* Mutant of Preferred: the blanks are matched by *? instead of +.
PreferredReluctant(ms) ==
    CHOOSE m \in ms : \A o \in ms : m.delim <= o.delim

Preferred(ms) ==
    CHOOSE m \in ms : \A o \in ms :
        \/ m.command > o.command
        \/ m.command = o.command /\ m.delim > o.delim
        \/ m.command = o.command /\ m.delim = o.delim /\ m.args >= o.args

\* request_parser::parse
Parse(s) ==
    IF WithArgs(s) # {}
    THEN LET m == Preferred(WithArgs(s))
         IN  [command |-> SubSeq(s, 1, m.command), args |-> SubSeq(s, m.delim + 1, m.args)]
    ELSE IF WordAlone(s) # {}
    THEN LET n == CHOOSE n \in WordAlone(s) : \A o \in WordAlone(s) : n >= o
         IN  [command |-> SubSeq(s, 1, n), args |-> <<>>]
    ELSE NotARequest

\* the commas of a text
Commas(args) == {i \in DOMAIN args : args[i] = ","}

\* the texts between the positions of K
Between(args, K) ==
    LET ends == Picked([i \in 1 .. Len(args) + 1 |-> i], K)
        begin(k) == IF k = 1 THEN 1 ELSE ends[k - 1] + 1
    IN  [k \in DOMAIN ends |-> SubSeq(args, begin(k), ends[k] - 1)]

\* Mutant of Fields: the text after the last comma is a field, empty or not.
FieldsWithEmptyLast(args) == Between(args, Commas(args) \union {Len(args) + 1})

\* sregex_token_iterator with -1 (external): what is between the commas, and after the
\* last one if there is something
Fields(args) ==
    Between(args, Commas(args) \union
                  (IF Len(args) \in Commas(args) THEN {} ELSE {Len(args) + 1}))

\* request_parser::get_args with its default for an argument, ".*": every field
GetArgs(args) == IF args = <<>> THEN <<>> ELSE Fields(args)

-----------------------------------------------------------------------------
(* Properties *)

\* the longest beginning of s that is made of pieces of P
Lead(s, P) ==
    SubSeq(s, 1, CHOOSE n \in 0 .. Len(s) :
                    /\ Only(s, 1, n, P)
                    /\ n < Len(s) => s[n + 1] \notin P)

After(s, t) == SubSeq(s, Len(t) + 1, Len(s))

\* What a request is for whoever writes one (request_parser::parse): newlines at the
\* end do not count, and there are none elsewhere; the command is the whole first word;
\* blanks before the arguments do not count, except that of blanks alone the last one
\* is the argument; a single blank after the command is an error.
ParsedAsWritten ==
    \A s \in Texts :
        LET line == Reverse(After(Reverse(s), Lead(Reverse(s), {"\n"})))
            word == Lead(line, Words)
            rest == After(line, word)
            args == After(rest, Lead(rest, Blanks))
        IN  Parse(s) =
                IF \/ word = <<>>
                   \/ rest # <<>> /\ (Head(rest) \notin Blanks \/ Len(rest) = 1)
                   \/ Contains(rest, "\n")
                THEN NotARequest
                ELSE [command |-> word,
                      args |-> IF rest # <<>> /\ args = <<>> THEN <<Last(rest)>> ELSE args]

\* The arguments are the pieces between commas: put together again with commas they
\* are the text, without the comma that ends it (request_parser::get_args).
ArgumentsSplit ==
    \A s \in Texts : Parse(s) # NotARequest /\ Parse(s).args # <<>> =>
        LET args == Parse(s).args
            fields == GetArgs(args)
        IN  /\ FlattenSeq([k \in DOMAIN fields |->
                   IF k = 1 THEN fields[k] ELSE <<",">> \o fields[k]])
               = (IF Last(args) = "," THEN Front(args) ELSE args)
            /\ \A k \in DOMAIN fields : ~Contains(fields[k], ",")
=============================================================================
