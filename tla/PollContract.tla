---------------------------- MODULE PollContract ----------------------------
(***************************************************************************)
(* What poll(2) on the mounted file system promises, with the polling      *)
(* thread, its list, its lock and the poll handles abstracted away: a      *)
(* caller first asks, then sleeps; it is woken only after its file was     *)
(* seen ready; and when a file that was seen ready wakes its callers, it   *)
(* wakes every one that sleeps.  A file is not closed under a caller.      *)
(***************************************************************************)
CONSTANTS
    Callers,    \* the programs
    Files,      \* the files they may open
    NoFile      \* none of these

VARIABLES
    open,       \* the files that are open
    input,      \* the files whose device has input
    asks,       \* the file each caller polls, if any
    sleeping,   \* the callers that were told "not ready" and sleep
    due,        \* the callers that were woken and have not looked again
    seen        \* the file last seen ready, until its callers are woken

vars == <<open, input, asks, sleeping, due, seen>>

Init ==
    /\ open = {} /\ input = {}
    /\ asks = [c \in Callers |-> NoFile]
    /\ sleeping = {} /\ due = {} /\ seen = {}

CallersOf(f) == {c \in Callers : asks[c] = f}

Open(f) ==
    /\ open' = open \union {f}
    /\ UNCHANGED <<input, asks, sleeping, due, seen>>

Close(f) ==
    /\ CallersOf(f) = {}
    /\ open' = open \ {f}
    /\ UNCHANGED <<input, asks, sleeping, due, seen>>

InputComes(f) ==
    /\ f \in open
    /\ input' = input \union {f}
    /\ UNCHANGED <<open, asks, sleeping, due, seen>>

InputGoes(f) ==
    /\ input' = input \ {f}
    /\ UNCHANGED <<open, asks, sleeping, due, seen>>

Ask(c, f) ==
    /\ f \in open
    /\ asks[c] = NoFile
    /\ asks' = [asks EXCEPT ![c] = f]
    /\ UNCHANGED <<open, input, sleeping, due, seen>>

Sleep(c) ==
    /\ asks[c] # NoFile
    /\ sleeping' = sleeping \union {c}
    /\ UNCHANGED <<open, input, asks, due, seen>>

AskAgain(c) ==
    /\ c \in sleeping \intersect due
    /\ sleeping' = sleeping \ {c}
    /\ due' = due \ {c}
    /\ UNCHANGED <<open, input, asks, seen>>

Leave(c) ==
    /\ asks[c] # NoFile
    /\ asks' = [asks EXCEPT ![c] = NoFile]
    /\ sleeping' = sleeping \ {c}
    /\ due' = due \ {c}
    /\ UNCHANGED <<open, input, seen>>

See(f) ==
    /\ f \in input
    /\ seen = {}
    /\ seen' = {f}
    /\ UNCHANGED <<open, input, asks, sleeping, due>>

Wake(f) ==
    /\ f \in seen
    /\ seen' = {}
    /\ due \union (CallersOf(f) \intersect sleeping) \subseteq due'
    /\ due' \subseteq due \union CallersOf(f)
    /\ UNCHANGED <<open, input, asks, sleeping>>

Next ==
    \/ \E f \in Files :
          \/ Open(f) \/ Close(f) \/ InputComes(f) \/ InputGoes(f)
          \/ See(f) \/ Wake(f)
    \/ \E c \in Callers :
          \/ Sleep(c) \/ AskAgain(c) \/ Leave(c)
          \/ \E f \in Files : Ask(c, f)

Spec == Init /\ [][Next]_vars
=============================================================================
