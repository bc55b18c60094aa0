-------------------------- MODULE PolledFilesProofs --------------------------
(* Proofs about PolledFiles, for every set of threads, of poll handles and *)
(* of handles.                                                             *)
EXTENDS PolledFiles, TLAPS

USE DEF ThreadsAssumption, MaxHandleAssumption, PollerAssumption, PollableAssumption
USE ThreadsAssumption, MaxHandleAssumption, PollerAssumption, PollableAssumption

LEMMA HandlesArePositive == NoHandle \notin Handle
BY DEF NoHandle, Handle

LEMMA TypeInit == Init => TypeOK
<1> SUFFICES ASSUME Init PROVE TypeOK
  OBVIOUS
<1> USE DEF Init, HandleManagerInit, PollerInit
<1>1. /\ file \in [Threads -> Handle \union {NoHandle}]
      /\ cursor \in Handle \union {NoHandle}
      /\ mtx \in Threads \union {NoThread}
  OBVIOUS
<1>2. /\ ph \in [Handle -> PollHandles \union {NoPh}]
      /\ newph \in [Threads -> PollHandles \union {NoPh}]
  OBVIOUS
<1> QED BY <1>1, <1>2 DEF TypeOK

LEMMA IndInvStep == IndInv /\ [Next]_vars => IndInv'
<1> SUFFICES ASSUME IndInv, [Next]_vars PROVE IndInv'
  OBVIOUS
<1> USE HandlesArePositive
    DEF IndInv, TypeOK, RequestsHaveEntries, CloseComesLast, CursorIsPolled,
        PollHandlesPlaced, PollHandlesOwned, WaitersArmed,
        handleVars, pollerVars, requestVars
<1>1. ASSUME NEW w \in Threads, OpenBegin(w) PROVE IndInv'
  BY <1>1 DEF OpenBegin, Acquire, Goto
<1>2. ASSUME NEW w \in Threads, OpenRegister(w) PROVE IndInv'
  <2>1. PICK h \in Handle : RegisterOp(w, h) /\ file' = [file EXCEPT ![w] = h]
    BY <1>2 DEF OpenRegister
  <2> USE <1>2, <2>1 DEF OpenRegister, RegisterOp, Goto
  <2>2. \A v \in Threads : file[v] # h
    BY <2>1
  <2>3. TypeOK' /\ CursorIsPolled' /\ PollHandlesPlaced' /\ PollHandlesOwned'
    BY <2>1
  <2>4. RequestsHaveEntries'
    BY <2>1, <2>2
  <2>5. CloseComesLast'
    BY <2>1, <2>2
  <2>6. WaitersArmed'
    BY <2>2
  <2> QED BY <2>3, <2>4, <2>5, <2>6
<1>3. ASSUME NEW w \in Threads, OpenLookup(w) PROVE IndInv'
  BY <1>3 DEF OpenLookup, Goto
<1>4. ASSUME NEW w \in Threads, OpenSucceeds(w) PROVE IndInv'
  <2> USE <1>4 DEF OpenSucceeds, Reply
  <2>7. file[w] \in Handle
    OBVIOUS
  <2>8. opened' \subseteq Handle /\ woken' \subseteq Threads
    BY <2>7
  <2>9. /\ file' \in [Threads -> Handle \union {NoHandle}]
        /\ newph' \in [Threads -> PollHandles \union {NoPh}]
        /\ at' = [at EXCEPT ![w] = "idle"]
    OBVIOUS
  <2>1. TypeOK'
    BY <2>8, <2>9
  <2>5. /\ mtx # w
        /\ file[w] \in ops
        /\ UNCHANGED <<ops, mtx, polled>>
    OBVIOUS
  <2>6. /\ at'[w] = "idle" /\ file'[w] = NoHandle
        /\ \A v \in Threads \ {w} : at'[v] = at[v] /\ file'[v] = file[v]
    OBVIOUS
  <2>4. RequestsHaveEntries'
    <3>1. \A v \in Threads :
             /\ at'[v] \in {"idle", "open_register"} <=> file'[v] = NoHandle
             /\ file'[v] # NoHandle => file'[v] \in ops'
             /\ mtx' = v <=> at'[v] \in {"open_register", "erase"}
      BY <2>5, <2>6
    <3>2. opened' \subseteq ops' /\ polled' \subseteq ops'
      BY <2>5
    <3> QED BY <3>1, <3>2
  <2>2. CloseComesLast'
    BY <2>5, <2>6
  <2>3. CursorIsPolled' /\ PollHandlesPlaced' /\ PollHandlesOwned' /\ WaitersArmed'
    OBVIOUS
  <2> QED BY <2>1, <2>2, <2>3, <2>4
<1>5. ASSUME NEW w \in Threads, OpenFails(w) PROVE IndInv'
  BY <1>5 DEF OpenFails, Goto
<1>6. ASSUME NEW w \in Threads, EraseBegin(w) PROVE IndInv'
  BY <1>6 DEF EraseBegin, Acquire, Goto
<1>7. ASSUME NEW w \in Threads, EraseEnd(w) PROVE IndInv'
  <2> USE <1>7 DEF EraseEnd, UnregisterOp, Reply
  <2>1. TypeOK'
    OBVIOUS
  <2>5. /\ mtx = w /\ mtx' = NoThread
        /\ ops' = ops \ {file[w]}
        /\ file[w] \notin opened /\ file[w] \notin polled
        /\ \A v \in Threads \ {w} : file[v] # file[w]
        /\ UNCHANGED <<polled, opened>>
    OBVIOUS
  <2>6. /\ at'[w] = "idle" /\ file'[w] = NoHandle
        /\ \A v \in Threads \ {w} : at'[v] = at[v] /\ file'[v] = file[v]
    OBVIOUS
  <2>4. RequestsHaveEntries'
    <3>1. \A v \in Threads :
             /\ at'[v] \in {"idle", "open_register"} <=> file'[v] = NoHandle
             /\ file'[v] # NoHandle => file'[v] \in ops'
             /\ mtx' = v <=> at'[v] \in {"open_register", "erase"}
      BY <2>5, <2>6
    <3>2. opened' \subseteq ops' /\ polled' \subseteq ops'
      BY <2>5
    <3> QED BY <3>1, <3>2
  <2>2. CloseComesLast'
    BY <2>5, <2>6
  <2>3. CursorIsPolled' /\ PollHandlesPlaced' /\ PollHandlesOwned' /\ WaitersArmed'
    OBVIOUS
  <2> QED BY <2>1, <2>2, <2>3, <2>4
<1>8. ASSUME NEW w \in Threads, NEW h \in Handle, AccessBegin(w, h) PROVE IndInv'
  BY <1>8 DEF AccessBegin, Serve, Goto
<1>9. ASSUME NEW w \in Threads, AccessEnd(w) PROVE IndInv'
  <2> USE <1>9 DEF AccessEnd, Reply
  <2>1. TypeOK'
    OBVIOUS
  <2>5. /\ mtx # w
        /\ UNCHANGED <<ops, mtx, polled, opened>>
    OBVIOUS
  <2>6. /\ at'[w] = "idle" /\ file'[w] = NoHandle
        /\ \A v \in Threads \ {w} : at'[v] = at[v] /\ file'[v] = file[v]
    OBVIOUS
  <2>4. RequestsHaveEntries'
    <3>1. \A v \in Threads :
             /\ at'[v] \in {"idle", "open_register"} <=> file'[v] = NoHandle
             /\ file'[v] # NoHandle => file'[v] \in ops'
             /\ mtx' = v <=> at'[v] \in {"open_register", "erase"}
      BY <2>5, <2>6
    <3>2. opened' \subseteq ops' /\ polled' \subseteq ops'
      BY <2>5
    <3> QED BY <3>1, <3>2
  <2>2. CloseComesLast'
    BY <2>5, <2>6
  <2>3. CursorIsPolled' /\ PollHandlesPlaced' /\ PollHandlesOwned' /\ WaitersArmed'
    OBVIOUS
  <2> QED BY <2>1, <2>2, <2>3, <2>4
<1>10. ASSUME NEW w \in Threads, NEW h \in Handle, CloseBegin(w, h) PROVE IndInv'
  BY <1>10 DEF CloseBegin, Serve, Serving, Goto, LookupFinds
<1>11. ASSUME NEW w \in Threads, NEW h \in Handle, CloseThrows(w, h) PROVE IndInv'
  BY <1>11 DEF CloseThrows, Serving
<1>12. ASSUME NEW w \in Threads, CloseRelease(w) PROVE IndInv'
  <2> USE <1>12 DEF CloseRelease, Goto
  <2>1. TypeOK' /\ CursorIsPolled'
    OBVIOUS
  <2>2. RequestsHaveEntries'
    OBVIOUS
  <2>3. CloseComesLast'
    OBVIOUS
  <2>4. PollHandlesPlaced' /\ PollHandlesOwned' /\ WaitersArmed'
    OBVIOUS
  <2> QED BY <2>1, <2>2, <2>3, <2>4
<1>13. ASSUME NEW w \in Threads, CloseUnpoll(w) PROVE IndInv'
  <2> USE <1>13 DEF CloseUnpoll, Unregister, Unlocked, Goto
  <2>1. TypeOK' /\ CursorIsPolled'
    OBVIOUS
  <2>5. /\ at[w] = "close_unpoll" /\ at'[w] = "close_forget"
        /\ \A v \in Threads \ {w} : at'[v] = at[v]
        /\ polled' = polled \ {file[w]}
        /\ UNCHANGED <<handleVars, file, opened>>
    OBVIOUS
  <2>2. RequestsHaveEntries' /\ CloseComesLast'
    <3>1. RequestsHaveEntries'
      BY <2>5
    <3>2. CloseComesLast'
      BY <2>5
    <3> QED BY <3>1, <3>2
  <2>3. PollHandlesPlaced' /\ PollHandlesOwned'
    OBVIOUS
  <2>4. WaitersArmed'
    OBVIOUS
  <2> QED BY <2>1, <2>2, <2>3, <2>4
<1>14. ASSUME NEW w \in Threads, NEW h \in Handle, NEW p \in PollHandles, PollBegin(w, h, p) PROVE IndInv'
  BY <1>14 DEF PollBegin, Fresh, Serve, Goto
<1>15. ASSUME NEW w \in Threads, NEW h \in Handle, PollOnce(w, h) PROVE IndInv'
  BY <1>15 DEF PollOnce
<1>16. ASSUME NEW w \in Threads, PollRegister(w) PROVE IndInv'
  <2> USE <1>16 DEF PollRegister, RegisterNew, Unlocked, Goto
  <2>1. file[w] \in Handle /\ file[w] \in opened /\ file[w] \in ops
    OBVIOUS
  <2>2. TypeOK' /\ CloseComesLast' /\ CursorIsPolled'
    BY <2>1
  <2>3. RequestsHaveEntries'
    <3>1. polled' \subseteq ops'
      BY <2>1
    <3>2. /\ at[w] = "poll_register" /\ at'[w] = "poll_status"
          /\ \A v \in Threads \ {w} : at'[v] = at[v]
          /\ UNCHANGED <<handleVars, file, opened>>
      OBVIOUS
    <3> QED BY <3>1, <3>2
  <2>4. PollHandlesPlaced'
    BY <2>1
  <2>7. /\ newph[w] # NoPh
        /\ \A h \in Handle : ph[h] # newph[w]
        /\ \A v \in Threads \ {w} : newph[v] # newph[w] /\ newph'[v] = newph[v]
        /\ newph'[w] = NoPh
        /\ live' = live \ {ph[file[w]]}
        /\ ph'[file[w]] = newph[w]
        /\ \A h \in Handle \ {file[w]} : ph'[h] = ph[h]
    BY <2>1
  <2>6. PollHandlesOwned'
    <3>5. newph[w] \in live /\ ph[file[w]] # newph[w]
      BY <2>1, <2>7
    <3>6. ASSUME NEW h \in Handle, ph'[h] # NoPh PROVE ph'[h] \in live'
      <4>1. CASE h = file[w]
        BY <3>5, <4>1, <2>7
      <4>2. CASE h # file[w]
        <5>1. ph'[h] = ph[h] /\ ph[h] # NoPh
          BY <3>6, <4>2, <2>7
        <5>2. ph[h] \in live
          BY <5>1
        <5>3. ph[h] # ph[file[w]]
          BY <5>1, <4>2, <2>1
        <5> QED BY <5>1, <5>2, <5>3, <2>7
      <4> QED BY <4>1, <4>2
    <3>7. ASSUME NEW v \in Threads, newph'[v] # NoPh PROVE newph'[v] \in live'
      <4>1. v # w /\ newph'[v] = newph[v] /\ newph[v] # NoPh
        BY <3>7, <2>7
      <4>2. newph[v] \in live
        BY <4>1
      <4>3. newph[v] # ph[file[w]]
        BY <4>1, <2>1
      <4> QED BY <4>1, <4>2, <4>3, <2>7
    <3>2. ASSUME NEW h \in Handle, NEW g \in Handle, ph'[h] = ph'[g], ph'[h] # NoPh
          PROVE  h = g
      <4>1. CASE h = file[w] \/ g = file[w]
        BY <3>2, <4>1, <2>7
      <4>2. CASE h # file[w] /\ g # file[w]
        <5>1. ph[h] = ph[g] /\ ph[h] # NoPh
          BY <3>2, <4>2, <2>7
        <5> QED BY <5>1
      <4> QED BY <4>1, <4>2
    <3>3. \A v, u \in Threads : newph'[v] = newph'[u] /\ newph'[v] # NoPh => v = u
      BY <2>7
    <3>4. ASSUME NEW h \in Handle, NEW v \in Threads, ph'[h] = newph'[v]
          PROVE  ph'[h] = NoPh
      <4>1. CASE v = w
        BY <3>4, <4>1, <2>7
      <4>2. CASE v # w /\ h = file[w]
        BY <3>4, <4>2, <2>7
      <4>3. CASE v # w /\ h # file[w]
        BY <3>4, <4>3, <2>7
      <4> QED BY <4>1, <4>2, <4>3
    <3> QED BY <3>2, <3>3, <3>4, <3>6, <3>7
  <2>5. WaitersArmed'
    BY <2>1
  <2> QED BY <2>2, <2>3, <2>4, <2>5, <2>6
<1>17. ASSUME NEW w \in Threads, PollStatus(w) PROVE IndInv'
  BY <1>17 DEF PollStatus, Reply, Goto
<1>18. ASSUME NEW w \in Threads, NEW p \in PollHandles, PollAgain(w, p) PROVE IndInv'
  BY <1>18 DEF PollAgain, Fresh, Goto
<1>19. ASSUME NEW w \in Threads, PollGivesUp(w) PROVE IndInv'
  BY <1>19 DEF PollGivesUp, Reply
<1>20. CASE RoundStep
  <2>1. CASE RoundBegin
    BY <1>20, <2>1 DEF RoundStep, RoundBegin
  <2>2. ASSUME NEW h \in Handle, Visit(h) PROVE IndInv'
    BY <1>20, <2>2 DEF RoundStep, Visit
  <2>3. ASSUME NEW h \in Handle, VisitThrows(h) PROVE IndInv'
    BY <1>20, <2>3 DEF RoundStep, VisitThrows
  <2>4. CASE Ask(ready \intersect Pollable)
    <3> USE <1>20, <2>4 DEF RoundStep, Ask
    <3>1. CASE cursor \in ready \intersect Pollable
      <4>1. mask' = mask \union {cursor} /\ pat' = "notify" /\ cursor' = cursor
        BY <3>1
      <4> QED BY <3>1, <4>1
    <3>2. CASE cursor \notin ready \intersect Pollable
      <4>1. mask' = mask /\ pat' = "scan" /\ cursor' = NoHandle
        BY <3>2
      <4> QED BY <3>2, <4>1
    <3> QED BY <3>1, <3>2
  <2>5. CASE RoundEnd
    BY <1>20, <2>5 DEF RoundStep, RoundEnd
  <2> QED BY <1>20, <2>1, <2>2, <2>3, <2>4, <2>5 DEF RoundStep
<1>21. CASE PollerWakes
  BY <1>21 DEF PollerWakes, Notify, Notified
<1>22. ASSUME NEW h \in Handle, InputArrives(h) PROVE IndInv'
  BY <1>22 DEF InputArrives
<1>23. CASE UNCHANGED vars
  BY <1>23 DEF vars
<1> QED
  BY <1>1, <1>2, <1>3, <1>4, <1>5, <1>6, <1>7, <1>8, <1>9, <1>10, <1>11, <1>12,
     <1>13, <1>14, <1>15, <1>16, <1>17, <1>18, <1>19, <1>20, <1>21, <1>22, <1>23
  DEF Next, PollerStep, WorkerStep, CallerStep

LEMMA IndInvInit == Init => IndInv
<1> SUFFICES ASSUME Init PROVE IndInv
  OBVIOUS
<1>1. TypeOK
  BY TypeInit
<1>2. \A t \in Threads : mtx # t
  BY DEF Init, HandleManagerInit
<1> QED
  BY <1>1, <1>2 DEF IndInv, Init, HandleManagerInit, PollerInit,
         RequestsHaveEntries, CloseComesLast,
    CursorIsPolled, PollHandlesPlaced, PollHandlesOwned, WaitersArmed

LEMMA IndInvHolds == Spec => []IndInv
BY IndInvInit, IndInvStep, PTL DEF Spec

(* Every reachable state is well typed.                                    *)
THEOREM TypeCorrect == Spec => []TypeOK
<1>1. IndInv => TypeOK
  BY DEF IndInv
<1> QED BY <1>1, IndInvHolds, PTL

(* No thread calls through a handle table entry that was erased: the lists *)
(* of close and of the polling thread are kept in the right order.         *)
THEOREM NoDanglingOpHolds == Spec => []NoDanglingOp
<1>1. IndInv => NoDanglingOp
  BY HandlesArePositive DEF IndInv, NoDanglingOp, TypeOK, RequestsHaveEntries,
         CursorIsPolled
<1> QED BY <1>1, IndInvHolds, PTL

(* No poll handle is used after it was destroyed, or destroyed twice.      *)
THEOREM PollHandlesOwnedHolds == Spec => []PollHandlesOwned
<1>1. IndInv => PollHandlesOwned
  BY DEF IndInv
<1> QED BY <1>1, IndInvHolds, PTL

(* Whoever sleeps in poll(2) has a notification to come.                   *)
THEOREM NoLostWaiterHolds == Spec => []NoLostWaiter
<1>1. IndInv => NoLostWaiter
  BY DEF IndInv, WaitersArmed, NoLostWaiter
<1> QED BY <1>1, IndInvHolds, PTL

(* A table entry loses the last file or request it belongs to only when it *)
(* is erased, or when the lookup of close meets another thread's change.   *)
LEMMA LeakStep ==
    ASSUME IndInv, [Next]_vars, mtx = NoThread,
           NEW h \in Handle, h \in ops, h \in ops', Owned(h)
    PROVE  Owned(h)'
<1> USE HandlesArePositive
    DEF IndInv, TypeOK, RequestsHaveEntries, CloseComesLast, Owned, Serving,
        handleVars, pollerVars, requestVars
<1>1. ASSUME NEW w \in Threads, OpenBegin(w) PROVE Owned(h)'
  BY <1>1 DEF OpenBegin, Goto
<1>2. ASSUME NEW w \in Threads, OpenRegister(w) \/ EraseEnd(w) PROVE FALSE
  BY <1>2 DEF OpenRegister, RegisterOp, EraseEnd, UnregisterOp
<1>3. ASSUME NEW w \in Threads,
             OpenLookup(w) \/ OpenFails(w) \/ EraseBegin(w) \/ CloseRelease(w)
                 \/ CloseUnpoll(w) \/ PollRegister(w)
                 \/ \E p \in PollHandles : PollAgain(w, p)
      PROVE  Owned(h)'
  BY <1>3 DEF OpenLookup, OpenFails, EraseBegin, CloseRelease, CloseUnpoll,
    PollRegister, PollAgain, Goto
<1>4. ASSUME NEW w \in Threads, OpenSucceeds(w) PROVE Owned(h)'
  BY <1>4 DEF OpenSucceeds, Reply
<1>5. ASSUME NEW w \in Threads, AccessEnd(w) \/ PollStatus(w) \/ PollGivesUp(w)
      PROVE  Owned(h)'
  <2>1. file[w] \in opened /\ opened' = opened
    BY <1>5 DEF AccessEnd, PollStatus, PollGivesUp
  <2>2. \A v \in Threads \ {w} : file'[v] = file[v]
    BY <1>5 DEF AccessEnd, PollStatus, PollGivesUp, Reply
  <2> QED BY <2>1, <2>2
<1>6. ASSUME NEW w \in Threads, NEW g \in Handle, AccessBegin(w, g) PROVE Owned(h)'
  BY <1>6 DEF AccessBegin, Serve, Goto
<1>7. ASSUME NEW w \in Threads, NEW g \in Handle, CloseBegin(w, g) PROVE Owned(h)'
  BY <1>7 DEF CloseBegin, Serve, Goto
<1>8. ASSUME NEW w \in Threads, NEW g \in Handle, CloseThrows(w, g) PROVE Owned(h)'
  BY <1>8 DEF CloseThrows, LookupThrows
<1>9. ASSUME NEW w \in Threads, NEW g \in Handle, PollOnce(w, g) PROVE Owned(h)'
  BY <1>9 DEF PollOnce
<1>10. ASSUME NEW w \in Threads, NEW g \in Handle, NEW p \in PollHandles,
              PollBegin(w, g, p)
       PROVE  Owned(h)'
  BY <1>10 DEF PollBegin, Serve, Goto
<1>11. CASE PollerStep
  BY <1>11 DEF PollerStep, RoundStep, PollerWakes
<1>12. ASSUME NEW g \in Handle, InputArrives(g) PROVE Owned(h)'
  BY <1>12 DEF InputArrives
<1>13. CASE UNCHANGED vars
  BY <1>13 DEF vars
<1> QED
  BY <1>1, <1>2, <1>3, <1>4, <1>5, <1>6, <1>7, <1>8, <1>9, <1>10, <1>11, <1>12,
     <1>13
  DEF Next, WorkerStep, CallerStep

(* The handle table forgets every file that is closed, but for the close   *)
(* whose lookup runs into another thread's change of the table.            *)
THEOREM NoLeakedEntryHolds == Spec => NoLeakedEntry
<1>1. IndInv /\ [Next]_vars =>
        [\A h \in ops : Owned(h) /\ h \in ops' /\ ~Owned(h)' => mtx # NoThread]_vars
  BY LeakStep DEF IndInv, TypeOK
<1> QED BY <1>1, IndInvHolds, PTL DEF Spec, NoLeakedEntry

-----------------------------------------------------------------------------
(* Refinement of PollContract. *)

LEMMA ContractInit == Init => Contract!Init
BY DEF Init, HandleManagerInit, PollerInit, Contract!Init

LEMMA ContractStep == IndInv /\ [Next]_vars => [Contract!Next]_(Contract!vars)
<1> SUFFICES ASSUME IndInv, [Next]_vars
             PROVE Contract!Next \/ UNCHANGED Contract!vars
  OBVIOUS
<1> USE HandlesArePositive
    DEF IndInv, TypeOK, RequestsHaveEntries, CloseComesLast,
        handleVars, pollerVars, requestVars, Contract!vars
<1>1. ASSUME NEW w \in Threads, OpenBegin(w) PROVE UNCHANGED Contract!vars
  BY <1>1 DEF OpenBegin, Goto
<1>2. ASSUME NEW w \in Threads, OpenRegister(w) PROVE UNCHANGED Contract!vars
  BY <1>2 DEF OpenRegister, Goto
<1>3. ASSUME NEW w \in Threads, OpenLookup(w) \/ OpenFails(w) PROVE UNCHANGED Contract!vars
  BY <1>3 DEF OpenLookup, OpenFails, Goto
<1>4. ASSUME NEW w \in Threads, OpenSucceeds(w) PROVE Contract!Open(file[w])
  BY <1>4 DEF OpenSucceeds, Reply, Contract!Open, PollHandlesPlaced
<1>5. ASSUME NEW w \in Threads, EraseBegin(w) PROVE UNCHANGED Contract!vars
  BY <1>5 DEF EraseBegin, Goto
<1>6. ASSUME NEW w \in Threads, EraseEnd(w) PROVE UNCHANGED Contract!vars
  BY <1>6 DEF EraseEnd, Reply, PollHandlesPlaced
<1>7. ASSUME NEW w \in Threads, NEW h \in Handle, AccessBegin(w, h) PROVE UNCHANGED Contract!vars
  BY <1>7 DEF AccessBegin, Serve, Goto
<1>8. ASSUME NEW w \in Threads, AccessEnd(w)
      PROVE Contract!InputGoes(file[w]) \/ UNCHANGED Contract!vars
  BY <1>8 DEF AccessEnd, Reply, Contract!InputGoes, PollHandlesPlaced
<1>9. ASSUME NEW w \in Threads, NEW h \in Handle, CloseBegin(w, h) PROVE Contract!Close(h)
  BY <1>9 DEF CloseBegin, Serve, Serving, Goto, Contract!Close, Contract!CallersOf
<1>10. ASSUME NEW w \in Threads, NEW h \in Handle, CloseThrows(w, h) PROVE Contract!Close(h)
  BY <1>10 DEF CloseThrows, Serving, Contract!Close, Contract!CallersOf
<1>11. ASSUME NEW w \in Threads, CloseRelease(w) PROVE Contract!InputGoes(file[w])
  BY <1>11 DEF CloseRelease, Goto, Contract!InputGoes
<1>12. ASSUME NEW w \in Threads, CloseUnpoll(w) PROVE UNCHANGED Contract!vars
  BY <1>12 DEF CloseUnpoll, Unregister, Goto
<1>13. ASSUME NEW w \in Threads, NEW h \in Handle, NEW p \in PollHandles, PollBegin(w, h, p)
       PROVE Contract!Ask(w, h)
  BY <1>13 DEF PollBegin, Serve, Goto, Contract!Ask
<1>14. ASSUME NEW w \in Threads, NEW h \in Handle, PollOnce(w, h) PROVE UNCHANGED Contract!vars
  BY <1>14 DEF PollOnce
<1>15. ASSUME NEW w \in Threads, PollRegister(w) PROVE UNCHANGED Contract!vars
  BY <1>15 DEF PollRegister, RegisterNew, Goto
<1>16. ASSUME NEW w \in Threads, PollStatus(w) PROVE Contract!Leave(w) \/ Contract!Sleep(w)
  <2>1. CASE Status(file[w])
    <3>1. /\ at[w] = "poll_status" /\ at' = [at EXCEPT ![w] = "idle"]
          /\ file[w] \in Handle
          /\ file' = [file EXCEPT ![w] = NoHandle]
          /\ woken' = woken \ {w}
          /\ UNCHANGED <<opened, ready, pat, cursor>>
      BY <1>16, <2>1 DEF PollStatus, Reply
    <3> QED BY <3>1 DEF Contract!Leave
  <2>2. CASE ~Status(file[w])
    <3>1. Contract!Sleep(w)
      BY <1>16, <2>2 DEF PollStatus, Goto, Contract!Sleep
    <3> QED BY <3>1
  <2> QED BY <2>1, <2>2
<1>17. ASSUME NEW w \in Threads, NEW p \in PollHandles, PollAgain(w, p) PROVE Contract!AskAgain(w)
  BY <1>17 DEF PollAgain, Goto, Contract!AskAgain
<1>18. ASSUME NEW w \in Threads, PollGivesUp(w) PROVE Contract!Leave(w)
  BY <1>18 DEF PollGivesUp, Reply, Contract!Leave
<1>19. CASE RoundStep
  <2>1. ASSUME RoundBegin \/ RoundEnd \/ \E h \in Handle : Visit(h) \/ VisitThrows(h)
        PROVE UNCHANGED Contract!vars
    BY <1>19, <2>1 DEF RoundStep, RoundBegin, RoundEnd, Visit, VisitThrows
  <2>2. CASE Ask(ready \intersect Pollable)
    <3>1. CASE cursor \in ready \intersect Pollable
      <4>1. Contract!See(cursor)
        BY <1>19, <2>2, <3>1 DEF RoundStep, Ask, Contract!See
      <4> QED BY <3>1, <4>1 DEF Contract!Next
    <3>2. CASE cursor \notin ready \intersect Pollable
      BY <1>19, <2>2, <3>2 DEF RoundStep, Ask
    <3> QED BY <3>1, <3>2
  <2> QED BY <1>19, <2>1, <2>2 DEF RoundStep
<1>20. CASE PollerWakes
  <2>1. cursor \in Handle
    BY <1>20 DEF PollerWakes, Notify, CursorIsPolled
  <2>2. \A w \in Threads : file[w] = cursor /\ at[w] = "asleep" => w \in woken'
    BY <1>20, <2>1 DEF PollerWakes, Notify, Notified, WaitersArmed
  <2>3. Contract!Wake(cursor)
    BY <1>20, <2>1, <2>2 DEF PollerWakes, Notify, Notified, Contract!Wake,
           Contract!CallersOf
  <2> QED BY <2>1, <2>3 DEF Contract!Next
<1>21. ASSUME NEW h \in Handle, InputArrives(h) PROVE Contract!InputComes(h)
  BY <1>21 DEF InputArrives, Contract!InputComes
<1>22. CASE UNCHANGED vars
  BY <1>22 DEF vars
<1>23. ASSUME NEW w \in Threads, WorkerStep(w) PROVE Contract!Next \/ UNCHANGED Contract!vars
  <2>1. at[w] \notin {"idle", "open_register"} => file[w] \in Handle
    OBVIOUS
  <2>2. OpenSucceeds(w) \/ CloseRelease(w) \/ AccessEnd(w) => file[w] \in Handle
    BY <2>1 DEF OpenSucceeds, CloseRelease, AccessEnd
  <2> QED
    BY <1>23, <2>2, <1>2, <1>3, <1>4, <1>5, <1>6, <1>8, <1>11, <1>12, <1>15, <1>16,
       <1>17
    DEF WorkerStep, Contract!Next
<1>24. ASSUME NEW w \in Threads, CallerStep(w) PROVE Contract!Next \/ UNCHANGED Contract!vars
  BY <1>24, <1>1, <1>7, <1>9, <1>10, <1>13, <1>14, <1>18
     DEF CallerStep, Contract!Next
<1>25. (\E h \in Handle : InputArrives(h)) => Contract!Next
  BY <1>21 DEF Contract!Next
<1> QED
  BY <1>19, <1>20, <1>22, <1>23, <1>24, <1>25 DEF Next, PollerStep

(* The implementation keeps the contract of poll(2): no wake-up without a  *)
(* sighting of input, and none that leaves a sleeper of the file behind.   *)
THEOREM Refinement == Spec => KeepsContract
BY ContractInit, ContractStep, IndInvHolds, PTL
   DEF Spec, KeepsContract, Contract!Spec
=============================================================================
