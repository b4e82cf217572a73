------------------------ MODULE ServerLifecycleProofs ------------------------
(***************************************************************************)
(* Proofs about the lifecycle of DartServer: what _active_tasks counts     *)
(* through every stop, refusal and restart, and what stop leaves behind.   *)
(***************************************************************************)
EXTENDS ServerLifecycle, FiniteSetTheorems, TLAPS

Sent == {d \in Datagrams : place[d] # "unsent"}
Counted == In({"counted", "queued", "running", "cancelled"})

\* Only finitely many datagrams have been sent, so they can be counted.
FinitelySent == IsFiniteSet(Sent)

\* There is a receiver thread for each start and no other.
NotStarted == \A g \in Starts : g > starts => receiver[g] = "none"

\* A receiver between recvfrom and submit holds a datagram, no two receivers
\* hold the same one, and the datagram is where its receiver is.
HeldInPlace ==
  /\ \A g \in Starts :
       IF receiver[g] \in {"received", "counted"}
       THEN held[g] \in Datagrams /\ place[held[g]] = receiver[g]
       ELSE held[g] = NoDatagram
  /\ \A g, h \in Starts : held[g] = held[h] /\ held[g] # NoDatagram => g = h

\* After shutdown nothing is queued, and stop closes an executor only after that.
ShutdownEmpties ==
  /\ executor = "shutdown" => In({"queued"}) = {}
  /\ main = "draining" => executor # "open"

\* The inductive invariant.
IInv ==
  /\ TypeOK /\ FinitelySent /\ NotStarted /\ HeldInPlace /\ ActiveAccounting
  /\ ShutdownEmpties /\ StopDrains

LEMMA ConstantTypes ==
  /\ QuietPeriod \in Nat /\ IdleTimeout \in Nat /\ JoinTimeout \in Nat
  /\ MaxStarts \in Nat /\ MaxTime \in Nat
BY LifecycleAssumption

-----------------------------------------------------------------------------
(* Counting *)

LEMMA CountedFinite ==
  ASSUME FinitelySent
  PROVE  IsFiniteSet(Counted) /\ Cardinality(Counted) \in Nat
<1>1. Counted \subseteq Sent
  BY DEF Counted, In, Sent
<1> QED
  BY <1>1, FS_Subset, FS_CardinalityType DEF FinitelySent

LEMMA AccountingIsCount == ActiveAccounting <=> active = Cardinality(Counted)
BY DEF ActiveAccounting, Counted

\* A datagram moves between two places that are both counted, or both not.
LEMMA CountStays ==
  ASSUME FinitelySent, ActiveAccounting, active' = active,
         Sent' = Sent, Counted' = Counted
  PROVE  FinitelySent' /\ ActiveAccounting'
BY AccountingIsCount DEF FinitelySent, ActiveAccounting, Counted

\* _active_tasks += 1.
LEMMA CountUp ==
  ASSUME FinitelySent, ActiveAccounting, active' = active + 1, Sent' = Sent,
         NEW d, d \notin Counted, Counted' = Counted \cup {d}
  PROVE  FinitelySent' /\ ActiveAccounting' /\ active' \in Nat
<1>1. Cardinality(Counted') = Cardinality(Counted) + 1
  BY CountedFinite, FS_AddElement
<1> QED
  BY <1>1, CountedFinite, AccountingIsCount
     DEF FinitelySent, ActiveAccounting, Counted

\* _active_tasks -= 1.
LEMMA CountDown ==
  ASSUME FinitelySent, ActiveAccounting, active' = active - 1, Sent' = Sent,
         NEW d, d \in Counted, Counted' = Counted \ {d}
  PROVE  FinitelySent' /\ ActiveAccounting' /\ active' \in Nat
<1>1. Cardinality(Counted') = Cardinality(Counted) - 1
  BY CountedFinite, FS_RemoveElement
<1>2. Counted # {}
  OBVIOUS
<1>3. Cardinality(Counted) # 0
  BY <1>2, CountedFinite, FS_EmptySet
<1> QED
  BY <1>1, <1>3, CountedFinite, AccountingIsCount
     DEF FinitelySent, ActiveAccounting, Counted

-----------------------------------------------------------------------------
(* One lemma for each group of steps *)

\* Steps of the calling thread, of a receiver without a datagram, and of time:
\* no datagram moves.
LEMMA CallKeeps ==
  ASSUME IInv,
         \/ Start \/ StartFails \/ StartInterrupted \/ StopBegin \/ StopAgain
         \/ IdleBegin \/ (\E result \in BOOLEAN : IdleReturn(result)) \/ Tick
  PROVE  IInv'
<1> USE DEF IInv, serverVars, threadVars, callVars, countVars
<1>1. UNCHANGED <<place, active, held>>
  BY DEF Start, StartFails, StartInterrupted, StopBegin, StopAgain, BeginJoin,
     IdleBegin, IdleReturn, Tick
<1>2. FinitelySent' /\ ActiveAccounting'
  BY <1>1, CountStays DEF Sent, Counted, In
<1>3. TypeOK'
  <2>1. starts \in Nat /\ now \in Nat /\ JoinTime \in Nat
    BY LifecycleAssumption DEF TypeOK, JoinTime
  <2>2. ASSUME BeginJoin, outer' \in {"none", "joining", "draining"}
        PROVE  TypeOK'
    <3>1. running' \in BOOLEAN
      BY <2>2 DEF BeginJoin
    <3>2. /\ UNCHANGED <<now, starts, socket, executor, threadVars, place, countVars>>
          /\ main' = "joining" /\ until' \in 0..MaxTime
      BY <2>1, <2>2, ConstantTypes DEF TypeOK, BeginJoin, CanTimeOut
    <3> QED
      BY <2>2, <3>1, <3>2 DEF TypeOK
  <2>3. CASE StopBegin \/ StopAgain
    BY <2>2, <2>3 DEF TypeOK, StopBegin, StopAgain
  <2>4. CASE Start \/ StartInterrupted
    <3>1. running' \in BOOLEAN
      BY <2>4 DEF Start, StartInterrupted
    <3>2. /\ UNCHANGED <<now, reads, held, place, active, callVars>>
          /\ starts' \in 0..MaxStarts /\ socket' \in 0..MaxStarts
          /\ executor' \in {"none", "open", "shutdown"} /\ lastAt' = now
      BY <2>1, <2>4, ConstantTypes DEF TypeOK, Start, StartInterrupted
    <3>3. receiver' = [receiver EXCEPT ![starts'] = "check"]
      BY <2>4 DEF Start, StartInterrupted
    <3> QED
      BY <3>1, <3>2, <3>3 DEF TypeOK
  <2>5. CASE StartFails \/ IdleBegin \/ Tick
             \/ \E result \in BOOLEAN : IdleReturn(result)
    BY <2>1, <2>5, LifecycleAssumption
       DEF TypeOK, StartFails, IdleBegin, IdleReturn, CanTimeOut, Tick
  <2> QED
    BY <2>3, <2>4, <2>5
<1>4. NotStarted' /\ HeldInPlace'
  <2>1. CASE UNCHANGED <<receiver, starts>>
    BY <1>1, <2>1 DEF NotStarted, HeldInPlace
  <2>2. CASE Start \/ StartInterrupted
    <3>1. /\ starts + 1 \in Starts /\ starts \in Nat
          /\ starts' = starts + 1
          /\ receiver' = [receiver EXCEPT ![starts + 1] = "check"]
      BY <2>2, LifecycleAssumption DEF TypeOK, Starts, Start, StartInterrupted
    <3>2. receiver[starts + 1] = "none"
      BY <3>1 DEF NotStarted
    <3>3. \A g \in Starts : g \in Nat
      BY DEF Starts
    <3> QED
      BY <1>1, <3>1, <3>2, <3>3 DEF TypeOK, NotStarted, HeldInPlace
  <2> QED
    BY <2>1, <2>2 DEF StartFails, StopBegin, StopAgain, BeginJoin, IdleBegin,
       IdleReturn, Tick
<1>5. ShutdownEmpties' /\ StopDrains'
  BY <1>1 DEF ShutdownEmpties, StopDrains, In, Start, StartFails,
     StartInterrupted, StopBegin, StopAgain, BeginJoin, IdleBegin, IdleReturn, Tick
<1> QED
  BY <1>2, <1>3, <1>4, <1>5

LEMMA ShutdownKeeps ==
  ASSUME IInv, StopShutdown
  PROVE  IInv'
<1> USE DEF IInv, StopShutdown, threadVars, countVars
<1>1. place' \in {place, Moved("queued", "cancelled")}
  OBVIOUS
<1>2. /\ \A d \in Datagrams :
           place'[d] = place[d] \/ (place[d] = "queued" /\ place'[d] = "cancelled")
      /\ executor # "none" => \A d \in Datagrams : place'[d] # "queued"
      /\ place' \in [Datagrams -> Places]
  BY <1>1 DEF Moved, TypeOK, Places
<1>3. FinitelySent' /\ ActiveAccounting'
  <2>1. Sent' = Sent /\ Counted' = Counted
    BY <1>2 DEF Sent, Counted, In
  <2> QED
    BY <2>1, CountStays
<1>4. TypeOK'
  BY <1>2 DEF TypeOK
<1>5. NotStarted' /\ HeldInPlace'
  BY <1>2 DEF NotStarted, HeldInPlace
<1>6. ShutdownEmpties' /\ StopDrains'
  BY <1>2 DEF ShutdownEmpties, StopDrains, In, TypeOK
<1> QED
  BY <1>3, <1>4, <1>5, <1>6

LEMMA CloseKeeps ==
  ASSUME IInv, StopClose
  PROVE  IInv'
<1> USE DEF IInv, StopClose, threadVars, countVars
<1>1. /\ \A d \in Datagrams :
           place'[d] = place[d] \/ (place[d] = "buffer" /\ place'[d] = "lost")
      /\ place' \in [Datagrams -> Places]
  BY DEF Moved, TypeOK, Places
<1>2. FinitelySent' /\ ActiveAccounting'
  <2>1. Sent' = Sent /\ Counted' = Counted
    BY <1>1 DEF Sent, Counted, In
  <2> QED
    BY <2>1, CountStays
<1>3. TypeOK'
  BY <1>1, LifecycleAssumption DEF TypeOK
<1>4. NotStarted' /\ HeldInPlace'
  BY <1>1 DEF NotStarted, HeldInPlace
<1>5. In({"queued", "running"}) = {}
  <2>1. In({"queued"}) = {}
    BY DEF TypeOK, ShutdownEmpties, StopDrains, In
  <2> QED
    BY <2>1 DEF WorkersJoined, In
<1>6. ShutdownEmpties' /\ StopDrains'
  BY <1>1, <1>5 DEF ShutdownEmpties, StopDrains, In
<1> QED
  BY <1>2, <1>3, <1>4, <1>6

\* The receiver that is waiting for a datagram, or ends.
LEMMA ReceiverIdleKeeps ==
  ASSUME IInv, NEW g \in Starts, ReceiverCheck(g) \/ ReceiverNothing(g)
  PROVE  IInv'
<1> USE DEF IInv, serverVars, callVars, countVars
<1>1. /\ UNCHANGED <<place, active, held, starts, executor, main>>
      /\ receiver[g] \in {"check", "recv"}
  BY DEF ReceiverCheck, ReceiverNothing
<1>2. PICK where \in {"check", "recv", "ended"} :
        receiver' = [receiver EXCEPT ![g] = where]
  BY DEF ReceiverCheck, ReceiverNothing
<1>3. FinitelySent' /\ ActiveAccounting'
  BY <1>1, CountStays DEF Sent, Counted, In
<1>4. TypeOK'
  BY <1>1, <1>2, LifecycleAssumption DEF TypeOK, ReceiverCheck, ReceiverNothing
<1>5. NotStarted' /\ HeldInPlace'
  BY <1>1, <1>2 DEF TypeOK, NotStarted, HeldInPlace
<1>6. ShutdownEmpties' /\ StopDrains'
  BY <1>1 DEF ShutdownEmpties, StopDrains, In
<1> QED
  BY <1>3, <1>4, <1>5, <1>6

LEMMA RecvKeeps ==
  ASSUME IInv, NEW g \in Starts, NEW d \in Datagrams, ReceiverRecv(g, d)
  PROVE  IInv'
<1> USE DEF IInv, ReceiverRecv, serverVars, callVars, countVars
<1>1. FinitelySent' /\ ActiveAccounting'
  <2>1. Sent' = Sent /\ Counted' = Counted
    BY DEF TypeOK, Sent, Counted, In
  <2> QED
    BY <2>1, CountStays
<1>2. TypeOK'
  BY DEF TypeOK, Places
<1>3. NotStarted' /\ HeldInPlace'
  <2>1. \A h \in Starts : held[h] # d
    BY LifecycleAssumption DEF TypeOK, HeldInPlace
  <2> QED
    BY <2>1, LifecycleAssumption DEF TypeOK, NotStarted, HeldInPlace
<1>4. ShutdownEmpties' /\ StopDrains'
  BY DEF TypeOK, ShutdownEmpties, StopDrains, In
<1> QED
  BY <1>1, <1>2, <1>3, <1>4

LEMMA CountKeeps ==
  ASSUME IInv, NEW g \in Starts, ReceiverCount(g)
  PROVE  IInv'
<1> USE DEF IInv, ReceiverCount, serverVars, callVars
<1>1. held[g] \in Datagrams /\ place[held[g]] = "received"
  BY DEF HeldInPlace
<1>2. FinitelySent' /\ ActiveAccounting' /\ active' \in Nat
  <2>1. /\ held[g] \notin Counted /\ Counted' = Counted \cup {held[g]}
        /\ Sent' = Sent
    BY <1>1 DEF TypeOK, Sent, Counted, In
  <2> QED
    BY <2>1, CountUp
<1>3. TypeOK'
  BY <1>1, <1>2 DEF TypeOK, Places
<1>4. NotStarted' /\ HeldInPlace'
  BY <1>1, LifecycleAssumption DEF TypeOK, NotStarted, HeldInPlace
<1>5. ShutdownEmpties' /\ StopDrains'
  BY <1>1 DEF TypeOK, ShutdownEmpties, StopDrains, In
<1> QED
  BY <1>2, <1>3, <1>4, <1>5

LEMMA SubmitKeeps ==
  ASSUME IInv, NEW g \in Starts, ReceiverSubmit(g)
  PROVE  IInv'
<1> USE DEF IInv, ReceiverSubmit, ReceiverDone, serverVars, callVars
<1>1. held[g] \in Datagrams /\ place[held[g]] = "counted"
  BY DEF HeldInPlace
<1>2. FinitelySent' /\ ActiveAccounting'
  <2>1. Counted' = Counted /\ Sent' = Sent
    BY <1>1 DEF TypeOK, Sent, Counted, In
  <2> QED
    BY <2>1, CountStays
<1>3. TypeOK'
  BY <1>1 DEF TypeOK, Places
<1>4. NotStarted' /\ HeldInPlace'
  BY <1>1, LifecycleAssumption DEF TypeOK, NotStarted, HeldInPlace
<1>5. ShutdownEmpties' /\ StopDrains'
  BY <1>1 DEF TypeOK, ShutdownEmpties, StopDrains, In
<1> QED
  BY <1>2, <1>3, <1>4, <1>5

LEMMA RefusedKeeps ==
  ASSUME IInv, NEW g \in Starts, ReceiverRefused(g)
  PROVE  IInv'
<1> USE DEF IInv, serverVars, callVars
<1>1. PICK where \in {"check", "ended"} : ReceiverDone(g, "refused", where)
  BY DEF ReceiverRefused
<1>2. held[g] \in Datagrams /\ place[held[g]] = "counted"
  BY <1>1 DEF HeldInPlace, ReceiverDone
<1>3. FinitelySent' /\ ActiveAccounting' /\ active' \in Nat
  <2>1. /\ held[g] \in Counted /\ Counted' = Counted \ {held[g]}
        /\ Sent' = Sent
    BY <1>1, <1>2 DEF TypeOK, ReceiverDone, Sent, Counted, In
  <2>2. active' = active - 1
    BY DEF ReceiverRefused, Uncounted
  <2> QED
    BY <2>1, <2>2, CountDown
<1>4. TypeOK'
  BY <1>1, <1>2, <1>3 DEF TypeOK, Places, ReceiverDone
<1>5. NotStarted' /\ HeldInPlace'
  BY <1>1, <1>2, LifecycleAssumption
     DEF TypeOK, NotStarted, HeldInPlace, ReceiverDone
<1>6. ShutdownEmpties' /\ StopDrains'
  BY <1>1, <1>2 DEF TypeOK, ShutdownEmpties, StopDrains, In, ReceiverDone
<1> QED
  BY <1>3, <1>4, <1>5, <1>6

LEMMA TaskKeeps ==
  ASSUME IInv, NEW d \in Datagrams, Task(d)
  PROVE  IInv'
<1> USE DEF IInv, serverVars, callVars, threadVars
<1>1. /\ UNCHANGED <<now, serverVars, threadVars, lastAt, callVars>>
      /\ place[d] \in {"queued", "running"}
  BY DEF Task, TaskBegin, TaskEnd, countVars
<1>2. PICK where \in {"running", "done"} :
        /\ place' = [place EXCEPT ![d] = where]
        /\ place[d] = IF where = "running" THEN "queued" ELSE "running"
        /\ active' = IF where = "running" THEN active ELSE active - 1
  BY DEF Task, TaskBegin, TaskEnd, countVars
<1>3. FinitelySent' /\ ActiveAccounting' /\ active' \in Nat
  <2>1. Sent' = Sent
    BY <1>2 DEF TypeOK, Sent
  <2>2. CASE where = "running"
    <3>1. Counted' = Counted
      BY <1>2, <2>2 DEF TypeOK, Counted, In
    <3> QED
      BY <1>2, <2>1, <2>2, <3>1, CountStays DEF TypeOK
  <2>3. CASE where = "done"
    <3>1. d \in Counted /\ Counted' = Counted \ {d}
      BY <1>2, <2>3 DEF TypeOK, Counted, In
    <3> QED
      BY <1>2, <2>1, <2>3, <3>1, CountDown
  <2> QED
    BY <2>2, <2>3
<1>4. TypeOK'
  BY <1>1, <1>2, <1>3 DEF TypeOK, Places
<1>5. NotStarted' /\ HeldInPlace'
  BY <1>1, <1>2 DEF TypeOK, NotStarted, HeldInPlace
<1>6. ShutdownEmpties' /\ StopDrains'
  BY <1>1, <1>2 DEF TypeOK, ShutdownEmpties, StopDrains, In
<1> QED
  BY <1>3, <1>4, <1>5, <1>6

\* The only step that adds to the datagrams sent.
LEMMA ArriveKeeps ==
  ASSUME IInv, NEW d \in Datagrams, Arrive(d)
  PROVE  IInv'
<1> USE DEF IInv, Arrive, serverVars, callVars, threadVars, countVars
<1>1. FinitelySent' /\ ActiveAccounting'
  <2>1. Sent' = Sent \cup {d} /\ Counted' = Counted
    BY DEF TypeOK, Sent, Counted, In
  <2> QED
    BY <2>1, FS_AddElement, AccountingIsCount
       DEF FinitelySent, ActiveAccounting, Counted
<1>2. TypeOK'
  BY DEF TypeOK, Places
<1>3. NotStarted' /\ HeldInPlace'
  BY DEF TypeOK, NotStarted, HeldInPlace
<1>4. ShutdownEmpties' /\ StopDrains'
  BY DEF TypeOK, ShutdownEmpties, StopDrains, In
<1> QED
  BY <1>1, <1>2, <1>3, <1>4

LEMMA InitIInv == Init => IInv
<1> SUFFICES ASSUME Init
             PROVE  IInv
  OBVIOUS
<1> USE DEF Init
<1>1. TypeOK
  <2>1. running \in BOOLEAN
    OBVIOUS
  <2>2. /\ now = 0 /\ starts = 0 /\ socket = 0 /\ executor = "none"
        /\ receiver = [g \in Starts |-> "none"]
        /\ reads = [g \in Starts |-> 0]
        /\ held = [g \in Starts |-> NoDatagram]
        /\ place = [d \in Datagrams |-> "unsent"]
        /\ active = 0 /\ lastAt = 0
        /\ main = "free" /\ outer = "none" /\ until = 0
    OBVIOUS
  <2> HIDE DEF Init
  <2> QED
    BY <2>1, <2>2, ConstantTypes DEF TypeOK, Places
<1>2. Sent = {} /\ Counted = {}
  BY DEF Sent, Counted, In
<1>3. FinitelySent /\ ActiveAccounting
  BY <1>2, FS_EmptySet, AccountingIsCount DEF FinitelySent
<1>4. NotStarted /\ HeldInPlace
  BY DEF NotStarted, HeldInPlace
<1>5. ShutdownEmpties /\ StopDrains
  BY DEF ShutdownEmpties, StopDrains, In
<1> QED
  BY <1>1, <1>3, <1>4, <1>5 DEF IInv

LEMMA NextIInv == IInv /\ [Next]_vars => IInv'
<1> SUFFICES ASSUME IInv, [Next]_vars
             PROVE  IInv'
  OBVIOUS
<1>1. CASE UNCHANGED vars
  BY <1>1 DEF vars, serverVars, threadVars, countVars, callVars, IInv, TypeOK,
     FinitelySent, Sent, NotStarted, HeldInPlace, ActiveAccounting,
     ShutdownEmpties, StopDrains, In
<1>2. CASE Next
  BY <1>2, CallKeeps, ShutdownKeeps, CloseKeeps, ReceiverIdleKeeps, RecvKeeps,
     CountKeeps, SubmitKeeps, RefusedKeeps, TaskKeeps, ArriveKeeps
     DEF Next, Main, Receiver
<1> QED
  BY <1>1, <1>2
-----------------------------------------------------------------------------

\* The inductive invariant, for any number of datagrams, starts and workers and
\* any timeouts.
THEOREM Invariance == Spec => []IInv
BY InitIInv, NextIInv, PTL DEF Spec

\* Type correctness; _active_tasks is never negative.
THEOREM TypeCorrect == Spec => []TypeOK
<1>1. IInv => TypeOK
  BY DEF IInv
<1> QED
  BY <1>1, Invariance, PTL

\* _active_tasks counts what was counted and is not finished, the tasks that
\* stop cancelled included, through every stop, refusal and restart.
THEOREM CounterIsRight == Spec => []ActiveAccounting
<1>1. IInv => ActiveAccounting
  BY DEF IInv
<1> QED
  BY <1>1, Invariance, PTL

\* When the server has no executor, no task is queued or running: stop has waited
\* for them, interrupted by a second stop or not.
THEOREM StopLeavesNothing == Spec => []StopDrains
<1>1. IInv => StopDrains
  BY DEF IInv
<1> QED
  BY <1>1, Invariance, PTL

\* wait_until_idle returns True only when every counted datagram is finished.
THEOREM IdleIsIdle == Spec => IdleNotEarly
<1> DEFINE NotEarly ==
      IdleReturn(TRUE) => In({"counted", "queued", "running"}) = {}
<1>1. IInv => NotEarly
  <2> SUFFICES ASSUME IInv, IdleReturn(TRUE)
               PROVE  In({"counted", "queued", "running"}) = {}
    OBVIOUS
  <2>1. Cardinality(Counted) = 0
    BY AccountingIsCount DEF IInv, IdleReturn, IsIdle
  <2>2. Counted = {}
    BY <2>1, CountedFinite, FS_EmptySet DEF IInv
  <2> QED
    BY <2>2 DEF Counted, In
<1>2. Spec => [][NotEarly]_vars
  BY <1>1, Invariance, PTL DEF Spec
<1> QED
  BY <1>2 DEF IdleNotEarly
=============================================================================
