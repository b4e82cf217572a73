-------------------------- MODULE ServerLifecycle --------------------------
(***************************************************************************)
(* Starting, stopping and idling of DartServer (src/dart/server.py): the   *)
(* thread that calls start, wait_until_idle and stop, the receiver thread  *)
(* of each start, the queue and the workers of the executor, and the       *)
(* counter _active_tasks between them; and the server command's signal     *)
(* handler, which calls stop inside start or stop.                         *)
(*                                                                         *)
(* place[d] says where datagram d is.  A receiver reads self._executor and *)
(* submits in one step: whether stop comes before or between, the datagram *)
(* is refused and the counter decremented.                                 *)
(***************************************************************************)
EXTENDS Integers, FiniteSets

CONSTANTS Datagrams,     \* datagrams that clients may send
          NoDatagram,    \* what a receiver without a datagram holds
          WorkerCount,   \* threads of the executor
          QuietPeriod,   \* quiet_period_s of wait_until_idle
          IdleTimeout,   \* timeout_s of wait_until_idle
          JoinTimeout,   \* how long stop waits for the receiver, 1.0 s
          MaxStarts,     \* bound on the calls of start
          MaxTime        \* bound on the clock

ASSUME LifecycleAssumption ==
  /\ NoDatagram \notin Datagrams
  /\ WorkerCount \in Nat \ {0}
  /\ {QuietPeriod, IdleTimeout, JoinTimeout, MaxStarts, MaxTime} \subseteq Nat

Starts == 1..MaxStarts

VARIABLES now,        \* the monotonic clock
          running,    \* the event _running
          starts,     \* history: how often the server was started
          socket,     \* _socket: 0 for None, or the start that opened it
          executor,   \* _executor: "none", "open", or "shutdown"
          receiver,   \* where the receiver thread of each start is
          reads,      \* the socket each receiver has taken from _socket
          held,       \* the datagram each receiver holds
          place,      \* where each datagram is
          active,     \* _active_tasks
          lastAt,     \* _last_datagram_at
          main,       \* where the calling thread is
          outer,      \* where a signal interrupted its stop, or "none"
          until       \* when the timeout of its current call ends

threadVars == <<receiver, reads, held>>
callVars == <<main, outer, until>>
serverVars == <<running, starts, socket, executor>>
countVars == <<active, lastAt>>
vars == <<now, serverVars, threadVars, place, countVars, callVars>>

Places == { "unsent",                \* not sent yet
            "buffer",                \* in the socket's receive buffer
            "received",              \* returned by recvfrom
            "counted",               \* counted in _active_tasks
            "queued", "running",     \* submitted; picked up by a worker
            "done", "cancelled",     \* handled; cancelled in the queue
            "refused", "lost" }      \* not submitted; closed with the socket
Moved(from, to) ==
  [d \in Datagrams |-> IF place[d] = from THEN to ELSE place[d]]
In(where) == {d \in Datagrams : place[d] \in where}

TypeOK ==
  /\ now \in 0..MaxTime
  /\ running \in BOOLEAN
  /\ starts \in 0..MaxStarts
  /\ socket \in 0..MaxStarts
  /\ executor \in {"none", "open", "shutdown"}
  /\ receiver \in [Starts -> {"none", "check", "recv", "received", "counted",
                             "ended"}]
  /\ reads \in [Starts -> 0..MaxStarts]
  /\ held \in [Starts -> Datagrams \cup {NoDatagram}]
  /\ place \in [Datagrams -> Places]
  /\ active \in Nat
  /\ lastAt \in 0..MaxTime
  /\ main \in {"free", "joining", "draining", "idling"}
  /\ outer \in {"none", "joining", "draining"}
  /\ until \in 0..MaxTime

Init ==
  /\ now = 0 /\ running = FALSE /\ starts = 0
  /\ socket = 0 /\ executor = "none"
  /\ receiver = [g \in Starts |-> "none"]
  /\ reads = [g \in Starts |-> 0]
  /\ held = [g \in Starts |-> NoDatagram]
  /\ place = [d \in Datagrams |-> "unsent"]
  /\ active = 0 /\ lastAt = 0
  /\ main = "free" /\ outer = "none" /\ until = 0

-----------------------------------------------------------------------------
(* The calling thread *)

\* A bound: a call with a timeout is made only while the clock can reach it.
CanTimeOut(timeout) == now + timeout <= MaxTime

Start ==
  /\ main = "free" /\ ~running /\ starts < MaxStarts
  /\ starts' = starts + 1
  /\ socket' = starts'
  /\ executor' = "open"
  /\ lastAt' = now
  /\ running' = TRUE
  /\ receiver' = [receiver EXCEPT ![starts'] = "check"]
  /\ UNCHANGED <<now, reads, held, place, active, callVars>>

\* The receiver thread cannot be started: everything is undone but the time
\* of the last datagram.  _running is set for a moment when no thread looks.
StartFails ==
  /\ main = "free" /\ ~running
  /\ lastAt' = now
  /\ UNCHANGED <<now, serverVars, threadVars, place, active, callVars>>

\* A signal whose handler calls stop inside start, after the socket is set and
\* before _running is: the server then runs without socket and executor.  Only
\* the first start is made with the handlers installed.
StartInterrupted ==
  /\ main = "free" /\ starts = 0 /\ starts < MaxStarts
  /\ starts' = starts + 1
  /\ lastAt' = now
  /\ running' = TRUE
  /\ receiver' = [receiver EXCEPT ![starts'] = "check"]
  /\ UNCHANGED <<now, socket, executor, reads, held, place, active, callVars>>

\* A receiver that has ended is joined at once.
JoinTime == IF receiver[starts] = "ended" THEN 0 ELSE JoinTimeout

BeginJoin ==
  /\ CanTimeOut(JoinTime)
  /\ running' = FALSE
  /\ main' = "joining"
  /\ until' = now + JoinTime
  /\ UNCHANGED <<now, starts, socket, executor, threadVars, place, countVars>>

StopBegin ==
  /\ main = "free"
  /\ running \/ socket # 0
  /\ BeginJoin
  /\ UNCHANGED outer

\* A signal in the middle of stop: its handler calls stop in the same thread.
\* The handlers exist in the server command only, which never waits to be idle.
\* Bound: the second stop is not interrupted again.
StopAgain ==
  /\ main \in {"joining", "draining"} /\ outer = "none"
  /\ running \/ socket # 0
  /\ outer' = main
  /\ BeginJoin

\* join returns; shutdown(cancel_futures=True) refuses new tasks and cancels
\* the queued ones, which never run and so never reach their finally clause.
\* There may be no executor any more, if this stop was interrupted by another.
StopShutdown ==
  /\ main = "joining"
  /\ receiver[starts] = "ended" \/ now >= until
  /\ IF executor = "none" THEN UNCHANGED <<executor, place>>
     ELSE executor' = "shutdown" /\ place' = Moved("queued", "cancelled")
  /\ main' = "draining"
  /\ UNCHANGED <<now, running, starts, socket, threadVars, countVars, outer, until>>

\* Mutant of WorkersJoined: shutdown(wait=False).
NoWait == TRUE

\* shutdown(wait=True) has joined the workers.
WorkersJoined == In({"running"}) = {}

\* A stop that was interrupted goes on.  The time of its own join is up by then,
\* or the thread it joins has ended, so it does not wait again.
StopClose ==
  /\ main = "draining"
  /\ WorkersJoined
  /\ executor' = "none"
  /\ socket' = 0
  /\ place' = Moved("buffer", "lost")
  /\ main' = IF outer = "none" THEN "free" ELSE outer
  /\ outer' = "none"
  /\ UNCHANGED <<now, running, starts, threadVars, countVars, until>>

IdleBegin ==
  /\ main = "free"
  /\ CanTimeOut(IdleTimeout)
  /\ main' = "idling"
  /\ until' = now + IdleTimeout
  /\ UNCHANGED <<now, serverVars, threadVars, place, countVars, outer>>

\* Mutant of IsIdle: only the quiet period is waited for.
IsQuiet == now - lastAt >= QuietPeriod

IsIdle == active = 0 /\ now - lastAt >= QuietPeriod

\* Mutant of IdleReturn: when the time is up the loop goes on.
IdleGoesOn(result) ==
  /\ main = "idling"
  /\ IF result THEN IsIdle ELSE ~IsIdle /\ now >= until
  /\ main' = IF result THEN "free" ELSE main
  /\ UNCHANGED <<now, serverVars, threadVars, place, countVars, outer, until>>

\* A pass of wait_until_idle that neither succeeds nor times out waits, with a
\* timeout of its own, and changes nothing: only the last pass is a step.
IdleReturn(result) ==
  /\ main = "idling"
  /\ IF result THEN IsIdle ELSE ~IsIdle /\ now >= until
  /\ main' = "free"
  /\ UNCHANGED <<now, serverVars, threadVars, place, countVars, outer, until>>

-----------------------------------------------------------------------------
(* The receiver threads, one for each start *)

\* The test of the loop and the read of _socket.
ReceiverCheck(g) ==
  /\ receiver[g] = "check"
  /\ receiver' = [receiver EXCEPT
                    ![g] = IF running /\ socket # 0 THEN "recv" ELSE "ended"]
  /\ reads' = [reads EXCEPT ![g] = IF running THEN socket ELSE 0]
  /\ UNCHANGED <<now, serverVars, held, place, countVars, callVars>>

ReceiverRecv(g, d) ==
  /\ receiver[g] = "recv" /\ reads[g] = socket
  /\ place[d] = "buffer"
  /\ receiver' = [receiver EXCEPT ![g] = "received"]
  /\ held' = [held EXCEPT ![g] = d]
  /\ place' = [place EXCEPT ![d] = "received"]
  /\ UNCHANGED <<now, serverVars, reads, countVars, callVars>>

\* recvfrom times out, or the socket was closed under it.
ReceiverNothing(g) ==
  /\ receiver[g] = "recv"
  /\ \/ receiver' = [receiver EXCEPT ![g] = "check"]
     \/ reads[g] # socket /\ receiver' = [receiver EXCEPT ![g] = "ended"]
  /\ UNCHANGED <<now, serverVars, reads, held, place, countVars, callVars>>

ReceiverCount(g) ==
  /\ receiver[g] = "received"
  /\ receiver' = [receiver EXCEPT ![g] = "counted"]
  /\ place' = [place EXCEPT ![held[g]] = "counted"]
  /\ active' = active + 1
  /\ lastAt' = now
  /\ UNCHANGED <<now, serverVars, reads, held, callVars>>

ReceiverDone(g, where, next) ==
  /\ receiver[g] = "counted"
  /\ receiver' = [receiver EXCEPT ![g] = next]
  /\ held' = [held EXCEPT ![g] = NoDatagram]
  /\ place' = [place EXCEPT ![held[g]] = where]
  /\ UNCHANGED <<now, serverVars, reads, lastAt, callVars>>

ReceiverSubmit(g) ==
  /\ executor = "open"
  /\ ReceiverDone(g, "queued", "check")
  /\ UNCHANGED active

\* Mutants of Uncounted: a refused datagram stays counted, or is taken off by
\* the except clause and once more after it.
StillCounted == active
UncountedTwice == active - 2

Uncounted == active - 1

\* Mutant of ReceiverRefused: the branch for no executor is missing.
RefusedByShutdownOnly(g) ==
  /\ executor = "shutdown"
  /\ ReceiverDone(g, "refused", "ended")
  /\ active' = Uncounted

\* submit raises RuntimeError and the loop ends, or there is no executor.
ReceiverRefused(g) ==
  /\ \/ executor = "shutdown" /\ ReceiverDone(g, "refused", "ended")
     \/ executor = "none" /\ ReceiverDone(g, "refused", "check")
  /\ active' = Uncounted

-----------------------------------------------------------------------------
(* The executor's workers and the clients *)

\* A worker takes a queued task; the executor's queue is FIFO, an order that
\* nothing here depends on.
TaskBegin(d) ==
  /\ place[d] = "queued"
  /\ Cardinality(In({"running"})) < WorkerCount
  /\ place' = [place EXCEPT ![d] = "running"]
  /\ UNCHANGED <<now, serverVars, threadVars, countVars, callVars>>

\* _process_datagram returns or raises; the finally clause decrements.
TaskEnd(d) ==
  /\ place[d] = "running"
  /\ place' = [place EXCEPT ![d] = "done"]
  /\ active' = active - 1
  /\ UNCHANGED <<now, serverVars, threadVars, lastAt, callVars>>

Arrive(d) ==
  /\ place[d] = "unsent" /\ socket # 0
  /\ place' = [place EXCEPT ![d] = "buffer"]
  /\ UNCHANGED <<now, serverVars, threadVars, countVars, callVars>>

Tick ==
  /\ now < MaxTime
  /\ now' = now + 1
  /\ UNCHANGED <<serverVars, threadVars, place, countVars, callVars>>

Main == StopShutdown \/ StopClose \/ \E result \in BOOLEAN : IdleReturn(result)
Receiver(g) ==
  \/ ReceiverCheck(g) \/ ReceiverNothing(g) \/ ReceiverCount(g)
  \/ ReceiverSubmit(g) \/ ReceiverRefused(g)
Task(d) == TaskBegin(d) \/ TaskEnd(d)

Next ==
  \/ Start \/ StartFails \/ StartInterrupted \/ StopBegin \/ StopAgain \/ IdleBegin \/ Main
  \/ \E g \in Starts : Receiver(g) \/ \E d \in Datagrams : ReceiverRecv(g, d)
  \/ \E d \in Datagrams : Task(d) \/ Arrive(d)
  \/ Tick

\* Threads run, handlers return, a call of stop or wait_until_idle proceeds and
\* time passes.  Nobody is obliged to call, and nothing is obliged to arrive.
Fairness ==
  /\ WF_vars(Main) /\ WF_vars(Tick)
  /\ \A g \in Starts : WF_vars(Receiver(g))
  /\ \A d \in Datagrams : WF_vars(Task(d))

Spec == Init /\ [][Next]_vars
FairSpec == Spec /\ Fairness

-----------------------------------------------------------------------------

\* _active_tasks counts what the receiver has counted and no worker has
\* finished, whatever way a datagram takes through stop, refusal and restart.
ActiveAccounting ==
  active = Cardinality(In({"counted", "queued", "running", "cancelled"}))

\* When stop has returned no handler is queued or running any more, even if the
\* receiver outlived the join.
StopDrains == executor = "none" => In({"queued", "running"}) = {}

\* wait_until_idle does not return True while a counted datagram is unfinished.
IdleNotEarly ==
  [][IdleReturn(TRUE) => In({"counted", "queued", "running"}) = {}]_vars

\* stop and wait_until_idle return.
CallsReturn == main # "free" ~> main = "free"

\* A received datagram does not stay in the server: it is handled, cancelled or
\* refused.
NothingStuck ==
  \A d \in Datagrams :
    place[d] \in {"received", "counted", "queued", "running"}
      ~> place[d] \in {"done", "cancelled", "refused"}

\* What the docstring of wait_until_idle says: it waits for the submitted
\* datagrams to finish.  When none is left unfinished, none is counted.
NothingLeftCounted ==
  main = "free" /\ In({"received", "counted", "queued", "running"}) = {}
    => active = 0

\* What docs/PROTOCOL_SPEC.md says of wait_until_idle: no metrics or state are
\* read while work is pending.
IdleMeansNoWork ==
  [][IdleReturn(TRUE) =>
       In({"received", "counted", "queued", "running"}) = {}]_vars
=============================================================================
