----------------------------- MODULE Simulator -----------------------------
(***************************************************************************)
(* The workload generator (src/dart/simulator.py): run_simulation          *)
(* registers the clients of the virtual sensors, starts a worker thread    *)
(* for each behind one barrier, collects the workers and closes the        *)
(* clients; each worker replays one schedule, fixed in advance, through    *)
(* sends that may take any time.                                           *)
(*                                                                         *)
(* The unit of time divides every offset of the schedule.                  *)
(***************************************************************************)
EXTENDS Integers, FiniteSets, SequencesExt

CONSTANTS Sensors,         \* how many sensors
          Duration,        \* duration_s
          SampleInterval,  \* sample_interval_s
          LatestInterval,  \* 0.5 s
          AlertAt,         \* alert_at_s
          Alerts,          \* alerts_per_sensor, or 0 without should_alert
          BatchSize        \* batch_size

ASSUME SimulatorAssumption ==
  /\ {Sensors, SampleInterval, LatestInterval, BatchSize} \subseteq Nat \ {0}
  /\ {Duration, AlertAt, Alerts} \subseteq Nat
  /\ Alerts > 0 /\ AlertAt < Duration => (Duration - AlertAt) % Alerts = 0

VARIABLES main,         \* where run_simulation is
          registered,   \* how many sensors it has registered or given up
          clients,      \* clients, by their sensor
          open,         \* clients whose socket is open
          submitted,    \* workers handed to the executor
          submitFailed, \* history: whether a thread could not be started
          atGate,       \* who has reached the barrier, 0 for run_simulation
          worker,       \* where each worker is
          elapsed,      \* time since started, up to Duration
          position,     \* how many events each worker has begun
          readings,     \* pending_readings
          sent          \* the messages each worker has sent, in order

mainVars == <<main, registered, clients, open, submitted, submitFailed>>
workVars == <<elapsed, position, readings, sent>>
vars == <<mainVars, atGate, worker, workVars>>

SensorIds == 1..Sensors
Main == 0

-----------------------------------------------------------------------------
(* The schedule *)

Offsets(interval) == {i * interval : i \in 0..Duration} \cap 0..(Duration - 1)
AlertOffsets ==
  IF Alerts = 0 \/ AlertAt >= Duration THEN {}
  ELSE {AlertAt + i * ((Duration - AlertAt) \div Alerts) : i \in 0..(Alerts - 1)}

Events ==
  [at : Offsets(SampleInterval), priority : {0}]
    \cup [at : Offsets(LatestInterval), priority : {1}]
    \cup [at : AlertOffsets, priority : {2}]

\* The order of the events as tuples.  No two of them are equal in both.
Before(e, f) == e.at < f.at \/ (e.at = f.at /\ e.priority < f.priority)

\* The sorted events: each stands after as many as come before it.
Schedule ==
  [i \in 1..Cardinality(Events) |->
     CHOOSE e \in Events : Cardinality({f \in Events : Before(f, e)}) = i - 1]

TypeOK ==
  /\ main \in {"register", "submit", "gate", "collect", "close", "ended"}
  /\ registered \in 0..Sensors
  /\ clients \subseteq SensorIds /\ open \subseteq clients
  /\ submitted \subseteq clients /\ submitFailed \in BOOLEAN
  /\ atGate \subseteq clients \cup {Main}
  /\ worker \in [SensorIds -> {"none", "ready", "gate", "running", "sending",
                               "done", "failed"}]
  /\ elapsed \in [SensorIds -> 0..Duration]
  /\ position \in [SensorIds -> 0..Len(Schedule)]
  /\ \A s \in SensorIds : Len(readings[s]) <= BatchSize

Init ==
  /\ main = "register" /\ registered = 0
  /\ clients = {} /\ open = {} /\ submitted = {} /\ submitFailed = FALSE
  /\ atGate = {}
  /\ worker = [s \in SensorIds |-> "none"]
  /\ elapsed = [s \in SensorIds |-> 0]
  /\ position = [s \in SensorIds |-> 0]
  /\ readings = [s \in SensorIds |-> <<>>]
  /\ sent = [s \in SensorIds |-> <<>>]

-----------------------------------------------------------------------------
(* run_simulation *)

\* The barrier lets everyone pass once all the workers and run_simulation have
\* reached it.  Mutants of Parties: run_simulation is not counted; sensors that
\* could not be registered are.
WorkersOnly == Cardinality(clients)
AllSensors == Sensors + 1

Parties == Cardinality(clients) + 1
GateOpen == Cardinality(atGate) >= Parties

RegisterSensor ==
  /\ main = "register" /\ registered < Sensors
  /\ registered' = registered + 1
  /\ \/ clients' = clients \cup {registered'} /\ open' = open \cup {registered'}
     \/ UNCHANGED <<clients, open>>     \* refused: the client is closed again
  /\ UNCHANGED <<main, submitted, submitFailed, atGate, worker, workVars>>

RegisterRaises ==
  /\ main = "register" /\ registered < Sensors
  /\ main' = "close"
  /\ UNCHANGED <<registered, clients, open, submitted, submitFailed, atGate,
                 worker, workVars>>

AllRegistered ==
  /\ main = "register" /\ registered = Sensors
  /\ main' = IF clients = {} THEN "close" ELSE "submit"
  /\ UNCHANGED <<registered, clients, open, submitted, submitFailed, atGate,
                 worker, workVars>>

NextClient(s) == s \in clients \ submitted /\ \A t \in clients \ submitted : s <= t

SubmitWorker(s) ==
  /\ main = "submit" /\ NextClient(s)
  /\ submitted' = submitted \cup {s}
  /\ worker' = [worker EXCEPT ![s] = "ready"]
  /\ UNCHANGED <<main, registered, clients, open, submitFailed, atGate, workVars>>

\* No thread can be started: the executor is left, which joins its threads.
SubmitFails(s) ==
  /\ main = "submit" /\ NextClient(s)
  /\ submitFailed' = TRUE
  /\ main' = "collect"
  /\ UNCHANGED <<registered, clients, open, submitted, atGate, worker, workVars>>

ReachGate ==
  /\ main = "submit" /\ submitted = clients
  /\ main' = "gate"
  /\ atGate' = atGate \cup {Main}
  /\ UNCHANGED <<registered, clients, open, submitted, submitFailed, worker,
                 workVars>>

PassGate ==
  /\ main = "gate" /\ GateOpen
  /\ main' = "collect"
  /\ UNCHANGED <<registered, clients, open, submitted, submitFailed, atGate,
                 worker, workVars>>

\* Mutant of WorkersEnded: the first failure is raised without waiting.
SomeEnded == \E s \in submitted : worker[s] \in {"done", "failed"}
WorkersEnded == \A s \in submitted : worker[s] \in {"done", "failed"}

Collect ==
  /\ main = "collect" /\ WorkersEnded
  /\ main' = "close"
  /\ UNCHANGED <<registered, clients, open, submitted, submitFailed, atGate,
                 worker, workVars>>

CloseClient(s) ==
  /\ main = "close" /\ s \in open
  /\ open' = open \ {s}
  /\ UNCHANGED <<main, registered, clients, submitted, submitFailed, atGate,
                 worker, workVars>>

End ==
  /\ main = "close" /\ open = {}
  /\ main' = "ended"
  /\ UNCHANGED <<registered, clients, open, submitted, submitFailed, atGate,
                 worker, workVars>>

-----------------------------------------------------------------------------
(* _sensor_worker *)

WorkerGate(s) ==
  /\ worker[s] = "ready"
  /\ worker' = [worker EXCEPT ![s] = "gate"]
  /\ atGate' = atGate \cup {s}
  /\ UNCHANGED <<mainVars, workVars>>

WorkerStart(s) ==
  /\ worker[s] = "gate" /\ GateOpen
  /\ worker' = [worker EXCEPT ![s] = "running"]
  /\ UNCHANGED <<mainVars, atGate, workVars>>

Upcoming(s) == Schedule[position[s] + 1]
Due(s) ==
  /\ worker[s] = "running" /\ position[s] < Len(Schedule)
  /\ elapsed[s] >= Upcoming(s).at

\* The send is synchronous: the worker goes on when it returns.
Send(s, message) ==
  /\ sent' = [sent EXCEPT ![s] = Append(@, message)]
  /\ worker' = [worker EXCEPT ![s] = "sending"]

Batch(events) == [type |-> "DATA_BATCH", readings |-> events]

Sample(s) ==
  /\ Due(s) /\ Upcoming(s).priority = 0
  /\ position' = [position EXCEPT ![s] = @ + 1]
  /\ readings' = [readings EXCEPT ![s] = Append(@, Upcoming(s).at)]
  /\ IF Len(readings'[s]) >= BatchSize THEN Send(s, Batch(readings'[s]))
     ELSE UNCHANGED <<sent, worker>>
  /\ UNCHANGED <<mainVars, atGate, elapsed>>

Single(e) ==
  [type |-> IF e.priority = 1 THEN "LATEST_UPDATE" ELSE "CRITICAL_ALERT",
   at |-> e.at]

SendEvent(s) ==
  /\ Due(s) /\ Upcoming(s).priority \in {1, 2}
  /\ position' = [position EXCEPT ![s] = @ + 1]
  /\ Send(s, Single(Upcoming(s)))
  /\ UNCHANGED <<mainVars, atGate, elapsed, readings>>

\* Mutant of Unsent: the readings of a batch stay pending after it was sent.
StillPending(s) == readings[s]
Unsent(s) ==
  IF Last(sent[s]).type = "DATA_BATCH" THEN <<>> ELSE readings[s]

\* Whether it reports a success or a failure makes no difference here.
SendReturns(s) ==
  /\ worker[s] = "sending"
  /\ worker' = [worker EXCEPT ![s] = "running"]
  /\ readings' = [readings EXCEPT ![s] = Unsent(s)]
  /\ UNCHANGED <<mainVars, atGate, elapsed, position, sent>>

SendRaises(s) ==
  /\ worker[s] = "sending"
  /\ worker' = [worker EXCEPT ![s] = "failed"]
  /\ UNCHANGED <<mainVars, atGate, workVars>>

ScheduleDone(s) == worker[s] = "running" /\ position[s] = Len(Schedule)

\* The readings of the last, short batch.
Flush(s) ==
  /\ ScheduleDone(s) /\ readings[s] # <<>>
  /\ Send(s, Batch(readings[s]))
  /\ UNCHANGED <<mainVars, atGate, elapsed, position, readings>>

\* Mutant of WorkerDone: the last readings are not waited for.
DoneUnflushed(s) ==
  /\ ScheduleDone(s)
  /\ worker' = [worker EXCEPT ![s] = "done"]
  /\ UNCHANGED <<mainVars, atGate, workVars>>

WorkerDone(s) ==
  /\ ScheduleDone(s) /\ readings[s] = <<>>
  /\ worker' = [worker EXCEPT ![s] = "done"]
  /\ UNCHANGED <<mainVars, atGate, workVars>>

-----------------------------------------------------------------------------

Tick ==
  /\ elapsed' = [s \in SensorIds |->
                   IF worker[s] \in {"running", "sending"} /\ elapsed[s] < Duration
                   THEN elapsed[s] + 1 ELSE elapsed[s]]
  /\ UNCHANGED <<mainVars, atGate, worker, position, readings, sent>>

RunStep ==
  \/ RegisterSensor \/ AllRegistered \/ ReachGate \/ PassGate \/ Collect \/ End
  \/ \E s \in SensorIds : SubmitWorker(s) \/ CloseClient(s)
WorkerStep(s) ==
  \/ WorkerGate(s) \/ WorkerStart(s) \/ Sample(s) \/ SendEvent(s)
  \/ SendReturns(s) \/ Flush(s) \/ WorkerDone(s)

Next ==
  \/ RunStep \/ RegisterRaises \/ Tick
  \/ \E s \in SensorIds : SubmitFails(s) \/ WorkerStep(s) \/ SendRaises(s)

Spec == Init /\ [][Next]_vars

\* Threads run, sends return (DartClient, CallsEnd) and time passes.
FairSpec ==
  /\ Spec /\ WF_vars(RunStep) /\ WF_vars(Tick)
  /\ \A s \in SensorIds : WF_vars(WorkerStep(s))
-----------------------------------------------------------------------------

\* "Every worker reaches this same gate before any sensor starts": no message is
\* sent, and no schedule begun, before all the workers are there.
StartTogether ==
  (\E s \in SensorIds : worker[s] \in {"running", "sending", "done"})
    => atGate = clients \cup {Main}

\* No worker uses a client that has been closed, and none is left open.
ClosedAfterUse ==
  /\ \A s \in SensorIds :
       worker[s] \in {"ready", "gate", "running", "sending"} => s \in open
  /\ main = "ended" => open = {}

\* The event at which a message was sent, and the batches among messages 1 to i.
EventOf(message) ==
  IF message.type = "DATA_BATCH"
  THEN [at |-> Last(message.readings), priority |-> 0]
  ELSE [at |-> message.at,
        priority |-> IF message.type = "LATEST_UPDATE" THEN 1 ELSE 2]
BatchesUpTo(messages, i) == {k \in 1..i : messages[k].type = "DATA_BATCH"}
Batches(messages) == BatchesUpTo(messages, Len(messages))
Singles(messages) == DOMAIN messages \ Batches(messages)

\* Reading j of batch k is reading (k - 1) * BatchSize + j of the sensor.
InPlace(messages) ==
  \A i \in Batches(messages) :
    /\ Len(messages[i].readings) \in 1..BatchSize
    /\ \A j \in DOMAIN messages[i].readings :
         LET before == (Cardinality(BatchesUpTo(messages, i)) - 1) * BatchSize
         IN  messages[i].readings[j] = (before + j - 1) * SampleInterval

Complete(messages) ==
  /\ UNION {Range(messages[i].readings) : i \in Batches(messages)}
       = Offsets(SampleInterval)
  /\ {EventOf(messages[i]) : i \in Singles(messages)}
       = {e \in Events : e.priority # 0}

\* The last readings are sent at the end, whatever came after them.
InOrder(messages) ==
  \A i, j \in DOMAIN messages : i < j =>
    \/ Before(EventOf(messages[i]), EventOf(messages[j]))
    \/ /\ j = Len(messages) /\ messages[j].type = "DATA_BATCH"
       /\ Len(messages[j].readings) < BatchSize

\* However long the sends take, every sensor that finishes has offered the same
\* workload: each reading once and in order, in batches that are full but for the
\* last one, each latest value and alert once, all in the order of the schedule.
SameWorkload ==
  \A s \in SensorIds : worker[s] = "done" =>
    InPlace(sent[s]) /\ Complete(sent[s]) /\ InOrder(sent[s])

\* run_simulation ends, whichever sensors fail to register or to send.  It does
\* not if a worker's thread cannot be started: the workers that were started
\* wait at the barrier for ever, and the executor for them.
RunEnds == main # "ended" ~> main = "ended" \/ submitFailed
=============================================================================
