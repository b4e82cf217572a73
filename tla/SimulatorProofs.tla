-------------------------- MODULE SimulatorProofs --------------------------
(***************************************************************************)
(* Proofs about the workload generator, for any number of sensors, any     *)
(* duration, periods and batch size: no worker starts before all of them   *)
(* are at the barrier, none uses a client that has been closed, and every  *)
(* worker that finishes has offered the same workload, however long its    *)
(* sends took.                                                             *)
(*                                                                         *)
(* The last rests on WorkloadInv: the samples a worker has begun are       *)
(* counted by the readings in its batches and those pending (Counted), and *)
(* its messages are the events of its schedule up to its position, in      *)
(* their order (Traced).                                                   *)
(***************************************************************************)
EXTENDS Simulator, FiniteSetTheorems, SequenceTheorems, TLAPS

Active == {"ready", "gate", "running", "sending"}
Started == {"running", "sending", "done", "failed"}

MainType ==
  /\ main \in {"register", "submit", "gate", "collect", "close", "ended"}
  /\ registered \in 0..Sensors
  /\ clients \subseteq SensorIds /\ open \subseteq clients
  /\ submitted \subseteq clients /\ submitFailed \in BOOLEAN
  /\ atGate \subseteq clients \cup {Main}
  /\ worker \in [SensorIds -> {"none", "ready", "gate", "running", "sending",
                               "done", "failed"}]

\* Sockets are open until close begins; every worker runs for a submitted client,
\* and the barrier counts run_simulation only after it has submitted them all.
Phases ==
  /\ main \notin {"close", "ended"} => open = clients
  /\ main = "register" => submitted = {}
  /\ main \in {"close", "ended"} => WorkersEnded
  /\ main = "ended" => open = {}
  /\ \A s \in SensorIds : worker[s] # "none" => s \in submitted
  /\ Main \in atGate => main \notin {"register", "submit"}

\* StartTogether for every worker that has passed the barrier, failed or not.
PassedTogether ==
  (\E s \in SensorIds : worker[s] \in Started) => atGate = clients \cup {Main}

\* The inductive invariant of the run.
IInv == MainType /\ Phases /\ PassedTogether

LEMMA Constants ==
  /\ Sensors \in Nat \ {0} /\ Duration \in Nat /\ AlertAt \in Nat /\ Alerts \in Nat
  /\ BatchSize \in Nat \ {0} /\ SampleInterval \in Nat \ {0}
  /\ LatestInterval \in Nat \ {0}
<1>1. /\ {Sensors, SampleInterval, LatestInterval, BatchSize} \subseteq Nat \ {0}
      /\ {Duration, AlertAt, Alerts} \subseteq Nat
  BY SimulatorAssumption
<1> QED
  BY <1>1

LEMMA InitIInv == Init => IInv
<1> SUFFICES ASSUME Init
             PROVE  IInv
  OBVIOUS
<1>1. MainType
  <2>1. registered \in 0..Sensors
    BY Constants DEF Init
  <2>2. submitFailed \in BOOLEAN
    BY DEF Init
  <2>3. main \in {"register", "submit", "gate", "collect", "close", "ended"}
    BY DEF Init
  <2>4. worker \in [SensorIds -> {"none", "ready", "gate", "running", "sending",
                                 "done", "failed"}]
    BY DEF Init
  <2> QED
    BY <2>1, <2>2, <2>3, <2>4 DEF Init, MainType
<1>2. \A s \in SensorIds : worker[s] = "none"
  BY DEF Init
<1>3. Phases /\ PassedTogether
  BY <1>2 DEF Init, Phases, PassedTogether, Started
<1> QED
  BY <1>1, <1>3 DEF IInv

\* Whoever waits at an open barrier waits for nobody: as many have reached it as
\* there are workers, and run_simulation.
LEMMA GateMeansAll ==
  ASSUME MainType, GateOpen
  PROVE  atGate = clients \cup {Main}
<1>1. IsFiniteSet(clients)
  <2>1. IsFiniteSet(SensorIds)
    BY Constants, FS_Interval DEF SensorIds
  <2> QED
    BY <2>1, FS_Subset DEF MainType
<1>2. Main \notin clients
  BY DEF MainType, SensorIds, Main
<1>3. /\ IsFiniteSet(clients \cup {Main})
      /\ Cardinality(clients \cup {Main}) = Cardinality(clients) + 1
  BY <1>1, <1>2, FS_AddElement
<1>4. /\ atGate \in SUBSET (clients \cup {Main})
      /\ Cardinality(atGate) >= Cardinality(clients \cup {Main})
  BY <1>3 DEF MainType, GateOpen, Parties
<1>5. /\ Cardinality(atGate) <= Cardinality(clients \cup {Main})
      /\ Cardinality(clients \cup {Main}) = Cardinality(atGate)
           => clients \cup {Main} = atGate
      /\ IsFiniteSet(atGate)
  BY <1>3, <1>4, FS_Subset
<1>6. Cardinality(atGate) \in Nat /\ Cardinality(clients \cup {Main}) \in Nat
  BY <1>3, <1>5, FS_CardinalityType
<1> QED
  BY <1>4, <1>5, <1>6

\* Steps of run_simulation other than those that start or pass a barrier.
LEMMA RunKeeps ==
  ASSUME IInv, RunStep \/ RegisterRaises \/ \E s \in SensorIds : SubmitFails(s)
  PROVE  IInv'
<1> USE DEF IInv, MainType, Phases, PassedTogether, WorkersEnded, Started
<1>1. CASE RegisterSensor
  <2>1. /\ registered' = registered + 1 /\ registered' \in SensorIds
        /\ registered' \in 0..Sensors
    BY <1>1, Constants DEF RegisterSensor, SensorIds
  <2>2. Main \notin atGate /\ \A s \in SensorIds : worker[s] = "none"
    BY <1>1 DEF RegisterSensor
  <2> QED
    BY <1>1, <2>1, <2>2 DEF RegisterSensor
<1>2. CASE RegisterRaises
  BY <1>2 DEF RegisterRaises
<1>3. CASE AllRegistered
  BY <1>3 DEF AllRegistered
<1>4. ASSUME NEW s \in SensorIds, SubmitWorker(s)
      PROVE  IInv'
  <2>1. /\ worker' = [worker EXCEPT ![s] = "ready"] /\ s \in clients
        /\ submitted' = submitted \cup {s} /\ main = "submit"
        /\ UNCHANGED <<main, registered, clients, open, submitFailed, atGate>>
    BY <1>4 DEF SubmitWorker, NextClient
  <2>2. \A t \in SensorIds : worker'[t] = worker[t] \/ (t = s /\ worker'[t] = "ready")
    BY <2>1
  <2>3. worker' \in [SensorIds -> {"none", "ready", "gate", "running", "sending",
                                   "done", "failed"}]
    BY <2>1
  <2> QED
    BY <2>1, <2>2, <2>3
<1>5. ASSUME NEW s \in SensorIds, SubmitFails(s)
      PROVE  IInv'
  BY <1>5 DEF SubmitFails
<1>6. CASE ReachGate
  BY <1>6 DEF ReachGate
<1>7. CASE PassGate
  BY <1>7 DEF PassGate
<1>8. CASE Collect
  BY <1>8 DEF Collect
<1>9. ASSUME NEW s \in SensorIds, CloseClient(s)
      PROVE  IInv'
  BY <1>9 DEF CloseClient
<1>10. CASE End
  BY <1>10 DEF End
<1> QED
  BY <1>1, <1>2, <1>3, <1>4, <1>5, <1>6, <1>7, <1>8, <1>9, <1>10 DEF RunStep

\* A step of a worker that has been started and has not ended.
LEMMA WorkerKeeps ==
  ASSUME IInv, NEW s \in SensorIds, WorkerStep(s) \/ SendRaises(s)
  PROVE  IInv'
<1> USE DEF mainVars
<1>1. MainType /\ Phases /\ PassedTogether
  BY DEF IInv
<1>2. PICK next \in Active \cup {"done", "failed"} :
        /\ worker[s] \in Active
        /\ worker' = [worker EXCEPT ![s] = next]
        /\ UNCHANGED mainVars
        /\ \/ atGate' = atGate
           \/ atGate' = atGate \cup {s} /\ worker[s] = "ready"
        /\ next \in Started => worker[s] \in Started \/ GateOpen
  <2>1. CASE WorkerGate(s)
    BY <1>1, <2>1 DEF WorkerGate, Active, Started
  <2>2. CASE WorkerStart(s)
    BY <1>1, <2>2 DEF WorkerStart, Active, Started
  <2>3. CASE Sample(s)
    <3>1. worker' = worker \/ worker' = [worker EXCEPT ![s] = "sending"]
      BY <2>3 DEF Sample, Send
    <3>2. worker[s] = "running" /\ UNCHANGED <<mainVars, atGate>>
      BY <2>3 DEF Sample, Due
    <3>3. \E next \in {"running", "sending"} : worker' = [worker EXCEPT ![s] = next]
      BY <1>1, <3>1, <3>2 DEF MainType
    <3> QED
      BY <3>2, <3>3 DEF Active, Started
  <2>4. CASE SendEvent(s) \/ Flush(s)
    BY <2>4 DEF SendEvent, Flush, Send, Due, ScheduleDone, Active, Started
  <2>5. CASE SendReturns(s) \/ SendRaises(s) \/ WorkerDone(s)
    BY <2>5 DEF SendReturns, SendRaises, WorkerDone, ScheduleDone, Active, Started
  <2> QED
    BY <2>1, <2>2, <2>3, <2>4, <2>5 DEF WorkerStep
<1>3. /\ s \in submitted /\ main \notin {"register", "close", "ended"}
      /\ \A t \in SensorIds \ {s} : worker'[t] = worker[t]
      /\ worker'[s] = next
  BY <1>1, <1>2 DEF MainType, Phases, WorkersEnded, Active
<1>4. MainType'
  BY <1>1, <1>2, <1>3 DEF MainType, Active
<1>5. Phases'
  BY <1>1, <1>2, <1>3 DEF MainType, Phases, Active, SensorIds, Main
<1>6. PassedTogether'
  <2> SUFFICES ASSUME NEW t \in SensorIds, worker'[t] \in Started
               PROVE  atGate' = clients' \cup {Main}
    BY DEF PassedTogether
  <2>1. atGate = clients \cup {Main}
    BY <1>1, <1>2, <1>3, GateMeansAll DEF PassedTogether
  <2> QED
    BY <1>1, <1>2, <1>3, <2>1 DEF MainType
<1> QED
  BY <1>4, <1>5, <1>6 DEF IInv

LEMMA NextIInv == IInv /\ [Next]_vars => IInv'
<1> SUFFICES ASSUME IInv, [Next]_vars
             PROVE  IInv'
  OBVIOUS
<1>1. CASE RunStep \/ RegisterRaises \/ \E s \in SensorIds : SubmitFails(s)
  BY <1>1, RunKeeps
<1>2. ASSUME NEW s \in SensorIds, WorkerStep(s) \/ SendRaises(s)
      PROVE  IInv'
  BY <1>2, WorkerKeeps
<1>3. CASE Tick \/ UNCHANGED vars
  <2>1. UNCHANGED <<mainVars, atGate, worker>>
    BY <1>3 DEF Tick, vars
  <2> QED
    BY <2>1 DEF mainVars, IInv, MainType, Phases, PassedTogether, WorkersEnded
<1> QED
  BY <1>1, <1>2, <1>3 DEF Next

\* The inductive invariant holds in every reachable state.
THEOREM Invariance == Spec => []IInv
BY InitIInv, NextIInv, PTL DEF Spec

\* No sensor starts its schedule before every worker and run_simulation have reached
\* the barrier, whichever sensors could not be registered (StartTogether).
THEOREM AllStartTogether == Spec => []StartTogether
<1>1. IInv => StartTogether
  BY DEF IInv, PassedTogether, StartTogether, Started
<1> QED
  BY <1>1, Invariance, PTL

\* No worker uses a client that has been closed, and run_simulation leaves none open
\* however registration or the workers fail (ClosedAfterUse).
THEOREM NoUseAfterClose == Spec => []ClosedAfterUse
<1>1. IInv => ClosedAfterUse
  BY DEF IInv, MainType, Phases, WorkersEnded, ClosedAfterUse
<1> QED
  BY <1>1, Invariance, PTL

-----------------------------------------------------------------------------
(* The schedule *)

LEMMA AlertOffsetsFinite == AlertOffsets \subseteq Int /\ IsFiniteSet(AlertOffsets)
<1>1. CASE Alerts = 0 \/ AlertAt >= Duration
  BY <1>1, FS_EmptySet DEF AlertOffsets
<1>2. CASE ~(Alerts = 0 \/ AlertAt >= Duration)
  <2> DEFINE gap == (Duration - AlertAt) \div Alerts
             f == [i \in 0..(Alerts - 1) |-> AlertAt + i * gap]
  <2>1. gap \in Int
    BY <1>2, Constants
  <2>2. AlertOffsets = {f[i] : i \in 0..(Alerts - 1)}
    BY <1>2 DEF AlertOffsets
  <2> HIDE DEF gap
  <2>3. \A i \in 0..(Alerts - 1) : f[i] \in Int
    BY <2>1, Constants
  <2>4. f \in Surjection(0..(Alerts - 1), AlertOffsets)
    BY <2>2 DEF Surjection
  <2>5. IsFiniteSet(0..(Alerts - 1))
    BY Constants, FS_Interval
  <2> HIDE DEF f
  <2>6. IsFiniteSet(AlertOffsets)
    BY <2>4, <2>5, FS_Surjection
  <2> QED
    BY <2>2, <2>3, <2>6
<1> QED
  BY <1>1, <1>2

LEMMA OffsetsFinite ==
  ASSUME NEW interval \in Nat \ {0}
  PROVE  Offsets(interval) \subseteq Int /\ IsFiniteSet(Offsets(interval))
<1>1. IsFiniteSet(0..(Duration - 1)) /\ Offsets(interval) \subseteq 0..(Duration - 1)
  BY Constants, FS_Interval DEF Offsets
<1>2. IsFiniteSet(Offsets(interval))
  BY <1>1, FS_Subset
<1> QED
  BY <1>1, <1>2, Constants

LEMMA EventsFinite ==
  Events \subseteq [at : Int, priority : {0, 1, 2}] /\ IsFiniteSet(Events)
<1> DEFINE T == Offsets(SampleInterval) \cup Offsets(LatestInterval) \cup AlertOffsets
           P == T \X {0, 1, 2}
           R == [at : T, priority : {0, 1, 2}]
           f == [x \in P |-> [at |-> x[1], priority |-> x[2]]]
<1>1. T \subseteq Int /\ IsFiniteSet(T)
  BY Constants, OffsetsFinite, AlertOffsetsFinite, FS_Union
<1>2. Events \subseteq R
  BY DEF Events
<1>3. R \subseteq [at : Int, priority : {0, 1, 2}]
  BY <1>1
<1>4. IsFiniteSet(P)
  <2>1. IsFiniteSet({0})
    BY FS_Singleton
  <2>2. IsFiniteSet({0} \cup {1})
    BY <2>1, FS_AddElement
  <2>3. IsFiniteSet(({0} \cup {1}) \cup {2})
    BY <2>2, FS_AddElement
  <2>4. {0, 1, 2} = ({0} \cup {1}) \cup {2}
    OBVIOUS
  <2>5. IsFiniteSet({0, 1, 2})
    BY <2>3, <2>4, Zenon
  <2> QED
    BY <1>1, <2>5, FS_Product
<1>5. f \in Surjection(P, R)
  <2>1. f \in [P -> R]
    OBVIOUS
  <2>2. ASSUME NEW r \in R
        PROVE  \E x \in P : f[x] = r
    <3>1. <<r.at, r.priority>> \in P
      OBVIOUS
    <3>2. f[<<r.at, r.priority>>] = r
      BY <3>1
    <3> QED
      BY <3>1, <3>2
  <2> HIDE DEF f, P, R
  <2> QED
    BY <2>1, <2>2 DEF Surjection
<1>6. IsFiniteSet(R)
  <2> HIDE DEF f, P, R
  <2> QED
    BY <1>4, <1>5, FS_Surjection
<1> QED
  BY <1>2, <1>3, <1>6, FS_Subset

LEMMA BeforeOrders ==
  ASSUME NEW e \in Events, NEW f \in Events
  PROVE  /\ ~ Before(e, e)
         /\ \A g \in Events : Before(e, f) /\ Before(f, g) => Before(e, g)
         /\ e = f \/ Before(e, f) \/ Before(f, e)
<1>1. \A g \in Events : /\ g = [at |-> g.at, priority |-> g.priority]
                        /\ g.at \in Int /\ g.priority \in {0, 1, 2}
  BY EventsFinite
<1> QED
  BY <1>1 DEF Before

\* The schedule holds each event once, in order.
LEMMA ScheduleSorted ==
  /\ Schedule \in Seq(Events) /\ Len(Schedule) \in Nat
  /\ \A i \in 1..Len(Schedule) : Schedule[i] \in Events
  /\ \A e \in Events : \E i \in 1..Len(Schedule) : Schedule[i] = e
  /\ \A i, j \in 1..Len(Schedule) : i < j => Before(Schedule[i], Schedule[j])
<1> DEFINE N == Cardinality(Events)
           Below(e) == {f \in Events : Before(f, e)}
           rank == [e \in Events |-> Cardinality(Below(e))]
<1>1. IsFiniteSet(Events) /\ N \in Nat
  BY EventsFinite, FS_CardinalityType
<1>2. \A e \in Events : IsFiniteSet(Below(e)) /\ rank[e] \in 0..(N - 1)
  <2> TAKE e \in Events
  <2>1. IsFiniteSet(Below(e)) /\ Cardinality(Below(e)) <= N
        /\ (Cardinality(Below(e)) = N => Below(e) = Events)
    BY <1>1, FS_Subset
  <2>2. e \notin Below(e)
    BY BeforeOrders
  <2>3. Cardinality(Below(e)) \in Nat
    BY <2>1, FS_CardinalityType
  <2> QED
    BY <1>1, <2>1, <2>2, <2>3
<1>3. ASSUME NEW e \in Events, NEW f \in Events, Before(e, f)
      PROVE  rank[e] < rank[f]
  <2>1. Below(e) \subseteq Below(f)
    BY <1>3, BeforeOrders
  <2>2. e \in Below(f) /\ e \notin Below(e)
    BY <1>3, BeforeOrders
  <2>3. /\ Cardinality(Below(e)) <= Cardinality(Below(f))
        /\ Cardinality(Below(e)) = Cardinality(Below(f)) => Below(e) = Below(f)
    BY <1>2, <2>1, FS_Subset
  <2>4. Cardinality(Below(e)) \in Nat /\ Cardinality(Below(f)) \in Nat
    BY <1>2, FS_CardinalityType
  <2> QED
    BY <2>2, <2>3, <2>4
<1> HIDE DEF Below
<1>4. ASSUME NEW e \in Events, NEW f \in Events, rank[e] = rank[f]
      PROVE  e = f
  <2>1. ~ Before(e, f) /\ ~ Before(f, e)
    <3>1. rank[e] \in Int /\ rank[f] \in Int
      BY <1>1, <1>2
    <3> HIDE DEF rank
    <3> QED
      BY <1>3, <1>4, <3>1
  <2> QED
    BY <2>1, BeforeOrders
<1>5. \A n \in 0..(N - 1) : \E e \in Events : rank[e] = n
  <2>1. rank \in [Events -> 0..(N - 1)]
    BY <1>2
  <2>2. rank \in Injection(Events, 0..(N - 1))
    <3> HIDE DEF rank
    <3> QED
      BY <1>4, <2>1 DEF Injection, IsInjective
  <2>3. IsFiniteSet(0..(N - 1)) /\ Cardinality(0..(N - 1)) = N
    BY <1>1, FS_Interval
  <2> HIDE DEF rank
  <2>4. rank \in Surjection(Events, 0..(N - 1))
    BY <2>2, <2>3, FS_Injection
  <2> QED
    BY <2>4 DEF Surjection
<1>6. Schedule = [i \in 1..N |-> CHOOSE e \in Events : Cardinality(Below(e)) = i - 1]
  BY DEF Schedule, Below
<1>7. ASSUME NEW i \in 1..N
      PROVE  Schedule[i] \in Events /\ rank[Schedule[i]] = i - 1
  <2>1. i - 1 \in 0..(N - 1)
    BY <1>1
  <2>2. \E e \in Events : Cardinality(Below(e)) = i - 1
    BY <1>5, <2>1
  <2>3. Schedule[i] = CHOOSE e \in Events : Cardinality(Below(e)) = i - 1
    BY <1>6
  <2> QED
    BY <2>2, <2>3
<1> HIDE DEF rank
<1>8. DOMAIN Schedule = 1..N /\ Schedule \in [1..N -> Events]
  BY <1>6, <1>7
<1>9. Schedule \in Seq(Events) /\ Len(Schedule) = N
  BY <1>1, <1>8, LenProperties, IsASeq
<1>10. ASSUME NEW e \in Events
       PROVE  \E i \in 1..N : Schedule[i] = e
  <2>1. rank[e] + 1 \in 1..N /\ rank[e] \in Int
    BY <1>1, <1>2
  <2>2. rank[Schedule[rank[e] + 1]] = rank[e] /\ Schedule[rank[e] + 1] \in Events
    BY <1>7, <2>1
  <2> QED
    BY <1>4, <2>1, <2>2
<1>11. ASSUME NEW i \in 1..N, NEW j \in 1..N, i < j
       PROVE  Before(Schedule[i], Schedule[j])
  <2>1. rank[Schedule[i]] < rank[Schedule[j]] /\ Schedule[i] \in Events
        /\ Schedule[j] \in Events
    BY <1>1, <1>7, <1>11
  <2>2. ~ Before(Schedule[j], Schedule[i]) /\ Schedule[i] # Schedule[j]
    <3>1. rank[Schedule[i]] \in Int /\ rank[Schedule[j]] \in Int
      BY <1>1, <1>2, <2>1
    <3> QED
      BY <1>3, <2>1, <3>1
  <2> QED
    BY <2>1, <2>2, BeforeOrders
<1> QED
  BY <1>1, <1>7, <1>9, <1>10, <1>11

\* Samples and their events.
LEMMA SampleEvents ==
  ASSUME NEW t
  PROVE  t \in Offsets(SampleInterval) <=> [at |-> t, priority |-> 0] \in Events
BY DEF Events

LEMMA EventsTyped ==
  ASSUME NEW e \in Events
  PROVE  /\ e = [at |-> e.at, priority |-> e.priority]
         /\ e.at \in Int /\ e.priority \in {0, 1, 2}
         /\ e.priority = 0 => e.at \in Offsets(SampleInterval)
<1>1. /\ e = [at |-> e.at, priority |-> e.priority]
      /\ e.at \in Int /\ e.priority \in {0, 1, 2}
  BY EventsFinite
<1> QED
  BY <1>1, SampleEvents

-----------------------------------------------------------------------------
(* What the workers do *)

Messages == [type : {"DATA_BATCH"}, readings : Seq(Int)]
              \cup [type : {"LATEST_UPDATE", "CRITICAL_ALERT"}, at : Int]

\* TypeOK of what the workers do, and what SendReturns relies on: a batch that is not
\* being sent has room for one reading more.
WorkType ==
  /\ elapsed \in [SensorIds -> 0..Duration]
  /\ position \in [SensorIds -> 0..Len(Schedule)]
  /\ readings \in [SensorIds -> Seq(Int)]
  /\ sent \in [SensorIds -> Seq(Messages)]
RoomLeft ==
  \A s \in SensorIds :
    /\ worker[s] = "sending" => sent[s] # <<>>
    /\ Len(readings[s]) >= BatchSize =>
         /\ worker[s] \in {"sending", "failed"}
         /\ worker[s] = "sending" => Last(sent[s]).type = "DATA_BATCH"
    /\ Len(readings[s]) <= BatchSize

WorkInv == WorkType /\ RoomLeft

LEMMA UpcomingTyped ==
  ASSUME WorkType, NEW s \in SensorIds, Due(s)
  PROVE  /\ Upcoming(s).at \in Int
         /\ position[s] + 1 \in 0..Len(Schedule)
<1>1. /\ Len(Schedule) \in Nat /\ position[s] \in 0..Len(Schedule)
      /\ position[s] < Len(Schedule)
  BY ScheduleSorted DEF WorkType, Due
<1>2. Upcoming(s) \in Events
  BY <1>1, ScheduleSorted DEF Upcoming
<1> QED
  BY <1>1, <1>2, EventsTyped

LEMMA WorkInit == Init => WorkInv
BY Constants, ScheduleSorted DEF Init, WorkInv, WorkType, RoomLeft

LEMMA WorkKeeps ==
  ASSUME IInv, WorkInv, [Next]_vars
  PROVE  WorkInv'
<1>1. WorkType /\ RoomLeft /\ MainType /\ BatchSize \in Nat \ {0}
  BY Constants DEF WorkInv, IInv
\* A worker whose readings and messages do not change.
<1>2. ASSUME UNCHANGED <<elapsed, readings, sent>>, position' = position,
             \A s \in SensorIds :
               \/ worker'[s] = worker[s]
               \/ worker[s] = "sending" /\ worker'[s] = "failed"
               \/ Len(readings[s]) < BatchSize /\ worker'[s] # "sending"
      PROVE  WorkInv'
  <2>1. WorkType'
    BY <1>1, <1>2 DEF WorkType
  <2>2. RoomLeft'
    <3> SUFFICES ASSUME NEW s \in SensorIds
                 PROVE  (/\ worker[s] = "sending" => sent[s] # <<>>
                         /\ Len(readings[s]) >= BatchSize =>
                              /\ worker[s] \in {"sending", "failed"}
                              /\ worker[s] = "sending" =>
                                   Last(sent[s]).type = "DATA_BATCH"
                         /\ Len(readings[s]) <= BatchSize)'
      BY DEF RoomLeft
    <3>1. Len(readings[s]) \in Nat
      BY <1>1 DEF WorkType
    <3> QED
      BY <1>1, <1>2, <3>1 DEF RoomLeft
  <2> QED
    BY <2>1, <2>2 DEF WorkInv
\* A message m is sent.
<1>3. ASSUME NEW s \in SensorIds, NEW m \in Messages, Send(s, m),
             UNCHANGED elapsed,
             position' \in [SensorIds -> 0..Len(Schedule)],
             readings' \in [SensorIds -> Seq(Int)],
             \A t \in SensorIds \ {s} : readings'[t] = readings[t],
             Len(readings'[s]) <= BatchSize,
             Len(readings'[s]) = BatchSize => m.type = "DATA_BATCH"
      PROVE  WorkInv'
  <2>1. /\ sent' = [sent EXCEPT ![s] = Append(@, m)]
        /\ worker' = [worker EXCEPT ![s] = "sending"]
    BY <1>3 DEF Send
  <2>2. /\ sent'[s] = Append(sent[s], m) /\ sent[s] \in Seq(Messages)
        /\ worker'[s] = "sending"
        /\ \A t \in SensorIds \ {s} : sent'[t] = sent[t] /\ worker'[t] = worker[t]
    BY <1>1, <2>1 DEF WorkType, MainType
  <2>3. /\ Append(sent[s], m) \in Seq(Messages)
        /\ Append(sent[s], m) # <<>> /\ Last(Append(sent[s], m)) = m
    <3>1. /\ Append(sent[s], m) \in Seq(Messages) /\ Len(sent[s]) \in Nat
          /\ Len(Append(sent[s], m)) = Len(sent[s]) + 1
          /\ Append(sent[s], m)[Len(sent[s]) + 1] = m
      BY <1>3, <2>2, AppendProperties, LenProperties
    <3>2. Append(sent[s], m) # <<>>
      BY <3>1, EmptySeq
    <3> QED
      BY <3>1, <3>2 DEF Last
  <2>4. WorkType'
    <3>1. sent' \in [SensorIds -> Seq(Messages)]
      <4>1. sent \in [SensorIds -> Seq(Messages)]
        BY <1>1 DEF WorkType
      <4> QED
        BY <2>1, <2>3, <4>1
    <3> QED
      BY <1>1, <1>3, <3>1 DEF WorkType
  <2>5. RoomLeft'
    <3> SUFFICES ASSUME NEW t \in SensorIds
                 PROVE  (/\ worker[t] = "sending" => sent[t] # <<>>
                         /\ Len(readings[t]) >= BatchSize =>
                              /\ worker[t] \in {"sending", "failed"}
                              /\ worker[t] = "sending" =>
                                   Last(sent[t]).type = "DATA_BATCH"
                         /\ Len(readings[t]) <= BatchSize)'
      BY DEF RoomLeft
    <3>1. CASE t = s
      <4>1. Len(readings'[s]) \in Nat
        BY <1>3
      <4>2. Last(sent'[t]).type = m.type /\ sent'[t] # <<>>
        BY <2>2, <2>3, <3>1
      <4>3. Len(readings'[t]) >= BatchSize => Len(readings'[t]) = BatchSize
        BY <1>1, <1>3, <3>1, <4>1
      <4> QED
        BY <1>3, <2>2, <3>1, <4>2, <4>3 DEF Last
    <3>2. CASE t # s
      BY <1>1, <1>3, <2>2, <3>2 DEF RoomLeft
    <3> QED
      BY <3>1, <3>2
  <2> QED
    BY <2>4, <2>5 DEF WorkInv
<1>4. ASSUME NEW s \in SensorIds, Sample(s)
      PROVE  WorkInv'
  <2>1. /\ Due(s) /\ position' = [position EXCEPT ![s] = @ + 1]
        /\ readings' = [readings EXCEPT ![s] = Append(@, Upcoming(s).at)]
        /\ worker[s] = "running" /\ UNCHANGED elapsed
    BY <1>4 DEF Sample, Due
  <2>2. Upcoming(s).at \in Int /\ position[s] + 1 \in 0..Len(Schedule)
    BY <1>1, <2>1, UpcomingTyped
  <2>3. position' \in [SensorIds -> 0..Len(Schedule)]
    BY <1>1, <2>1, <2>2 DEF WorkType
  <2>4. /\ readings[s] \in Seq(Int) /\ Len(readings[s]) \in Nat
        /\ Len(readings[s]) < BatchSize
    <3>1. readings[s] \in Seq(Int) /\ Len(readings[s]) \in Nat
      BY <1>1 DEF WorkType
    <3>2. ~(Len(readings[s]) >= BatchSize)
      BY <1>1, <2>1 DEF RoomLeft
    <3> QED
      BY <1>1, <3>1, <3>2
  <2>5. /\ readings' \in [SensorIds -> Seq(Int)]
        /\ readings'[s] \in Seq(Int) /\ Len(readings'[s]) = Len(readings[s]) + 1
        /\ \A t \in SensorIds \ {s} : readings'[t] = readings[t]
    <3>1. /\ Append(readings[s], Upcoming(s).at) \in Seq(Int)
          /\ Len(Append(readings[s], Upcoming(s).at)) = Len(readings[s]) + 1
      BY <2>2, <2>4, AppendProperties
    <3>2. readings \in [SensorIds -> Seq(Int)]
      BY <1>1 DEF WorkType
    <3> HIDE DEF Upcoming
    <3> QED
      BY <2>1, <3>1, <3>2
  <2>6. CASE Len(readings'[s]) >= BatchSize
    <3>1. Send(s, Batch(readings'[s]))
      BY <1>4, <2>6 DEF Sample
    <3>2. Batch(readings'[s]) \in Messages /\ Batch(readings'[s]).type = "DATA_BATCH"
      BY <2>5 DEF Batch, Messages
    <3>3. Len(readings'[s]) <= BatchSize
      BY <1>1, <2>4, <2>5
    <3> QED
      BY <1>3, <2>1, <2>3, <2>5, <3>1, <3>2, <3>3
  <2>7. CASE ~(Len(readings'[s]) >= BatchSize)
    <3>1. UNCHANGED <<sent, worker>>
      BY <1>4, <2>7 DEF Sample
    <3>2. WorkType'
      BY <1>1, <2>1, <2>3, <2>5, <3>1 DEF WorkType
    <3>3. \A t \in SensorIds : t = s \/ readings'[t] = readings[t]
      BY <2>5
    <3>4. Len(readings'[s]) <= BatchSize
      BY <1>1, <2>4, <2>5, <2>7
    <3>5. RoomLeft'
      BY <1>1, <2>1, <2>7, <3>1, <3>3, <3>4 DEF RoomLeft
    <3> QED
      BY <3>2, <3>5 DEF WorkInv
  <2> QED
    BY <2>6, <2>7
<1>5. ASSUME NEW s \in SensorIds, SendEvent(s)
      PROVE  WorkInv'
  <2> DEFINE m == Single(Upcoming(s))
  <2>1. /\ Due(s) /\ position' = [position EXCEPT ![s] = @ + 1]
        /\ Send(s, m) /\ worker[s] = "running" /\ UNCHANGED <<elapsed, readings>>
    BY <1>5 DEF SendEvent, Due
  <2>2. Upcoming(s).at \in Int /\ position[s] + 1 \in 0..Len(Schedule)
    BY <1>1, <2>1, UpcomingTyped
  <2>3. position' \in [SensorIds -> 0..Len(Schedule)]
    BY <1>1, <2>1, <2>2 DEF WorkType
  <2>4. m \in Messages /\ m.type # "DATA_BATCH"
    BY <2>2 DEF Single, Messages
  <2>5. /\ readings \in [SensorIds -> Seq(Int)] /\ Len(readings[s]) \in Nat
        /\ Len(readings[s]) < BatchSize
    <3>1. readings \in [SensorIds -> Seq(Int)] /\ Len(readings[s]) \in Nat
      BY <1>1 DEF WorkType
    <3>2. ~(Len(readings[s]) >= BatchSize)
      BY <1>1, <2>1 DEF RoomLeft
    <3> QED
      BY <1>1, <3>1, <3>2
  <2> HIDE DEF m
  <2> QED
    BY <1>1, <1>3, <2>1, <2>3, <2>4, <2>5
<1>6. ASSUME NEW s \in SensorIds, SendReturns(s)
      PROVE  WorkInv'
  <2>1. /\ worker[s] = "sending" /\ worker' = [worker EXCEPT ![s] = "running"]
        /\ readings' = [readings EXCEPT ![s] = Unsent(s)]
        /\ UNCHANGED <<elapsed, position, sent>>
    BY <1>6 DEF SendReturns
  <2>2. readings[s] \in Seq(Int) /\ Len(readings[s]) \in Nat
    BY <1>1 DEF WorkType
  <2>3. Unsent(s) \in Seq(Int) /\ Len(Unsent(s)) < BatchSize
    <3>1. CASE Last(sent[s]).type = "DATA_BATCH"
      BY <1>1, <3>1 DEF Unsent
    <3>2. CASE Last(sent[s]).type # "DATA_BATCH"
      BY <1>1, <2>1, <2>2, <3>2 DEF Unsent, RoomLeft
    <3> QED
      BY <3>1, <3>2
  <2>4. /\ readings' \in [SensorIds -> Seq(Int)]
        /\ readings'[s] = Unsent(s) /\ worker'[s] = "running"
        /\ \A t \in SensorIds \ {s} :
              readings'[t] = readings[t] /\ worker'[t] = worker[t]
    <3>1. readings \in [SensorIds -> Seq(Int)]
      BY <1>1 DEF WorkType
    <3> HIDE DEF Unsent
    <3> QED
      BY <1>1, <2>1, <2>3, <3>1 DEF MainType
  <2>5. WorkType'
    BY <1>1, <2>1, <2>4 DEF WorkType
  <2>6. RoomLeft'
    <3>1. ~(Len(readings'[s]) >= BatchSize) /\ Len(readings'[s]) <= BatchSize
      <4>1. Len(Unsent(s)) \in Nat
        BY <2>3
      <4> QED
        BY <1>1, <2>3, <2>4, <4>1
    <3> QED
      BY <1>1, <2>1, <2>4, <3>1 DEF RoomLeft
  <2> QED
    BY <2>5, <2>6 DEF WorkInv
<1>7. ASSUME NEW s \in SensorIds, Flush(s)
      PROVE  WorkInv'
  <2>1. /\ Send(s, Batch(readings[s])) /\ UNCHANGED <<elapsed, position, readings>>
        /\ readings[s] \in Seq(Int) /\ Len(readings[s]) <= BatchSize
    BY <1>1, <1>7 DEF Flush, WorkType, RoomLeft
  <2>2. Batch(readings[s]) \in Messages /\ Batch(readings[s]).type = "DATA_BATCH"
    BY <2>1 DEF Batch, Messages
  <2> QED
    BY <1>1, <1>3, <2>1, <2>2 DEF WorkType
<1>8. ASSUME NEW s \in SensorIds, WorkerGate(s) \/ WorkerStart(s) \/ WorkerDone(s)
                                   \/ SubmitWorker(s)
      PROVE  WorkInv'
  <2>1. worker[s] \notin {"sending", "failed"}
    BY <1>8 DEF IInv, Phases, MainType, WorkerGate, WorkerStart, WorkerDone,
       ScheduleDone, SubmitWorker, NextClient
  <2>2. Len(readings[s]) \in Nat /\ Len(readings[s]) < BatchSize
    BY <1>1, <2>1 DEF WorkType, RoomLeft
  <2>3. /\ UNCHANGED <<elapsed, position, readings, sent>>
        /\ \A t \in SensorIds \ {s} : worker'[t] = worker[t]
        /\ worker'[s] # "sending"
    BY <1>1, <1>8 DEF WorkerGate, WorkerStart, WorkerDone, SubmitWorker, workVars,
       MainType
  <2> QED
    BY <1>2, <2>2, <2>3
<1>9. ASSUME NEW s \in SensorIds, SendRaises(s)
      PROVE  WorkInv'
  <2>1. /\ UNCHANGED <<elapsed, position, readings, sent>>
        /\ \A t \in SensorIds \ {s} : worker'[t] = worker[t]
        /\ worker[s] = "sending" /\ worker'[s] = "failed"
    BY <1>1, <1>9 DEF SendRaises, workVars, MainType
  <2> QED
    BY <1>2, <2>1
<1>10. CASE Tick
  <2>1. elapsed' \in [SensorIds -> 0..Duration]
    <3>1. Duration \in Nat /\ elapsed \in [SensorIds -> 0..Duration]
      BY <1>1, Constants DEF WorkType
    <3> QED
      BY <1>10, <3>1 DEF Tick
  <2> QED
    BY <1>1, <1>10, <2>1 DEF Tick, WorkInv, WorkType, RoomLeft
<1>11. CASE UNCHANGED <<worker, workVars>>
  BY <1>1, <1>11 DEF workVars, WorkInv, WorkType, RoomLeft
<1>12. CASE \/ RegisterSensor \/ RegisterRaises \/ AllRegistered \/ ReachGate
            \/ PassGate \/ Collect \/ End \/ UNCHANGED vars
            \/ \E s \in SensorIds : SubmitFails(s) \/ CloseClient(s)
  BY <1>11, <1>12 DEF RegisterSensor, RegisterRaises, AllRegistered, ReachGate,
     PassGate, Collect, End, vars, SubmitFails, CloseClient
<1> QED
  BY <1>4, <1>5, <1>6, <1>7, <1>8, <1>9, <1>10, <1>12
     DEF Next, RunStep, WorkerStep

-----------------------------------------------------------------------------
(* The workload *)

\* The first p events are those before sample n + 1, the others come after.
Begun(p, n) ==
  \A k \in 1..Len(Schedule) :
    Schedule[k].priority = 0 => (k <= p <=> Schedule[k].at < n * SampleInterval)

\* Full batches, which are numbered by b, followed by what is pending.
InBatches(messages) == Cardinality(Batches(messages)) * BatchSize
FullBatches(messages) ==
  InPlace(messages) /\ \A i \in Batches(messages) : Len(messages[i].readings) = BatchSize
Counted(p, pending, messages) ==
  /\ FullBatches(messages)
  /\ Begun(p, InBatches(messages) + Len(pending))
  /\ \A j \in DOMAIN pending :
       pending[j] = (InBatches(messages) + j - 1) * SampleInterval

\* While a full batch is on its way, its readings are still pending.
CountedInLast(p, pending, messages) ==
  /\ FullBatches(messages)
  /\ Len(messages) \in Batches(messages)
  /\ pending = messages[Len(messages)].readings
  /\ Begun(p, InBatches(messages))

\* Where each message and each reading comes from, and what became of each event.
From(p, messages) ==
  \A i \in DOMAIN messages : \E k \in 1..p : EventOf(messages[i]) = Schedule[k]
Ordered(messages) ==
  \A i, j \in DOMAIN messages :
    i < j => Before(EventOf(messages[i]), EventOf(messages[j]))
Sampled(pending, messages) ==
  /\ Range(pending) \subseteq Offsets(SampleInterval)
  /\ \A i \in Batches(messages) :
       Range(messages[i].readings) \subseteq Offsets(SampleInterval)
Offered(e, pending, messages) ==
  IF e.priority = 0
  THEN \/ e.at \in Range(pending)
       \/ \E i \in Batches(messages) : e.at \in Range(messages[i].readings)
  ELSE \E i \in Singles(messages) : EventOf(messages[i]) = e
Traced(p, pending, messages) ==
  /\ From(p, messages) /\ Ordered(messages) /\ Sampled(pending, messages)
  /\ \A k \in 1..p : Offered(Schedule[k], pending, messages)

Workload(messages) == InPlace(messages) /\ Complete(messages) /\ InOrder(messages)

LastIsBatch(s) == worker[s] = "sending" /\ Last(sent[s]).type = "DATA_BATCH"
Replaying(s) ==
  /\ worker[s] # "done"
  /\ IF LastIsBatch(s) THEN CountedInLast(position[s], readings[s], sent[s])
     ELSE Counted(position[s], readings[s], sent[s])
  /\ Traced(position[s], readings[s], sent[s])
Replayed(s) ==
  /\ worker[s] \in {"running", "sending", "done"}
  /\ position[s] = Len(Schedule) /\ Workload(sent[s])
  /\ IF worker[s] = "sending" THEN LastIsBatch(s) ELSE readings[s] = <<>>
WorkloadInv ==
  \A s \in SensorIds : worker[s] # "failed" => Replaying(s) \/ Replayed(s)

-----------------------------------------------------------------------------
(* Counting samples *)

LEMMA Multiples ==
  /\ \A a, b \in Nat : a < b <=> a * SampleInterval < b * SampleInterval
  /\ \A a \in Nat : a * SampleInterval \in Nat
<1>1. SampleInterval \in Nat \ {0}
  BY Constants
<1>2. ASSUME NEW a \in Nat, NEW b \in Nat
      PROVE  a < b <=> a * SampleInterval < b * SampleInterval
  <2>1. CASE a < b
    <3>1. PICK d \in Nat \ {0} : b = a + d
      <4>1. b - a \in Nat \ {0} /\ b = a + (b - a)
        BY <2>1
      <4> QED
        BY <4>1
    <3>2. b * SampleInterval = a * SampleInterval + d * SampleInterval
      BY <1>1, <3>1
    <3>3. d * SampleInterval > 0 /\ a * SampleInterval \in Int
      BY <1>1
    <3>4. d * SampleInterval \in Int
      BY <1>1
    <3> QED
      BY <2>1, <3>2, <3>3, <3>4
  <2>2. CASE ~(a < b)
    <3>1. PICK d \in Nat : a = b + d
      <4>1. a - b \in Nat /\ a = b + (a - b)
        BY <2>2
      <4> QED
        BY <4>1
    <3>2. a * SampleInterval = b * SampleInterval + d * SampleInterval
      BY <1>1, <3>1
    <3>3. d * SampleInterval >= 0 /\ b * SampleInterval \in Int
      BY <1>1
    <3>4. d * SampleInterval \in Int
      BY <1>1
    <3> QED
      BY <2>2, <3>2, <3>3, <3>4
  <2> QED
    BY <2>1, <2>2
<1> QED
  BY <1>1, <1>2

LEMMA OffsetsAre ==
  /\ \A t \in Offsets(SampleInterval) :
       t < Duration /\ \E a \in Nat : t = a * SampleInterval
  /\ \A a \in Nat : a * SampleInterval < Duration =>
       a * SampleInterval \in Offsets(SampleInterval)
<1>1. SampleInterval \in Nat \ {0} /\ Duration \in Nat
  BY Constants
<1>2. \A t \in Offsets(SampleInterval) :
       t < Duration /\ \E a \in Nat : t = a * SampleInterval
  BY <1>1 DEF Offsets
<1>3. ASSUME NEW a \in Nat, a * SampleInterval < Duration
      PROVE  a * SampleInterval \in Offsets(SampleInterval)
  <2>1. a * SampleInterval >= a
    BY <1>1
  <2>2. a * SampleInterval \in 0..(Duration - 1)
    BY <1>1, <1>3, Multiples
  <2>3. a \in 0..Duration
    BY <1>1, <1>3, <2>1, <2>2
  <2> QED
    BY <2>2, <2>3 DEF Offsets
<1> QED
  BY <1>2, <1>3

\* The sample whose turn it is follows those begun.
LEMMA NextSample ==
  ASSUME NEW p \in 0..(Len(Schedule) - 1), NEW n \in Nat, Begun(p, n),
         Schedule[p + 1].priority = 0
  PROVE  /\ Schedule[p + 1].at = n * SampleInterval
         /\ Schedule[p + 1].at \in Offsets(SampleInterval)
         /\ Begun(p + 1, n + 1)
<1> DEFINE e == Schedule[p + 1]
<1>1. p + 1 \in 1..Len(Schedule) /\ e \in Events /\ Len(Schedule) \in Nat
  BY ScheduleSorted
<1>2. e.at \in Offsets(SampleInterval) /\ e.at \in Int
  BY <1>1, EventsTyped
<1>3. PICK a \in Nat : e.at = a * SampleInterval
  BY <1>2, OffsetsAre
<1>4. ~(e.at < n * SampleInterval)
  BY <1>1 DEF Begun
<1>5. ~(a < n)
  BY <1>3, <1>4, Multiples
<1>6. ~(n < a)
  <2> SUFFICES ASSUME n < a
               PROVE  FALSE
    OBVIOUS
  <2>1. n * SampleInterval < e.at /\ n * SampleInterval \in Nat
    BY <1>3, Multiples
  <2>2. n * SampleInterval \in Offsets(SampleInterval)
    <3>1. e.at < Duration /\ Duration \in Nat
      BY <1>2, OffsetsAre, Constants
    <3> QED
      BY <1>2, <2>1, <3>1, OffsetsAre
  <2> DEFINE f == [at |-> n * SampleInterval, priority |-> 0]
  <2>3. PICK j \in 1..Len(Schedule) : Schedule[j] = f
    BY <2>2, SampleEvents, ScheduleSorted
  <2>4. Before(f, e) /\ f \in Events
    BY <2>1, <2>2, SampleEvents DEF Before
  <2>5. ~ Before(e, f) /\ e # f
    BY <1>1, <2>4, BeforeOrders
  <2>6. j < p + 1
    <3>1. j < p + 1 \/ j = p + 1 \/ p + 1 < j
      BY <1>1
    <3>2. ~(p + 1 < j)
      BY <1>1, <2>3, <2>5, ScheduleSorted
    <3> QED
      BY <2>3, <2>5, <3>1, <3>2
  <2>7. f.at < n * SampleInterval
    BY <1>1, <2>3, <2>6 DEF Begun
  <2> QED
    BY <2>1, <2>7
<1>7. e.at = n * SampleInterval
  BY <1>3, <1>5, <1>6
<1>8. ASSUME NEW k \in 1..Len(Schedule), Schedule[k].priority = 0
      PROVE  k <= p + 1 <=> Schedule[k].at < (n + 1) * SampleInterval
  <2>1. Schedule[k] \in Events /\ Schedule[k].at \in Offsets(SampleInterval)
    BY <1>8, ScheduleSorted, EventsTyped
  <2>2. PICK b \in Nat : Schedule[k].at = b * SampleInterval
    BY <2>1, OffsetsAre
  <2>3. k <= p <=> b < n
    BY <1>8, <2>2, Multiples DEF Begun
  <2>4. Schedule[k].at < (n + 1) * SampleInterval <=> b < n + 1
    <3>1. n + 1 \in Nat
      OBVIOUS
    <3> QED
      BY <2>2, <3>1, Multiples
  <2>5. k = p + 1 <=> b = n
    <3>1. k = p + 1 => b = n
      <4>1. b < n \/ n < b \/ b = n
        OBVIOUS
      <4> QED
        BY <1>7, <2>2, <4>1, Multiples
    <3>2. b = n => Schedule[k] = e
      BY <1>1, <1>7, <1>8, <2>1, <2>2, EventsTyped
    <3>3. Schedule[k] = e => k = p + 1
      <4>1. ~ Before(Schedule[k], e) \/ Schedule[k] # e
        BY <1>1, BeforeOrders
      <4>2. ~ Before(e, Schedule[k]) \/ Schedule[k] # e
        BY <1>1, BeforeOrders
      <4>3. k < p + 1 \/ p + 1 < k \/ k = p + 1
        BY <1>1
      <4> QED
        BY <1>1, <4>1, <4>2, <4>3, ScheduleSorted
    <3> QED
      BY <3>1, <3>2, <3>3
  <2> QED
    BY <1>1, <2>3, <2>4, <2>5
<1> QED
  BY <1>2, <1>7, <1>8 DEF Begun

LEMMA NextSingle ==
  ASSUME NEW p \in 0..(Len(Schedule) - 1), NEW n \in Nat, Begun(p, n),
         Schedule[p + 1].priority # 0
  PROVE  Begun(p + 1, n)
<1>1. Len(Schedule) \in Nat
  BY ScheduleSorted
<1>2. ASSUME NEW k \in 1..Len(Schedule), Schedule[k].priority = 0
      PROVE  k <= p + 1 <=> k <= p
  BY <1>1, <1>2
<1> QED
  BY <1>2 DEF Begun

LEMMA NoneBegun == Begun(0, 0)
<1>1. ASSUME NEW k \in 1..Len(Schedule), Schedule[k].priority = 0
      PROVE  ~(Schedule[k].at < 0 * SampleInterval)
  <2>1. Schedule[k] \in Events
    BY ScheduleSorted
  <2>2. Schedule[k].at \in Offsets(SampleInterval)
    BY <1>1, <2>1, EventsTyped
  <2>3. \E a \in Nat : Schedule[k].at = a * SampleInterval
    BY <2>2, OffsetsAre
  <2>4. 0 * SampleInterval = 0
    BY Constants
  <2> QED
    BY <2>3, <2>4, Multiples
<1> QED
  BY <1>1, ScheduleSorted DEF Begun

\* Messages A are messages M and then message m.
Extended(A, M, m) ==
  /\ M \in Seq(Messages) /\ m \in Messages /\ A \in Seq(Messages)
  /\ DOMAIN M = 1..Len(M) /\ Len(A) = Len(M) + 1 /\ DOMAIN A = 1..(Len(M) + 1)
  /\ A[Len(M) + 1] = m /\ \A i \in 1..Len(M) : A[i] = M[i]

LEMMA AppendExtends ==
  ASSUME NEW M \in Seq(Messages), NEW m \in Messages
  PROVE  Extended(Append(M, m), M, m) /\ Last(Append(M, m)) = m
<1> DEFINE A == Append(M, m)
<1>1. /\ A \in Seq(Messages) /\ Len(M) \in Nat /\ Len(A) = Len(M) + 1
      /\ A[Len(M) + 1] = m /\ \A i \in 1..Len(M) : A[i] = M[i]
  BY AppendProperties, LenProperties
<1> HIDE DEF A
<1>2. DOMAIN M = 1..Len(M) /\ DOMAIN A = 1..(Len(M) + 1)
  BY <1>1, LenProperties
<1>3. Extended(A, M, m) /\ Last(A) = m
  BY <1>1, <1>2 DEF Last, Extended
<1> QED
  BY <1>3 DEF A

LEMMA ExtendedCounts ==
  ASSUME NEW A, NEW M, NEW m, Extended(A, M, m), NEW i \in 1..Len(M)
  PROVE  A[i] = M[i] /\ BatchesUpTo(A, i) = BatchesUpTo(M, i)
<1>1. Len(M) \in Nat /\ \A k \in 1..Len(M) : A[k] = M[k]
  BY LenProperties DEF Extended
<1>2. \A k \in 1..i : k \in 1..Len(M)
  BY <1>1
<1> QED
  BY <1>1, <1>2 DEF BatchesUpTo

LEMMA ExtendedSets ==
  ASSUME NEW A, NEW M, NEW m, Extended(A, M, m)
  PROVE  /\ Batches(M) \subseteq 1..Len(M) /\ Singles(M) \subseteq 1..Len(M)
         /\ m.type = "DATA_BATCH" =>
              /\ Batches(A) = Batches(M) \cup {Len(M) + 1}
              /\ Singles(A) = Singles(M)
         /\ m.type # "DATA_BATCH" =>
              /\ Batches(A) = Batches(M)
              /\ Singles(A) = Singles(M) \cup {Len(M) + 1}
<1>1. /\ Len(M) \in Nat /\ Len(A) = Len(M) + 1
      /\ DOMAIN M = 1..Len(M) /\ DOMAIN A = 1..(Len(M) + 1)
      /\ A[Len(M) + 1] = m /\ \A i \in 1..Len(M) : A[i] = M[i]
  BY LenProperties DEF Extended
<1>2. 1..(Len(M) + 1) = 1..Len(M) \cup {Len(M) + 1} /\ Len(M) + 1 \notin 1..Len(M)
  BY <1>1
<1>3. /\ Batches(M) = {k \in 1..Len(M) : M[k].type = "DATA_BATCH"}
      /\ Batches(A) = {k \in 1..(Len(M) + 1) : A[k].type = "DATA_BATCH"}
  BY <1>1 DEF Batches, BatchesUpTo
<1>4. \A k \in 1..Len(M) : k \in Batches(A) <=> k \in Batches(M)
  BY <1>1, <1>2, <1>3
<1>5. Len(M) + 1 \in Batches(A) <=> m.type = "DATA_BATCH"
  BY <1>1, <1>2, <1>3
<1>6. Batches(M) \subseteq 1..Len(M) /\ Batches(A) \subseteq 1..Len(M) \cup {Len(M) + 1}
  BY <1>2, <1>3
<1>7. /\ Singles(M) = 1..Len(M) \ Batches(M)
      /\ Singles(A) = (1..Len(M) \cup {Len(M) + 1}) \ Batches(A)
  BY <1>1, <1>2 DEF Singles
<1>8. CASE m.type = "DATA_BATCH"
  <2>1. Batches(A) = Batches(M) \cup {Len(M) + 1}
    BY <1>4, <1>5, <1>6, <1>8
  <2> QED
    BY <1>2, <1>4, <1>5, <1>6, <1>7, <1>8, <2>1
<1>9. CASE m.type # "DATA_BATCH"
  <2>1. Batches(A) = Batches(M)
    BY <1>4, <1>5, <1>6, <1>9
  <2> QED
    BY <1>2, <1>4, <1>5, <1>6, <1>7, <1>9, <2>1
<1> QED
  BY <1>6, <1>7, <1>8, <1>9

LEMMA BatchesFinite ==
  ASSUME NEW M \in Seq(Messages)
  PROVE  /\ IsFiniteSet(Batches(M)) /\ Cardinality(Batches(M)) \in Nat
         /\ InBatches(M) \in Nat
<1>1. IsFiniteSet(1..Len(M)) /\ Batches(M) \subseteq 1..Len(M)
  BY LenProperties, FS_Interval DEF Batches, BatchesUpTo
<1>2. IsFiniteSet(Batches(M)) /\ Cardinality(Batches(M)) \in Nat
  BY <1>1, FS_Subset, FS_CardinalityType
<1> QED
  BY <1>2, Constants DEF InBatches

\* A batch makes one batch more, a single message none.
LEMMA ExtendedNumber ==
  ASSUME NEW A, NEW M, NEW m, Extended(A, M, m)
  PROVE  /\ m.type = "DATA_BATCH" =>
              /\ (Cardinality(BatchesUpTo(A, Len(M) + 1)) - 1) * BatchSize = InBatches(M)
              /\ InBatches(A) = InBatches(M) + BatchSize
         /\ m.type # "DATA_BATCH" => InBatches(A) = InBatches(M)
<1>1. CASE m.type = "DATA_BATCH"
  <2>1. Batches(A) = Batches(M) \cup {Len(M) + 1} /\ Len(M) + 1 \notin Batches(M)
    <3>1. Batches(M) \subseteq 1..Len(M) /\ Batches(A) = Batches(M) \cup {Len(M) + 1}
      BY <1>1, ExtendedSets
    <3>2. Len(M) + 1 \notin 1..Len(M)
      BY LenProperties DEF Extended
    <3> QED
      BY <3>1, <3>2
  <2>2. Cardinality(Batches(A)) = Cardinality(Batches(M)) + 1
    BY <2>1, BatchesFinite, FS_AddElement DEF Extended
  <2>3. Batches(A) = BatchesUpTo(A, Len(M) + 1)
    BY DEF Batches, Extended
  <2> DEFINE c == Cardinality(Batches(M))
  <2>4. c \in Nat /\ BatchSize \in Nat
    BY BatchesFinite, Constants DEF Extended
  <2> HIDE DEF c
  <2>5. (c + 1) * BatchSize = c * BatchSize + BatchSize /\ c + 1 - 1 = c
    BY <2>4
  <2>6. Cardinality(BatchesUpTo(A, Len(M) + 1)) = c + 1
    BY <2>2, <2>3 DEF c
  <2>7. InBatches(M) = c * BatchSize /\ InBatches(A) = (c + 1) * BatchSize
    BY <2>2 DEF InBatches, c
  <2>8. Cardinality(BatchesUpTo(A, Len(M) + 1)) - 1 = c
    BY <2>4, <2>6
  <2> QED
    BY <1>1, <2>5, <2>7, <2>8
<1>2. CASE m.type # "DATA_BATCH"
  BY <1>2, ExtendedSets DEF InBatches
<1> QED
  BY <1>1, <1>2

LEMMA BatchMessage ==
  ASSUME NEW R \in Seq(Int)
  PROVE  Batch(R) \in Messages /\ Batch(R).type = "DATA_BATCH" /\ Batch(R).readings = R
BY DEF Batch, Messages

LEMMA SingleMessage ==
  ASSUME NEW e \in Events, e.priority # 0
  PROVE  Single(e) \in Messages /\ Single(e).type # "DATA_BATCH" /\ EventOf(Single(e)) = e
<1>1. /\ e = [at |-> e.at, priority |-> e.priority]
      /\ e.at \in Int /\ e.priority \in {1, 2}
  BY EventsTyped
<1>2. Single(e) \in Messages /\ Single(e).type # "DATA_BATCH"
  BY <1>1 DEF Single, Messages
<1>3. EventOf(Single(e)) = [at |-> e.at, priority |-> e.priority]
  BY <1>1 DEF EventOf, Single
<1> QED
  BY <1>1, <1>2, <1>3

-----------------------------------------------------------------------------
(* Counting readings *)

\* Readings that stay in place.
LEMMA InPlaceStays ==
  ASSUME NEW A, NEW M, NEW m, Extended(A, M, m), InPlace(M)
  PROVE  /\ \A i \in Batches(M) :
              /\ A[i] = M[i] /\ Len(A[i].readings) \in 1..BatchSize
              /\ \A j \in DOMAIN A[i].readings :
                   A[i].readings[j] = ((Cardinality(BatchesUpTo(A, i)) - 1) * BatchSize
                                         + j - 1) * SampleInterval
         /\ m.type # "DATA_BATCH" => InPlace(A)
<1>1. \A i \in 1..Len(M) : A[i] = M[i] /\ BatchesUpTo(A, i) = BatchesUpTo(M, i)
  BY ExtendedCounts
<1>2. Batches(M) \subseteq 1..Len(M) /\ (m.type # "DATA_BATCH" => Batches(A) = Batches(M))
  BY ExtendedSets
<1>3. \A i \in Batches(M) :
         /\ A[i] = M[i] /\ Len(A[i].readings) \in 1..BatchSize
         /\ \A j \in DOMAIN A[i].readings :
              A[i].readings[j] = ((Cardinality(BatchesUpTo(A, i)) - 1) * BatchSize
                                    + j - 1) * SampleInterval
  <2> TAKE i \in Batches(M)
  <2>1. A[i] = M[i] /\ BatchesUpTo(A, i) = BatchesUpTo(M, i)
    BY <1>1, <1>2
  <2>2. /\ Len(M[i].readings) \in 1..BatchSize
        /\ \A j \in DOMAIN M[i].readings :
              M[i].readings[j] = ((Cardinality(BatchesUpTo(M, i)) - 1) * BatchSize
                                    + j - 1) * SampleInterval
    BY DEF InPlace
  <2> QED
    BY <2>1, <2>2
<1>4. ASSUME m.type # "DATA_BATCH"
      PROVE  InPlace(A)
  BY <1>2, <1>3, <1>4 DEF InPlace
<1> QED
  BY <1>3, <1>4

LEMMA InPlaceBatch ==
  ASSUME NEW A, NEW M, NEW R \in Seq(Int), Extended(A, M, Batch(R)),
         InPlace(M), Len(R) \in 1..BatchSize,
         \A j \in DOMAIN R : R[j] = (InBatches(M) + j - 1) * SampleInterval
  PROVE  InPlace(A)
<1>0. Batch(R) \in Messages /\ Batch(R).type = "DATA_BATCH" /\ Batch(R).readings = R
  BY BatchMessage
<1>1. A[Len(M) + 1].readings = R
  BY <1>0 DEF Extended
<1>2. Batches(A) = Batches(M) \cup {Len(M) + 1}
  BY <1>0, ExtendedSets
<1>3. (Cardinality(BatchesUpTo(A, Len(M) + 1)) - 1) * BatchSize = InBatches(M)
  BY <1>0, ExtendedNumber
<1>4. \A i \in Batches(M) :
        /\ Len(A[i].readings) \in 1..BatchSize
        /\ \A j \in DOMAIN A[i].readings :
             A[i].readings[j] = ((Cardinality(BatchesUpTo(A, i)) - 1) * BatchSize
                                   + j - 1) * SampleInterval
  BY <1>0, InPlaceStays
<1>5. \A j \in DOMAIN A[Len(M) + 1].readings :
        A[Len(M) + 1].readings[j]
          = ((Cardinality(BatchesUpTo(A, Len(M) + 1)) - 1) * BatchSize + j - 1)
              * SampleInterval
  BY <1>1, <1>3
<1>6. Len(A[Len(M) + 1].readings) \in 1..BatchSize
  BY <1>1
<1>7. ASSUME NEW i \in Batches(A)
      PROVE  i \in Batches(M) \/ i = Len(M) + 1
  BY <1>2
<1> QED
  BY <1>4, <1>5, <1>6, <1>7 DEF InPlace

LEMMA CountSample ==
  ASSUME NEW M \in Seq(Messages), NEW R \in Seq(Int), NEW p \in 0..(Len(Schedule) - 1),
         Counted(p, R, M), Schedule[p + 1].priority = 0, Len(R) < BatchSize,
         NEW S, S = Append(R, Schedule[p + 1].at)
  PROVE  /\ S \in Seq(Int) /\ Len(S) = Len(R) + 1
         /\ Counted(p + 1, S, M)
         /\ \A A : Extended(A, M, Batch(S)) /\ Len(S) = BatchSize =>
                  CountedInLast(p + 1, S, A)
<1> DEFINE c == InBatches(M)
<1>1. c \in Nat /\ Len(R) \in Nat /\ DOMAIN R = 1..Len(R)
  BY BatchesFinite, LenProperties
<1>2. /\ FullBatches(M) /\ Begun(p, c + Len(R))
      /\ \A j \in DOMAIN R : R[j] = (c + j - 1) * SampleInterval
  BY DEF Counted
<1> HIDE DEF c
<1>3. /\ Schedule[p + 1].at = (c + Len(R)) * SampleInterval
      /\ Schedule[p + 1].at \in Offsets(SampleInterval)
      /\ Begun(p + 1, c + Len(R) + 1)
  <2>1. c + Len(R) \in Nat
    BY <1>1
  <2> QED
    BY <1>2, <2>1, NextSample
<1>4. Schedule[p + 1].at \in Int
  BY <1>3, OffsetsFinite, Constants
<1>5. /\ S \in Seq(Int) /\ Len(S) = Len(R) + 1 /\ DOMAIN S = 1..(Len(R) + 1)
      /\ S[Len(R) + 1] = Schedule[p + 1].at /\ \A j \in 1..Len(R) : S[j] = R[j]
  BY <1>4, AppendProperties, LenProperties
<1>6. \A j \in DOMAIN S : S[j] = (c + j - 1) * SampleInterval
  <2> TAKE j \in DOMAIN S
  <2>1. CASE j = Len(R) + 1
    <3>1. c + j - 1 = c + Len(R)
      BY <1>1, <2>1
    <3> QED
      BY <1>3, <1>5, <2>1, <3>1
  <2>2. CASE j # Len(R) + 1
    <3>1. j \in 1..Len(R)
      BY <1>1, <1>5, <2>2
    <3> QED
      BY <1>1, <1>2, <1>5, <3>1
  <2> QED
    BY <2>1, <2>2
<1>7. c + Len(S) = c + Len(R) + 1
  BY <1>1, <1>5
<1>8. Counted(p + 1, S, M)
  BY <1>2, <1>3, <1>6, <1>7 DEF Counted, c
<1>9. ASSUME NEW A, Extended(A, M, Batch(S)), Len(S) = BatchSize
      PROVE  CountedInLast(p + 1, S, A)
  <2>1. /\ Len(A) = Len(M) + 1 /\ A[Len(M) + 1].readings = S
        /\ \A i \in 1..Len(M) : A[i] = M[i]
    BY <1>5, <1>9, BatchMessage DEF Extended
  <2>2. /\ Batches(A) = Batches(M) \cup {Len(M) + 1} /\ Batches(M) \subseteq 1..Len(M)
        /\ InBatches(A) = c + BatchSize
    BY <1>5, <1>9, BatchMessage, ExtendedSets, ExtendedNumber DEF c
  <2>3. InPlace(A)
    <3>1. Len(S) \in 1..BatchSize /\ InPlace(M)
      BY <1>2, <1>9, Constants DEF FullBatches
    <3> QED
      BY <1>5, <1>6, <1>9, <3>1, InPlaceBatch DEF c
  <2>4. \A i \in Batches(A) : Len(A[i].readings) = BatchSize
    BY <1>2, <1>9, <2>1, <2>2 DEF FullBatches
  <2>5. Begun(p + 1, InBatches(A))
    BY <1>3, <1>7, <1>9, <2>2
  <2> QED
    BY <2>1, <2>2, <2>3, <2>4, <2>5 DEF CountedInLast, FullBatches
<1> QED
  BY <1>5, <1>8, <1>9

LEMMA CountSingle ==
  ASSUME NEW A, NEW M, NEW R \in Seq(Int), NEW p \in 0..(Len(Schedule) - 1),
         Counted(p, R, M), Schedule[p + 1].priority # 0,
         Extended(A, M, Single(Schedule[p + 1]))
  PROVE  Counted(p + 1, R, A)
<1> DEFINE m == Single(Schedule[p + 1])
<1>1. m \in Messages /\ m.type # "DATA_BATCH"
  <2>1. Schedule[p + 1] \in Events
    BY ScheduleSorted
  <2> QED
    BY <2>1, SingleMessage
<1>2. /\ FullBatches(M) /\ Begun(p, InBatches(M) + Len(R))
      /\ \A j \in DOMAIN R : R[j] = (InBatches(M) + j - 1) * SampleInterval
  BY DEF Counted
<1>3. InBatches(A) = InBatches(M) /\ Batches(A) = Batches(M)
  BY <1>1, ExtendedSets, ExtendedNumber
<1>4. FullBatches(A)
  <2>1. InPlace(A) /\ \A i \in Batches(M) : A[i] = M[i]
    BY <1>1, <1>2, InPlaceStays DEF FullBatches
  <2> QED
    BY <1>2, <1>3, <2>1 DEF FullBatches
<1>5. Begun(p + 1, InBatches(A) + Len(R))
  <2>1. InBatches(M) + Len(R) \in Nat
    BY BatchesFinite, LenProperties DEF Extended
  <2> QED
    BY <1>2, <1>3, <2>1, NextSingle
<1> QED
  BY <1>2, <1>3, <1>4, <1>5 DEF Counted

LEMMA CountReturn ==
  ASSUME NEW M \in Seq(Messages), NEW R, NEW p, CountedInLast(p, R, M)
  PROVE  Counted(p, <<>>, M)
<1>1. FullBatches(M) /\ Begun(p, InBatches(M))
  BY DEF CountedInLast
<1>2. InBatches(M) + Len(<<>>) = InBatches(M) /\ DOMAIN <<>> = {}
  BY BatchesFinite
<1> QED
  BY <1>1, <1>2 DEF Counted

-----------------------------------------------------------------------------
(* Tracing events *)

LEMMA RangeAppend ==
  ASSUME NEW R \in Seq(Int), NEW x \in Int
  PROVE  Range(Append(R, x)) = Range(R) \cup {x} /\ Last(Append(R, x)) = x
<1> DEFINE S == Append(R, x)
<1>1. /\ S \in Seq(Int) /\ Len(R) \in Nat /\ Len(S) = Len(R) + 1
      /\ S[Len(R) + 1] = x /\ \A i \in 1..Len(R) : S[i] = R[i]
  BY AppendProperties, LenProperties
<1> HIDE DEF S
<1>2. DOMAIN R = 1..Len(R) /\ DOMAIN S = 1..Len(R) \cup {Len(R) + 1}
  <2>1. DOMAIN R = 1..Len(R) /\ DOMAIN S = 1..(Len(R) + 1)
    BY <1>1, LenProperties
  <2> QED
    BY <1>1, <2>1
<1>3. Range(S) = Range(R) \cup {x}
  BY <1>1, <1>2 DEF Range
<1>4. Last(S) = x
  BY <1>1 DEF Last
<1> QED
  BY <1>3, <1>4 DEF S

\* A message for the next event comes last.
LEMMA NextMessage ==
  ASSUME NEW A, NEW M, NEW m, Extended(A, M, m), NEW p \in 0..(Len(Schedule) - 1),
         From(p, M), Ordered(M), EventOf(m) = Schedule[p + 1]
  PROVE  From(p + 1, A) /\ Ordered(A)
<1>1. /\ Len(M) \in Nat /\ DOMAIN M = 1..Len(M) /\ DOMAIN A = 1..(Len(M) + 1)
      /\ A[Len(M) + 1] = m /\ \A i \in 1..Len(M) : A[i] = M[i]
  BY LenProperties DEF Extended
<1>2. \A i \in DOMAIN A : i \in DOMAIN M \/ i = Len(M) + 1
  BY <1>1
<1>3. \A i \in DOMAIN M : A[i] = M[i] /\ i < Len(M) + 1
  BY <1>1
<1>4. p + 1 \in 1..(p + 1) /\ \A k \in 1..p : k \in 1..(p + 1)
  OBVIOUS
<1>5. From(p + 1, A)
  <2> SUFFICES ASSUME NEW i \in DOMAIN A
               PROVE  \E k \in 1..(p + 1) : EventOf(A[i]) = Schedule[k]
    BY DEF From
  <2>1. CASE i \in DOMAIN M
    <3>1. A[i] = M[i] /\ \E k \in 1..p : EventOf(M[i]) = Schedule[k]
      BY <1>3, <2>1 DEF From
    <3> QED
      BY <1>4, <3>1
  <2>2. CASE i = Len(M) + 1
    BY <1>1, <1>4, <2>2
  <2> QED
    BY <1>2, <2>1, <2>2
<1>6. Ordered(A)
  <2> SUFFICES ASSUME NEW i \in DOMAIN A, NEW j \in DOMAIN A, i < j
               PROVE  Before(EventOf(A[i]), EventOf(A[j]))
    BY DEF Ordered
  <2>1. CASE j \in DOMAIN M
    <3>1. i \in DOMAIN M
      BY <1>1, <2>1
    <3> QED
      BY <1>3, <2>1, <3>1 DEF Ordered
  <2>2. CASE j = Len(M) + 1
    <3>1. i \in DOMAIN M
      BY <1>1, <2>2
    <3>2. PICK k \in 1..p : EventOf(A[i]) = Schedule[k]
      BY <1>3, <3>1 DEF From
    <3>3. Before(Schedule[k], Schedule[p + 1])
      <4>1. Len(Schedule) \in Nat
        BY ScheduleSorted
      <4>2. k \in 1..Len(Schedule) /\ p + 1 \in 1..Len(Schedule) /\ k < p + 1
        BY <4>1
      <4> QED
        BY <4>2, ScheduleSorted
    <3> QED
      BY <1>1, <2>2, <3>2, <3>3
  <2> QED
    BY <1>2, <2>1, <2>2
<1> QED
  BY <1>5, <1>6

LEMMA FromStays ==
  ASSUME NEW M, NEW p \in Nat, From(p, M)
  PROVE  From(p + 1, M)
<1>1. \A k \in 1..p : k \in 1..(p + 1)
  OBVIOUS
<1> QED
  BY <1>1 DEF From

\* What has been offered stays offered.
LEMMA OfferedStays ==
  ASSUME NEW A, NEW M, NEW m, Extended(A, M, m), NEW R, NEW S,
         Range(R) \subseteq Range(S), NEW e, Offered(e, R, M)
  PROVE  Offered(e, S, A) /\ Offered(e, S, M)
<1>1. /\ Batches(M) \subseteq 1..Len(M) /\ Singles(M) \subseteq 1..Len(M)
      /\ Batches(M) \subseteq Batches(A) /\ Singles(M) \subseteq Singles(A)
  BY ExtendedSets
<1>2. \A i \in 1..Len(M) : A[i] = M[i]
  BY DEF Extended
<1>3. CASE e.priority = 0
  BY <1>1, <1>2, <1>3 DEF Offered
<1>4. CASE e.priority # 0
  BY <1>1, <1>2, <1>4 DEF Offered
<1> QED
  BY <1>3, <1>4

LEMMA TraceSample ==
  ASSUME NEW M \in Seq(Messages), NEW R \in Seq(Int), NEW p \in 0..(Len(Schedule) - 1),
         Traced(p, R, M), Schedule[p + 1].priority = 0,
         NEW S, S = Append(R, Schedule[p + 1].at)
  PROVE  /\ Traced(p + 1, S, M)
         /\ \A A : Extended(A, M, Batch(S)) => Traced(p + 1, S, A)
<1> DEFINE e == Schedule[p + 1]
<1>1. e \in Events /\ e.at \in Int /\ e.at \in Offsets(SampleInterval)
      /\ e = [at |-> e.at, priority |-> 0]
  <2>1. e \in Events
    BY ScheduleSorted
  <2> QED
    BY <2>1, EventsTyped
<1>2. Range(S) = Range(R) \cup {e.at} /\ Last(S) = e.at /\ S \in Seq(Int)
  BY <1>1, RangeAppend, AppendProperties
<1>3. Range(S) \subseteq Offsets(SampleInterval)
  BY <1>1, <1>2 DEF Traced, Sampled
<1>4. \A N : Offered(e, S, N)
  BY <1>2 DEF Offered
<1>5. \A k \in 1..(p + 1) : k \in 1..p \/ k = p + 1
  OBVIOUS
<1>6. Traced(p + 1, S, M)
  <2>1. From(p + 1, M) /\ Ordered(M) /\ Sampled(S, M)
    BY <1>3, FromStays DEF Traced, Sampled
  <2>2. \A k \in 1..p : Offered(Schedule[k], S, M)
    BY <1>2 DEF Traced, Offered
  <2> QED
    BY <1>4, <1>5, <2>1, <2>2 DEF Traced
<1>7. ASSUME NEW A, Extended(A, M, Batch(S))
      PROVE  Traced(p + 1, S, A)
  <2>1. /\ Batch(S).type = "DATA_BATCH" /\ Batch(S).readings = S
        /\ EventOf(Batch(S)) = e
    BY <1>1, <1>2, BatchMessage DEF EventOf
  <2>2. From(p + 1, A) /\ Ordered(A)
    BY <1>7, <2>1, NextMessage DEF Traced
  <2>3. Sampled(S, A)
    <3>1. /\ Batches(A) = Batches(M) \cup {Len(M) + 1} /\ Batches(M) \subseteq 1..Len(M)
          /\ A[Len(M) + 1].readings = S /\ \A i \in 1..Len(M) : A[i] = M[i]
      BY <1>7, <2>1, ExtendedSets DEF Extended
    <3> QED
      BY <1>3, <3>1 DEF Traced, Sampled
  <2>4. ASSUME NEW k \in 1..p
        PROVE  Offered(Schedule[k], S, A)
    <3>1. Offered(Schedule[k], R, M) /\ Range(R) \subseteq Range(S)
      BY <1>2 DEF Traced
    <3> QED
      BY <1>7, <3>1, OfferedStays
  <2> QED
    BY <1>4, <1>5, <2>2, <2>3, <2>4 DEF Traced
<1> QED
  BY <1>6, <1>7

LEMMA TraceSingle ==
  ASSUME NEW A, NEW M, NEW R, NEW p \in 0..(Len(Schedule) - 1),
         Traced(p, R, M), Schedule[p + 1].priority # 0,
         Extended(A, M, Single(Schedule[p + 1]))
  PROVE  Traced(p + 1, R, A)
<1> DEFINE e == Schedule[p + 1]
<1>1. e \in Events
  BY ScheduleSorted
<1>2. Single(e).type # "DATA_BATCH" /\ EventOf(Single(e)) = e
  BY <1>1, SingleMessage
<1>3. From(p + 1, A) /\ Ordered(A)
  BY <1>2, NextMessage DEF Traced
<1>4. /\ Batches(A) = Batches(M) /\ Batches(M) \subseteq 1..Len(M)
      /\ Singles(A) = Singles(M) \cup {Len(M) + 1}
      /\ A[Len(M) + 1] = Single(e) /\ \A i \in 1..Len(M) : A[i] = M[i]
  BY <1>2, ExtendedSets DEF Extended
<1>5. Sampled(R, A)
  BY <1>4 DEF Traced, Sampled
<1>6. \A k \in 1..p : Offered(Schedule[k], R, A)
  BY OfferedStays DEF Traced
<1>7. Offered(e, R, A)
  BY <1>2, <1>4 DEF Offered
<1>8. \A k \in 1..(p + 1) : k \in 1..p \/ k = p + 1
  OBVIOUS
<1> QED
  BY <1>3, <1>5, <1>6, <1>7, <1>8 DEF Traced

LEMMA TraceReturn ==
  ASSUME NEW M, NEW R, NEW p, Traced(p, R, M),
         Len(M) \in Batches(M), R = M[Len(M)].readings
  PROVE  Traced(p, <<>>, M)
<1>1. Range(<<>>) = {}
  BY DEF Range
<1>2. Sampled(<<>>, M)
  BY <1>1 DEF Traced, Sampled
<1>3. \A k \in 1..p : Offered(Schedule[k], <<>>, M)
  BY <1>1 DEF Traced, Offered
<1> QED
  BY <1>2, <1>3 DEF Traced

-----------------------------------------------------------------------------
(* The end of the schedule *)

LEMMA AllOffered ==
  ASSUME NEW R, NEW M, Traced(Len(Schedule), R, M)
  PROVE  \A e \in Events : Offered(e, R, M)
BY ScheduleSorted DEF Traced

\* If every reading is in a batch, the workload is complete.
LEMMA Completed ==
  ASSUME NEW M \in Seq(Messages), NEW p \in 0..Len(Schedule),
         \A i \in Singles(M) : \E k \in 1..p : EventOf(M[i]) = Schedule[k],
         Sampled(<<>>, M), \A e \in Events : Offered(e, <<>>, M)
  PROVE  Complete(M)
<1>1. Range(<<>>) = {}
  BY DEF Range
<1>2. UNION {Range(M[i].readings) : i \in Batches(M)} \subseteq Offsets(SampleInterval)
  BY DEF Sampled
<1>3. ASSUME NEW t \in Offsets(SampleInterval)
      PROVE  t \in UNION {Range(M[i].readings) : i \in Batches(M)}
  <2> DEFINE e == [at |-> t, priority |-> 0]
  <2>1. Offered(e, <<>>, M)
    BY <1>3, SampleEvents
  <2>2. \E i \in Batches(M) : t \in Range(M[i].readings)
    BY <1>1, <2>1 DEF Offered
  <2> QED
    BY <2>2
<1>4. ASSUME NEW i \in Singles(M)
      PROVE  EventOf(M[i]) \in {e \in Events : e.priority # 0}
  <2>1. EventOf(M[i]) \in Events
    <3>1. PICK k \in 1..p : EventOf(M[i]) = Schedule[k]
      OBVIOUS
    <3>2. k \in 1..Len(Schedule)
      BY ScheduleSorted
    <3> QED
      BY <3>1, <3>2, ScheduleSorted
  <2>2. M[i].type # "DATA_BATCH"
    BY <1>4, LenProperties DEF Singles, Batches, BatchesUpTo
  <2>3. EventOf(M[i]).priority # 0
    BY <2>2 DEF EventOf
  <2> QED
    BY <2>1, <2>3
<1>5. ASSUME NEW e \in Events, e.priority # 0
      PROVE  \E i \in Singles(M) : EventOf(M[i]) = e
  <2>1. Offered(e, <<>>, M)
    OBVIOUS
  <2> QED
    BY <1>5, <2>1 DEF Offered
<1>6. {EventOf(M[i]) : i \in Singles(M)} = {e \in Events : e.priority # 0}
  BY <1>4, <1>5
<1> QED
  BY <1>2, <1>3, <1>6 DEF Complete

LEMMA EndsFull ==
  ASSUME NEW M \in Seq(Messages), Counted(Len(Schedule), <<>>, M),
         Traced(Len(Schedule), <<>>, M)
  PROVE  Workload(M)
<1>1. InPlace(M)
  BY DEF Counted, FullBatches
<1>2. InOrder(M)
  BY DEF Traced, Ordered, InOrder
<1>3. Complete(M)
  <2>1. Len(Schedule) \in 0..Len(Schedule)
    BY ScheduleSorted
  <2>2. \A i \in Singles(M) : \E k \in 1..Len(Schedule) : EventOf(M[i]) = Schedule[k]
    BY DEF Traced, From, Singles
  <2> QED
    BY <2>1, <2>2, AllOffered, Completed DEF Traced
<1> QED
  BY <1>1, <1>2, <1>3 DEF Workload

LEMMA EndsShort ==
  ASSUME NEW A, NEW M, NEW R \in Seq(Int), R # <<>>, Len(R) < BatchSize,
         Extended(A, M, Batch(R)), Counted(Len(Schedule), R, M),
         Traced(Len(Schedule), R, M)
  PROVE  Workload(A)
<1>1. /\ Batch(R).type = "DATA_BATCH" /\ Batch(R).readings = R
      /\ Len(R) \in 1..BatchSize
  BY BatchMessage, EmptySeq, LenProperties, Constants
<1>2. InPlace(A)
  BY <1>1, InPlaceBatch DEF Counted, FullBatches
<1>3. /\ Len(M) \in Nat /\ Len(A) = Len(M) + 1 /\ A \in Seq(Messages)
      /\ DOMAIN M = 1..Len(M) /\ DOMAIN A = 1..(Len(M) + 1)
      /\ A[Len(M) + 1] = Batch(R) /\ \A i \in 1..Len(M) : A[i] = M[i]
  BY LenProperties DEF Extended
<1>4. /\ Batches(A) = Batches(M) \cup {Len(M) + 1} /\ Batches(M) \subseteq 1..Len(M)
      /\ Singles(A) = Singles(M) /\ Singles(M) \subseteq 1..Len(M)
  BY <1>1, ExtendedSets
<1>5. InOrder(A)
  <2> SUFFICES ASSUME NEW i \in DOMAIN A, NEW j \in DOMAIN A, i < j
               PROVE  \/ Before(EventOf(A[i]), EventOf(A[j]))
                      \/ /\ j = Len(A) /\ A[j].type = "DATA_BATCH"
                         /\ Len(A[j].readings) < BatchSize
    BY DEF InOrder
  <2>1. CASE j = Len(A)
    BY <1>1, <1>3, <2>1
  <2>2. CASE j # Len(A)
    <3>1. i \in DOMAIN M /\ j \in DOMAIN M /\ A[i] = M[i] /\ A[j] = M[j]
      BY <1>3, <2>2
    <3> QED
      BY <3>1 DEF Traced, Ordered
  <2> QED
    BY <2>1, <2>2
<1>6. Complete(A)
  <2>1. Len(Schedule) \in 0..Len(Schedule) /\ Range(<<>>) = {}
    BY ScheduleSorted DEF Range
  <2>2. \A i \in Singles(A) : \E k \in 1..Len(Schedule) : EventOf(A[i]) = Schedule[k]
    BY <1>3, <1>4 DEF Traced, From
  <2>3. Sampled(<<>>, A)
    BY <1>1, <1>3, <1>4, <2>1 DEF Traced, Sampled
  <2>4. ASSUME NEW e \in Events
        PROVE  Offered(e, <<>>, A)
    <3>1. Offered(e, R, A)
      BY AllOffered, OfferedStays
    <3>2. CASE e.priority # 0
      BY <3>1, <3>2 DEF Offered
    <3>3. CASE e.priority = 0
      BY <1>1, <1>3, <1>4, <3>1, <3>3 DEF Offered
    <3> QED
      BY <3>2, <3>3
  <2> QED
    BY <1>3, <2>1, <2>2, <2>3, <2>4, Completed
<1> QED
  BY <1>2, <1>5, <1>6 DEF Workload

-----------------------------------------------------------------------------
(* The steps of the workers *)

\* What WorkloadInv says of sensor s.
OnSchedule(s) == worker[s] # "failed" => Replaying(s) \/ Replayed(s)

LEMMA WorkloadStarts == Init => WorkloadInv
<1> SUFFICES ASSUME Init, NEW s \in SensorIds
             PROVE  Replaying(s)
  BY DEF WorkloadInv
<1>1. /\ worker[s] = "none" /\ position[s] = 0 /\ readings[s] = <<>> /\ sent[s] = <<>>
      /\ ~LastIsBatch(s)
  BY DEF Init, LastIsBatch
<1>2. Batches(<<>>) = {} /\ DOMAIN <<>> = {} /\ Range(<<>>) = {} /\ 1..0 = {}
  BY DEF Batches, BatchesUpTo, Range
<1>3. InBatches(<<>>) + Len(<<>>) = 0
  <2>1. Cardinality({}) = 0 /\ 0 * BatchSize = 0
    BY FS_EmptySet, Constants
  <2>2. InBatches(<<>>) = 0
    BY <1>2, <2>1 DEF InBatches
  <2>3. Len(<<>>) = 0
    OBVIOUS
  <2> QED
    BY <2>2, <2>3
<1>4. Counted(0, <<>>, <<>>)
  BY <1>2, <1>3, NoneBegun DEF Counted, FullBatches, InPlace
<1>5. Traced(0, <<>>, <<>>)
  BY <1>2 DEF Traced, From, Ordered, Sampled
<1> QED
  BY <1>1, <1>4, <1>5 DEF Replaying

LEMMA SensorStays ==
  ASSUME NEW s \in SensorIds, OnSchedule(s), position'[s] = position[s],
         readings'[s] = readings[s], sent'[s] = sent[s],
         \/ worker'[s] = worker[s]
         \/ /\ worker'[s] \in {"ready", "gate", "running"}
            /\ worker[s] \notin {"running", "sending", "done", "failed"}
         \/ worker'[s] = "failed"
  PROVE  OnSchedule(s)'
<1>1. CASE worker'[s] = worker[s]
  BY <1>1 DEF OnSchedule, Replaying, Replayed, LastIsBatch
<1>2. CASE /\ worker'[s] \in {"ready", "gate", "running"}
           /\ worker[s] \notin {"running", "sending", "done", "failed"}
  <2>1. ~LastIsBatch(s) /\ ~LastIsBatch(s)'
    BY <1>2 DEF LastIsBatch
  <2>2. CASE Replaying(s)
    <3>1. Replaying(s)'
      BY <1>2, <2>1, <2>2 DEF Replaying
    <3> QED
      BY <3>1 DEF OnSchedule
  <2>3. ~ Replayed(s)
    BY <1>2 DEF Replayed
  <2> QED
    BY <1>2, <2>2, <2>3 DEF OnSchedule
<1>3. CASE worker'[s] = "failed"
  BY <1>3 DEF OnSchedule
<1> QED
  BY <1>1, <1>2, <1>3

LEMMA WorkerFacts ==
  ASSUME IInv, WorkInv, NEW s \in SensorIds
  PROVE  /\ sent[s] \in Seq(Messages) /\ readings[s] \in Seq(Int)
         /\ position[s] \in 0..Len(Schedule) /\ Len(readings[s]) \in Nat
         /\ worker \in [SensorIds -> {"none", "ready", "gate", "running", "sending",
                                      "done", "failed"}]
         /\ worker[s] \notin {"sending", "failed"} => Len(readings[s]) < BatchSize
<1>1. /\ sent[s] \in Seq(Messages) /\ readings[s] \in Seq(Int)
      /\ position[s] \in 0..Len(Schedule)
  BY DEF WorkInv, WorkType
<1>2. Len(readings[s]) \in Nat
  BY <1>1, LenProperties
<1>3. worker[s] \notin {"sending", "failed"} => ~(Len(readings[s]) >= BatchSize)
  BY DEF WorkInv, RoomLeft
<1> QED
  BY <1>1, <1>2, <1>3, Constants DEF IInv, MainType

\* A worker that runs has counted all it has sent.
LEMMA RunningReplays ==
  ASSUME NEW s \in SensorIds, OnSchedule(s), worker[s] = "running",
         position[s] # Len(Schedule) \/ readings[s] # <<>>
  PROVE  /\ Counted(position[s], readings[s], sent[s])
         /\ Traced(position[s], readings[s], sent[s])
<1>1. Replaying(s) /\ ~LastIsBatch(s)
  BY DEF OnSchedule, Replayed, LastIsBatch
<1> QED
  BY <1>1 DEF Replaying

\* Message m is sent by s.
LEMMA SendEffect ==
  ASSUME IInv, WorkInv, NEW s \in SensorIds, NEW m \in Messages, Send(s, m)
  PROVE  /\ Extended(sent'[s], sent[s], m) /\ Last(sent'[s]) = m
         /\ worker'[s] = "sending"
         /\ \A t \in SensorIds \ {s} : sent'[t] = sent[t] /\ worker'[t] = worker[t]
<1>1. /\ sent' = [sent EXCEPT ![s] = Append(@, m)]
      /\ worker' = [worker EXCEPT ![s] = "sending"]
  BY DEF Send
<1>2. sent \in [SensorIds -> Seq(Messages)] /\ sent[s] \in Seq(Messages)
  BY DEF WorkInv, WorkType
<1>3. Extended(Append(sent[s], m), sent[s], m) /\ Last(Append(sent[s], m)) = m
  BY <1>2, AppendExtends
<1>4. sent'[s] = Append(sent[s], m)
  BY <1>1, <1>2
<1>5. \A t \in SensorIds \ {s} : sent'[t] = sent[t]
  BY <1>1, <1>2
<1>6. worker'[s] = "sending" /\ \A t \in SensorIds \ {s} : worker'[t] = worker[t]
  BY <1>1, WorkerFacts
<1> QED
  BY <1>3, <1>4, <1>5, <1>6

LEMMA SampleKeeps ==
  ASSUME IInv, WorkInv, NEW s \in SensorIds, OnSchedule(s), Sample(s)
  PROVE  OnSchedule(s)'
<1> DEFINE M == sent[s]
           R == readings[s]
           p == position[s]
           S == Append(R, Schedule[p + 1].at)
<1>1. M \in Seq(Messages) /\ R \in Seq(Int) /\ Len(R) \in Nat
  BY WorkerFacts
<1>2. /\ worker[s] = "running" /\ p < Len(Schedule) /\ Schedule[p + 1].priority = 0
      /\ position' = [position EXCEPT ![s] = @ + 1]
      /\ readings' = [readings EXCEPT ![s] = Append(@, Schedule[p + 1].at)]
      /\ IF Len(readings'[s]) >= BatchSize THEN Send(s, Batch(readings'[s]))
         ELSE UNCHANGED <<sent, worker>>
  BY DEF Sample, Due, Upcoming
<1>3. p \in 0..(Len(Schedule) - 1)
  BY <1>2, WorkerFacts, ScheduleSorted
<1>4. Len(R) < BatchSize
  BY <1>2, WorkerFacts
<1>5. position'[s] = p + 1 /\ readings'[s] = S
  <2>1. /\ position \in [SensorIds -> 0..Len(Schedule)]
        /\ readings \in [SensorIds -> Seq(Int)]
    BY DEF WorkInv, WorkType
  <2> QED
    BY <1>2, <2>1
<1>6. Counted(p, R, M) /\ Traced(p, R, M)
  <2>1. p # Len(Schedule)
    BY <1>3, ScheduleSorted
  <2> QED
    BY <1>2, <2>1, RunningReplays
<1> HIDE DEF M, R, p, S
<1>7. /\ S \in Seq(Int) /\ Len(S) = Len(R) + 1 /\ Counted(p + 1, S, M)
      /\ \A A : Extended(A, M, Batch(S)) /\ Len(S) = BatchSize =>
                  CountedInLast(p + 1, S, A)
  BY <1>1, <1>2, <1>3, <1>4, <1>6, CountSample DEF S
<1>8. /\ Traced(p + 1, S, M)
      /\ \A A : Extended(A, M, Batch(S)) => Traced(p + 1, S, A)
  BY <1>1, <1>2, <1>3, <1>6, TraceSample DEF S
<1>9. CASE Len(S) >= BatchSize
  <2>1. Batch(S) \in Messages /\ Batch(S).type = "DATA_BATCH" /\ Send(s, Batch(S))
    BY <1>2, <1>5, <1>7, <1>9, BatchMessage
  <2>2. /\ Extended(sent'[s], M, Batch(S)) /\ Last(sent'[s]) = Batch(S)
        /\ worker'[s] = "sending"
    BY <2>1, SendEffect DEF M
  <2>3. Len(S) = BatchSize
    BY <1>1, <1>4, <1>7, <1>9, Constants
  <2>4. CountedInLast(p + 1, S, sent'[s]) /\ Traced(p + 1, S, sent'[s])
    BY <1>7, <1>8, <2>2, <2>3
  <2>5. LastIsBatch(s)'
    BY <2>1, <2>2 DEF LastIsBatch
  <2> QED
    BY <1>5, <2>2, <2>4, <2>5 DEF OnSchedule, Replaying
<1>10. CASE ~(Len(S) >= BatchSize)
  <2>1. sent' = sent /\ worker' = worker
    BY <1>2, <1>5, <1>10
  <2>2. ~LastIsBatch(s)'
    BY <1>2, <2>1 DEF LastIsBatch
  <2> QED
    BY <1>2, <1>5, <1>7, <1>8, <2>1, <2>2 DEF OnSchedule, Replaying, M
<1> QED
  BY <1>9, <1>10

LEMMA SendEventKeeps ==
  ASSUME IInv, WorkInv, NEW s \in SensorIds, OnSchedule(s), SendEvent(s)
  PROVE  OnSchedule(s)'
<1> DEFINE M == sent[s]
           R == readings[s]
           p == position[s]
           e == Schedule[p + 1]
<1>1. R \in Seq(Int)
  BY WorkerFacts
<1>2. /\ worker[s] = "running" /\ p < Len(Schedule) /\ e.priority # 0
      /\ position' = [position EXCEPT ![s] = @ + 1] /\ readings' = readings
      /\ Send(s, Single(e))
  BY DEF SendEvent, Due, Upcoming
<1>3. p \in 0..(Len(Schedule) - 1)
  BY <1>2, WorkerFacts, ScheduleSorted
<1>4. Single(e) \in Messages /\ Single(e).type # "DATA_BATCH"
  BY <1>2, <1>3, SingleMessage, ScheduleSorted
<1>5. position'[s] = p + 1 /\ readings'[s] = R
  <2>1. position \in [SensorIds -> 0..Len(Schedule)]
    BY DEF WorkInv, WorkType
  <2> QED
    BY <1>2, <2>1
<1>6. Counted(p, R, M) /\ Traced(p, R, M)
  BY <1>2, <1>3, RunningReplays, ScheduleSorted
<1>7. /\ Extended(sent'[s], M, Single(e)) /\ Last(sent'[s]) = Single(e)
      /\ worker'[s] = "sending"
  BY <1>2, <1>4, SendEffect
<1> HIDE DEF M, R, p
<1>8. Counted(p + 1, R, sent'[s])
  BY <1>1, <1>2, <1>3, <1>6, <1>7, CountSingle
<1>9. Traced(p + 1, R, sent'[s])
  BY <1>2, <1>3, <1>6, <1>7, TraceSingle
<1>10. ~LastIsBatch(s)'
  BY <1>4, <1>7 DEF LastIsBatch
<1> QED
  BY <1>5, <1>7, <1>8, <1>9, <1>10 DEF OnSchedule, Replaying

LEMMA SendReturnsKeeps ==
  ASSUME IInv, WorkInv, NEW s \in SensorIds, OnSchedule(s), SendReturns(s)
  PROVE  OnSchedule(s)'
<1>1. /\ worker[s] = "sending" /\ worker'[s] = "running"
      /\ readings'[s] = IF LastIsBatch(s) THEN <<>> ELSE readings[s]
      /\ position'[s] = position[s] /\ sent'[s] = sent[s]
  <2>1. readings \in [SensorIds -> Seq(Int)]
    BY DEF WorkInv, WorkType
  <2> QED
    BY <2>1, WorkerFacts DEF SendReturns, Unsent, LastIsBatch
<1>2. ~LastIsBatch(s)'
  BY <1>1 DEF LastIsBatch
<1>3. CASE Replayed(s)
  <2>1. Replayed(s)'
    BY <1>1, <1>3 DEF Replayed
  <2> QED
    BY <2>1 DEF OnSchedule
<1>4. CASE Replaying(s) /\ LastIsBatch(s)
  <2>1. /\ CountedInLast(position[s], readings[s], sent[s])
        /\ Traced(position[s], readings[s], sent[s])
    BY <1>4 DEF Replaying
  <2>2. /\ Len(sent[s]) \in Batches(sent[s])
        /\ readings[s] = sent[s][Len(sent[s])].readings
    BY <2>1 DEF CountedInLast
  <2>3. Counted(position[s], <<>>, sent[s])
    BY <2>1, WorkerFacts, CountReturn
  <2>4. Traced(position[s], <<>>, sent[s])
    BY <2>1, <2>2, TraceReturn
  <2> QED
    BY <1>1, <1>2, <1>4, <2>3, <2>4 DEF OnSchedule, Replaying
<1>5. CASE Replaying(s) /\ ~LastIsBatch(s)
  BY <1>1, <1>2, <1>5 DEF OnSchedule, Replaying
<1> QED
  BY <1>1, <1>3, <1>4, <1>5 DEF OnSchedule

LEMMA FlushKeeps ==
  ASSUME IInv, WorkInv, NEW s \in SensorIds, OnSchedule(s), Flush(s)
  PROVE  OnSchedule(s)'
<1>1. /\ worker[s] = "running" /\ position[s] = Len(Schedule) /\ readings[s] # <<>>
      /\ Send(s, Batch(readings[s])) /\ UNCHANGED <<position, readings>>
  BY DEF Flush, ScheduleDone
<1>2. readings[s] \in Seq(Int) /\ Len(readings[s]) < BatchSize
  BY <1>1, WorkerFacts
<1>3. Batch(readings[s]) \in Messages /\ Batch(readings[s]).type = "DATA_BATCH"
  BY <1>2, BatchMessage
<1>4. /\ Extended(sent'[s], sent[s], Batch(readings[s]))
      /\ Last(sent'[s]) = Batch(readings[s]) /\ worker'[s] = "sending"
  BY <1>1, <1>3, SendEffect
<1>5. /\ Counted(Len(Schedule), readings[s], sent[s])
      /\ Traced(Len(Schedule), readings[s], sent[s])
  BY <1>1, RunningReplays
<1>6. Workload(sent'[s])
  BY <1>1, <1>2, <1>4, <1>5, EndsShort
<1>7. LastIsBatch(s)'
  BY <1>3, <1>4 DEF LastIsBatch
<1> QED
  BY <1>1, <1>4, <1>6, <1>7 DEF OnSchedule, Replayed

LEMMA WorkerDoneKeeps ==
  ASSUME IInv, WorkInv, NEW s \in SensorIds, OnSchedule(s), WorkerDone(s)
  PROVE  OnSchedule(s)'
<1>1. /\ worker[s] = "running" /\ position[s] = Len(Schedule) /\ readings[s] = <<>>
      /\ worker'[s] = "done" /\ UNCHANGED <<position, readings, sent>>
  BY WorkerFacts DEF WorkerDone, ScheduleDone, workVars
<1>2. Workload(sent[s])
  <2>1. CASE Replayed(s)
    BY <2>1 DEF Replayed
  <2>2. CASE Replaying(s)
    <3>1. ~LastIsBatch(s)
      BY <1>1 DEF LastIsBatch
    <3>2. /\ Counted(Len(Schedule), <<>>, sent[s])
          /\ Traced(Len(Schedule), <<>>, sent[s])
      BY <1>1, <2>2, <3>1 DEF Replaying
    <3> QED
      BY <3>2, WorkerFacts, EndsFull
  <2> QED
    BY <1>1, <2>1, <2>2 DEF OnSchedule
<1> QED
  BY <1>1, <1>2 DEF OnSchedule, Replayed

\* A step of one worker leaves the others alone.
LEMMA OneWorks ==
  ASSUME IInv, WorkInv, NEW s \in SensorIds,
         Sample(s) \/ SendEvent(s) \/ SendReturns(s) \/ Flush(s) \/ WorkerDone(s),
         NEW t \in SensorIds \ {s}
  PROVE  /\ position'[t] = position[t] /\ readings'[t] = readings[t]
         /\ sent'[t] = sent[t] /\ worker'[t] = worker[t]
<1>1. /\ position \in [SensorIds -> 0..Len(Schedule)]
      /\ readings \in [SensorIds -> Seq(Int)]
      /\ sent \in [SensorIds -> Seq(Messages)]
      /\ worker \in [SensorIds -> {"none", "ready", "gate", "running", "sending",
                                   "done", "failed"}]
  BY DEF WorkInv, WorkType, IInv, MainType
<1>2. \A m : Send(s, m) => sent'[t] = sent[t] /\ worker'[t] = worker[t]
  BY <1>1 DEF Send
<1>3. CASE Sample(s)
  BY <1>1, <1>2, <1>3 DEF Sample
<1>4. CASE SendEvent(s)
  BY <1>1, <1>2, <1>4 DEF SendEvent
<1>5. CASE SendReturns(s)
  BY <1>1, <1>5 DEF SendReturns
<1>6. CASE Flush(s)
  BY <1>2, <1>6 DEF Flush
<1>7. CASE WorkerDone(s)
  BY <1>1, <1>7 DEF WorkerDone, workVars
<1> QED
  BY <1>3, <1>4, <1>5, <1>6, <1>7

LEMMA WorkloadKeeps ==
  ASSUME IInv, WorkInv, WorkloadInv, [Next]_vars
  PROVE  WorkloadInv'
<1> SUFFICES ASSUME NEW t \in SensorIds
             PROVE  OnSchedule(t)'
  BY DEF WorkloadInv, OnSchedule
<1>1. OnSchedule(t)
  BY DEF WorkloadInv, OnSchedule
<1>2. ASSUME NEW s \in SensorIds,
             Sample(s) \/ SendEvent(s) \/ SendReturns(s) \/ Flush(s) \/ WorkerDone(s)
      PROVE  OnSchedule(t)'
  <2>1. CASE t # s
    BY <1>1, <1>2, <2>1, OneWorks, SensorStays
  <2>2. CASE t = s
    BY <1>1, <1>2, <2>2, SampleKeeps, SendEventKeeps, SendReturnsKeeps, FlushKeeps,
       WorkerDoneKeeps
  <2> QED
    BY <2>1, <2>2
<1>3. ASSUME NEW s \in SensorIds,
             WorkerGate(s) \/ WorkerStart(s) \/ SubmitWorker(s) \/ SendRaises(s)
      PROVE  OnSchedule(t)'
  <2>1. /\ UNCHANGED <<position, readings, sent>>
        /\ t # s => worker'[t] = worker[t]
        /\ \/ /\ worker'[s] \in {"ready", "gate", "running"}
              /\ worker[s] \notin {"running", "sending", "done", "failed"}
           \/ worker'[s] = "failed"
    <3>1. SubmitWorker(s) => worker[s] = "none"
      BY WorkerFacts DEF SubmitWorker, NextClient, IInv, Phases
    <3> QED
      BY <1>3, <3>1, WorkerFacts DEF WorkerGate, WorkerStart, SubmitWorker, SendRaises,
         workVars
  <2> QED
    BY <1>1, <2>1, SensorStays
<1>4. CASE UNCHANGED <<worker, position, readings, sent>>
  BY <1>1, <1>4, SensorStays
<1>5. CASE \/ RegisterSensor \/ RegisterRaises \/ AllRegistered \/ ReachGate \/ Tick
           \/ PassGate \/ Collect \/ End \/ UNCHANGED vars
           \/ \E s \in SensorIds : SubmitFails(s) \/ CloseClient(s)
  BY <1>4, <1>5 DEF RegisterSensor, RegisterRaises, AllRegistered, ReachGate, Tick,
     PassGate, Collect, End, vars, workVars, SubmitFails, CloseClient
<1> QED
  BY <1>2, <1>3, <1>5 DEF Next, RunStep, WorkerStep

-----------------------------------------------------------------------------
(* The theorems *)

LEMMA Works == Spec => []WorkInv
<1>1. Init => WorkInv
  BY WorkInit
<1>2. IInv /\ WorkInv /\ [Next]_vars => WorkInv'
  BY WorkKeeps
<1> QED
  BY <1>1, <1>2, Invariance, PTL DEF Spec

\* Types of the generator, for any schedule: no batch outgrows batch_size, and no
\* worker goes beyond its schedule (TypeOK).
THEOREM TypeCorrect == Spec => []TypeOK
<1>1. IInv /\ WorkInv => TypeOK
  BY DEF IInv, MainType, WorkInv, WorkType, RoomLeft, TypeOK
<1> QED
  BY <1>1, Invariance, Works, PTL

\* Every sensor whose worker finishes has offered the same workload, whatever the
\* schedule and however long its sends took: each reading once and in its place in
\* batches of batch_size, each latest value and alert once, all in the order of the
\* schedule but for the flush of the last readings (SameWorkload).
THEOREM WorkloadIsSame == Spec => []SameWorkload
<1>1. Init => WorkloadInv
  BY WorkloadStarts
<1>2. IInv /\ WorkInv /\ WorkloadInv /\ [Next]_vars => WorkloadInv'
  BY WorkloadKeeps
<1>3. WorkloadInv => SameWorkload
  <2> SUFFICES ASSUME WorkloadInv, NEW s \in SensorIds, worker[s] = "done"
               PROVE  Workload(sent[s])
    BY DEF SameWorkload, Workload
  <2>1. Replayed(s)
    BY DEF WorkloadInv, Replaying
  <2> QED
    BY <2>1 DEF Replayed
<1> QED
  BY <1>1, <1>2, <1>3, Invariance, Works, PTL DEF Spec
=============================================================================
