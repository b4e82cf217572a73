# Verification of DART (Deadline-Aware Reliable Telemetry over UDP)

TLA+ models of the DART server, client, transport and workload simulator
(`src/dart/`), of client and server together over a network that loses, repeats
and reorders, TLC configurations that check them on small instances, and TLAPS
proofs about each of these parts and about client and server together. Paths such
as `server.py:801` are relative to `src/dart/`.

## 1. The system

| Component | State | Operations | Talks to |
|---|---|---|---|
| Server lifecycle (`server.py` `start`, `stop`, `wait_until_idle`, `_receive_loop`) | `_running`, `_socket`, `_executor`, `_active_tasks`, `_last_datagram_at` | start, stop, wait until idle; receive, count and submit a datagram; run a task | socket, executor, main thread |
| Server request handling (`_process_datagram` and below) | sessions, registration index, latest values and their sequence numbers, suppressed ACKs | check envelope, session, deadline, payload; register; claim; dispatch; answer | duplicate cache, client |
| Duplicate cache (`_claim_message`, `_finish_message`, `_prune_seen_locked`) | `_seen` (ordered), `_inflight`, one condition | claim an identity (perhaps waiting for a copy in flight), finish, prune | worker threads |
| Sensor client (`client.py`) | `session_id`, `_sequence`, `_pending`, an event and a packet per call | register, reliable send with retries and backoff, send once, receive, close | server, calling threads |
| Workload simulator (`simulator.py`) | clients, barrier, the schedule and pending readings of each worker | register, start together, replay, collect, close | client |
| Wire codec (`protocol.py`) | none | encode, decode, checksum | all |
| Impaired transmitter (`network.py`) | random stream, statistics | drop, corrupt, delay, send | client, server |
| Command line of the server (`server.py` `main`) | — | serve; stop at a signal | server lifecycle |
| Benchmark, demo, dissector | results | run the others; display | — |

Threads share memory on each side: the server has one receiver thread, a pool
of workers and the thread that calls `stop`; a client has a receiver thread and
any number of callers. Between the sides there is UDP: messages are lost,
repeated, reordered and late. Nothing is persisted, so there is no recovery
after a crash; a restarted server forgets its sessions.

What makes the components correct:

- *duplicate cache*: a message is processed once per retention window; a copy is
  called a duplicate only when the first one has been committed; a failing
  handler frees the identity; nobody waits for an owner that does not exist;
- *request handling*: an ACK means processed; one session per client instance;
  state and answers belong to registered sessions and their addresses; latest
  values never go back; every request that asks for an answer gets one, of a type
  the client accepts, a duplicate too;
- *lifecycle*: the counter of tasks counts the tasks, `stop` leaves no handler
  behind, no call hangs, idle means idle;
- *client*: the success of a reliable call means that this request was answered,
  that of an unreliable one only that it was sent; a response reaches the call it
  belongs to; no wait past the deadline; closing wakes everybody;
- *transport*: no damaged datagram is accepted, the statistics add up, every
  batch that can be built can be sent;
- *client and server*: a success reported by a reliable `send_critical` means that
  the server has processed this alert (with `reliable=False`: that it was sent);
  what is refused is late; a registered client stays registered;
- *simulator*: sensors start together, the workload does not depend on how slow
  the sends are, clients are closed after their last use.

The hard behaviours are listed one by one, at their line, under `hazards` in
`PROJECT.json`, with the properties that cover them.

## 2. Modules

| Module | Models | Composed of |
|---|---|---|
| `ProcessOnce` | what the duplicate cache promises: each call gets one answer, each identity is processed once per window, a duplicate was committed before | — |
| `DuplicateCache` | `server.py:801-861`, one action per critical section | refines `ProcessOnce` |
| `DuplicateCacheProofs` | proofs about it | `DuplicateCache` |
| `SequenceOrder` | `_sequence_is_newer` (`server.py:126`), `_next_sequence` (`client.py:646`) | — |
| `LatestState` | the latest value of one metric over an unreliable network | `SequenceOrder` |
| `LatestStateProofs` | proofs about it | `LatestState` |
| `DartServer` | `server.py:381-959`, a worker from a datagram to its answer | `DuplicateCache`, `SequenceOrder` |
| `DartServerProofs` | proofs about it, on top of those about the cache | `DartServer`, `DuplicateCacheProofs` |
| `ServerLifecycle` | `server.py:212-379`, and the signal handler in `main` | — |
| `ServerLifecycleProofs` | proofs about it | `ServerLifecycle` |
| `DartClient` | `client.py:208-656` | `SequenceOrder` |
| `DartClientHistory` | what a reliable call may believe, with two history variables | `DartClient` |
| `DartClientProofs` | proofs about both | `DartClientHistory` |
| `AlertDelivery` | what a caller of `send_critical` is promised | — |
| `DartSystem` | one client and the server over UDP, on one clock | `DartClient`, `DartServer`; refines `AlertDelivery` |
| `DartSystemProofs` | proofs about it, on top of those about both sides | `DartSystem`, `DartServerProofs`, `DartClientProofs` |
| `Codec` | `protocol.py:154-279`, `363-412`, and the damage done in `network.py:117` | — |
| `Transmitter` | `network.py:102-146` with its socket and the receiver's decoding | `Codec` |
| `TransmitterProofs` | proofs about both | `Transmitter` |
| `Simulator` | `simulator.py:126-210`, `247-409` | — |
| `SimulatorProofs` | proofs about it | `Simulator` |
| `MC...` | packets, operations and symmetry for TLC | their module |

### Correspondence with the code

An action is what a thread does between taking and releasing a lock, or between
two blocking calls; `map` in `PROJECT.json` names the lines of each definition.

`DuplicateCache`. `seen` is the ordered dictionary `_seen` (oldest entry first),
`inflight` the set `_inflight`, `call[w]` where worker `w` is in
`_claim_message`. One pass of its loop is one action, under the condition:
`ClaimDuplicate`, `ClaimNew`, `ClaimExpired` or `ClaimWait`, each with the
pruning that comes first. A worker in `wait` is inside `Condition.wait`; it goes
on after `NotifyAll` (by `FinishMessage`, or by `StopNotifies` for `stop`) or
`WaitTimeout`. `now_ms` and `time.monotonic` are one clock. `lastCommit` is a
history variable, which no guard reads.

`DartServer` extends the cache with what comes before and after the claim.
`Accept` is the way through the checks to `_claim_message` (`Submit`), the
`Reject...` actions are the early returns, with their answers; `RegisterNew` and
`RegisterAgain` are the critical section of `_handle_register`; `Dispatch` and
`DispatchFails` are `_dispatch`, `FinishOk` and `FinishFailed` the two ends of
the claim, and `SendReply` comes last, as in the code, so other workers may act
in between. The arrivals are any copies of the configured packets, at any time
and in any order: loss, duplication and reordering need no actions of their
own. `sent` holds the answer of the last step: what is asked of an answer is
asked when it is sent. A duplicate of a CONFIG_REQ or HEARTBEAT is dispatched again. `_dispatch`
repeats payload checks that have already passed; `DispatchFails` stands for any
exception, before or after the effect.

`ServerLifecycle`. `place[d]` follows a datagram from the socket's buffer to the
worker. Each `start` has its own receiver thread, since a receiver that outlives
the join of `stop` (1 s) may still be there after the next `start`. The calls of
one controlling thread are sequential, except for signals: the handler that
`main` installs calls `stop` in the same thread, inside a `stop` that is waiting
(`StopAgain`; `outer` remembers where, and the outer call goes on when the inner
one returns) or inside `start` (`StartInterrupted`).

`LatestState` adds to each number the position in which the client used it; the
server and the client see the numbers only.

`DartClient`. `pending`, `event` and `slot` are `_pending` and its entries,
`stage[c]` is where a caller is in `_send_reliable`, whose result `Succeeds`
reads off the response when the call ends (`Finish`). `wire` holds the requests
sent, each with its ACK_REQUIRED flag, for the server answers one without it
by errors only. The test of the session
(`Receive`) and the look-up in `_pending` (`HandOver`) are two steps, as are the
end of a wait (`Woken`) and `event.clear()` (`ClearEvent`), for no lock spans
them. `left` and `timer` count down, so time needs no bound. The environment is
the server as its answering functions define it: any answer it can give to a
request that has left the client may arrive any number of times or never, and
so may `Strays`, responses to an earlier client at the same address.
An operation is reliable or not. A reliable one begins with `Begin`; an unreliable
one (`send_batch`, `send_latest` or `send_critical` with `reliable=False`) is
`SendOnce` alone: it takes a number, sends or has its drop simulated, and returns.
Its success is `outcome.sent` (`client.py:413`) and no response is waited for; what
the server answers to it (errors) finds no entry in `_pending`.
`TransmitRaises` is the OSError of a closed socket; a simulated drop does not
touch the socket, so a call begun after `close` may still run through its
retries. That `_send_reliable` never finds its number pending already, which
would raise, is `OneCallPerNumber`.

`DartClientHistory` adds to each step of `DartClient` two variables that no guard
reads: `granted`, the sessions this client has had, and `early`, the response its
receiver had taken before it was registered and hands over afterwards. With them
`SuccessIsAnswered` can say exactly which responses of an earlier client may be
believed.

`DartSystem` extends `DartServer` and instantiates `DartClient`: the server's
`Receive` takes the `Datagram` of any request on the client's `wire`, the
client's `Receive` any answer on `downlink`, which collects the server's `sent`.
Neither set loses an element, so loss, delay, repetition and reordering are the
choice of what is delivered when. Answers come from the real server here, where
`DartClient` alone assumes them. `stamp` is the `timestamp_ms` of each request, set
when it is built and not renewed by a retransmission; client and server read the
same clock (the repository runs both on one machine or relies on synchronised
clocks). The mapping to `AlertDelivery` reads what was processed from the
server's commits and the calls from the client's stages and results; a call that
returned a failure may still be followed by the processing of its alert. `Ask` is a
reliable request; `AskOnce` an unreliable one, which the policy RAW makes of every
alert (`simulator.py:275`). An unreliable alert that has left is "sent" and one whose
drop was simulated is "dropped"; neither is a success in the sense of
`AlertDelivery`, although the code calls the first one so.

`Transmitter`. `sendto` is two critical sections with the socket between them:
`Draw` or `DrawDrop`, `Write` or `WriteRaises`, `Count`. `offered`, `writes`
and `raised` are histories. A datagram (`Codec`) is a record of its parts, and
damage (`Flips`) changes one part, since the code flips one bit; that the
checksum tells the two apart is a property of CRC32, which detects every single
flipped bit, and is taken as the meaning of `Digest`. The packets sent are
batches of every size that `encode_readings` takes.

`Simulator`. The schedule is computed by `Schedule` from the parameters, in the
order in which `events.sort()` puts the tuples: an event stands after as many as
come before it. `position` runs through it, and a send lasts from `Send` to
`SendReturns` or `SendRaises`. A reading is its sample's offset, by which it is told
apart from the others of its sensor.

## 3. Runs

| Run | Bounds | Shows |
|---|---|---|
| `duplicate_cache` | 3 workers, 2 identities, 3 packets, retention 1, clock 3 | a waiter has an owner, the cache agrees with the commits, `ProcessedOncePerWindow`, refinement of `ProcessOnce`, every call is answered |
| `stale_takeover` | the same, clock 4 | finding 1 |
| `server_lifecycle` | 2 datagrams, 1 worker, 2 starts, clock 4 | the counter, `stop` also inside `start` or `stop`, idleness; calls return, datagrams leave |
| `cancelled_tasks`, `idle_race` | the same, clock 3 | findings 2 and 3 |
| `latest_state` | range 10, spread 3, 14 messages, any first number | the order of the numbers is the order of sending, through the wrap |
| `server` | 2 workers, 2 clients with one sensor id, 9 packets: heartbeats, updates across the wrap with and without ACK, bad sessions, envelopes and payloads, clock 1 | ACKs mean processed; sessions and addresses; every request is answered, as expected; workers come back |
| `client` | 2 callers, 2 of 4 requests, reliable and not, 2 attempts, an old ACK with the number of the second request, across the wrap, close | success, deadlines, pending calls, close; every request ends |
| `client_old_ack` | the same | finding 4 |
| `system` | 1 client, 2 workers, a registration and an alert with deadline 1, reliable (2 attempts) or not, first ACK suppressed, retention 1, clock 2 | refinement of `AlertDelivery`; only the late is refused; sessions are kept |
| `transport` | 2 threads, 3 sends, batches of 1 and 2 readings, 1 decode error, sizes 3, 9, 2 and 2 | statistics; no damage accepted; the batch limit |
| `simulator` | 2 sensors, 3 readings in batches of 2, 2 latest values, 1 alert | barrier, workload, closing, termination |

Some of what is proved for all instances is not run as well: `TypeOK` of
`DuplicateCache`, `LatestState` and `Transmitter`, and `InflightIsOwned`.

Why the bounds suffice. Three workers are an owner, a waiter and a worker that
may come between them, which is what a lost wakeup or a second owner takes. A
retention of 1 with a clock of 3 lets an entry be young, exactly at its limit
and expired, and the identity be processed again. In the server runs two workers
suffice, since the cache is checked with three by itself, and time for a deadline
to pass: one registration was sent a moment before the clock starts. The end of
a retention, with requests behind it, is in the `system` run. The lifecycle needs two
starts to have a receiver left over from the first, and one worker so that tasks
queue up. Range 10 with 14 messages passes the wrap from every start. Two client
calls are a registration and a request after it, or two that share `_pending`;
two attempts are the first and one retransmission, which `system` needs for an
alert that is answered twice, once processed and once late. With clock 2 an
answer is in time, at the deadline or after it. The transport's small sizes leave
no byte over but the one that a limit without the count would use; the proofs
cover the real ones (40, 1200, 2 and 7: 165 readings). All bounds are constants
named in the modules: `MaxTime`, `MaxStarts`, `MaxIssued`, `MaxCalls`,
`MaxSends`, `MaxErrors`. The workers of the `system` run and the threads of the
`transport` run are symmetric; both runs check safety only, for which the symmetry
is sound.

Deadlock is checked except where the system may really stop: a client that
sends no more (`LatestState.cfg`, `MCDartSystem.cfg`, `MCTransmitter.cfg`), a
closed client whose callers are done (the client configurations), a simulation
that has returned (`Simulator.cfg`).

Fairness is weak fairness of each thread's own steps and of time: threads are
scheduled, handlers and sends return, clocks advance. Nothing is assumed of the
arrival of messages, of calls to `start`, `stop` or `close`, nor that handlers
succeed: `EveryCallAnswered` and `WorkersReturn` are stated for the case that
they fail only finitely often, since a handler that fails for ever lets copies
overtake a waiter for ever.

### Findings

1. `stale_takeover`: a copy that waited for an in-flight one whose handler fails
   is processed without another look at its deadline (`server.py:814`);
   `PROTOCOL_SPEC.md:404` forbids to process an expired alert.
2. `cancelled_tasks`: tasks that `stop` cancels (`server.py:282`) stay in
   `_active_tasks`; after that, also after a restart, `wait_until_idle` can only
   time out.
3. `idle_race`: between `recvfrom` and the count (`server.py:346-355`)
   `wait_until_idle` may return True with work pending.
4. `client_old_ack`: the client compares the session of a response with its own
   at the time of arrival, and not at all before it is registered
   (`client.py:563`), not with the request that waits; `PROTOCOL_SPEC.md:127`
   says the latter. It takes a coincidence of numbers to matter, and happens at most
   once in the life of a client (`SuccessIsAnswered`, the exception `early`).

Also seen, without a statement in the repository that it contradicts: a failing
`executor.submit` leaves `run_simulation` waiting for ever for workers at the
barrier (`simulator.py:169`, excepted by name in `RunEnds`); an ERROR to a second
`register()` has session 0 and is dropped by the session filter; `event.clear()`
(`client.py:473`) can swallow a response, at the price of a retransmission, or
the event that `close` sets, and the call then waits through its remaining
attempts (`CloseWakes` excepts a call that has met an unexpected response); a
message whose deadline is longer than the retention can be processed again
(`ProcessedOnceInTime` needs a deadline within the retention); an alert that was
processed and whose ACK was lost may be answered 408 and reported as a failure,
but only when its deadline has come (`RefusedOnlyLate`); a signal inside `start`
leaves a server that runs without a socket until it is stopped again; a send that
raises is counted as attempted and nowhere else (`Accounting` counts it apart).

## 4. Proofs

`DuplicateCacheProofs`, for every number of workers, keys, packets, retention
and clock bound, from the five assumptions that `DuplicateCache` names (constants
are naturals, packets have a known key and natural times, `NoPacket` is not a
packet):

- `Invariance`: `IInv` is inductive. It is `TypeOK`, `WaitersHaveOwner`,
  `InflightIsOwned` and `CacheInv` together, and none of them is inductive alone:
  that a waiter has an owner needs that what is in flight is owned; that the
  owner's commit can be appended to `seen` needs that its identity is not there
  (`InflightUnseen`), and that pruning from the front drops only old entries
  needs that `seen` is ordered by its times and these lie in the past.
- `TypeCorrect`, `NoLostWakeup`, `OneOwner`, `CacheAgrees` are its parts;
  `OncePerWindow` follows from them for each step: an owner's identity is not in
  `seen`, so by `RecentRemembered` its last commit is older than the retention.
- `Refinement`: each step of the cache is a step of `ProcessOnce` or a stutter
  under the mapping of `claim`, `wait` and `woken` to `pending` (`InitMaps`,
  `StepMaps`).

`LatestStateProofs`, for every half range of at least 2 and every spread that
leaves one number of margin (`SpreadAssumption`): the invariant ties each number
in use to the position of its message modulo the wrap that skips 0, from which
`StaleAgrees`, `Identified` and `Monotone` follow. The essential lemma is
`HalfRangeAgrees`: within half of the range, newer by distance is newer by
position.

`TransmitterProofs`, for any finite set of threads and any sizes with room for
one reading (`CodecAssumption`):

- `FlipDetected` and `BatchLimit` are about the codec alone: a datagram with one
  part damaged is not accepted; every batch up to the limit is encoded, accepted
  and decoded as it was, and one reading more is refused.
- `Invariance`: the invariant adds `Origins` to the properties: whatever is in
  `sendto` or in the network is a packet offered, as encoded or with one part
  damaged, and nothing is damaged before `corrupted` counts it. `Accounted` follows
  from counting the threads between the critical sections; `NoDamageAccepted` and
  `CleanWire` from `Origins`, `FlipDetected` and `EncodeAccepted`.

`DartServerProofs`, for any number of workers, clients and packets whose fields
are what the server can read off a datagram (`RequestsAssumption`):

- `ServerUsesCache`: `ServerSpec => Spec`, for every step of a worker is a step of
  the duplicate cache or leaves the cache alone (`StepOfCache`). With `Refinement`
  this gives `ServerProcessesOnce`: the server keeps the promise of `ProcessOnce`.
- `ServerInvariance`: the invariant is that of the cache together with the link
  from a worker's place in `_process_datagram` to its call of the cache
  (`StageMatchesCall`), to the session its datagram was checked against
  (`JobHasSession`: sessions are never removed, so the check still holds at the
  answer) and to the commits (`AnswerIsCommitted`: a worker that is about to send
  202 or 409 knows of a commit). An answer is judged when it is sent (`SentInv`);
  without those links nothing is known of it then.
- `AckIsTruthful`, `RegistrationIdempotent`, `StateIsOwned`, `AnswersAreExpected`
  and `ServerTypeCorrect` are its parts. `StateIsOwned` includes the address: a
  worker owns an identity, and an answer other than an error is sent, only for the
  address that opened the session. `AnsweredAgain` (`RequestsAnswered`) follows for
  each step of a worker from the types and `StageMatchesCall`: it answers where it
  lets its datagram go.

`ServerLifecycleProofs`, for any number of datagrams, workers, starts and any
times: `Invariance`, with the parts `CounterIsRight` (`ActiveAccounting`),
`StopLeavesNothing` (`StopDrains`) and `TypeCorrect`, and the action property
`IdleIsIdle`. The counter counts the datagrams in four of their places; that each
step moves one datagram into or out of them needs that a receiver holds a datagram
of its own, also a receiver left over from an earlier start (`HeldInPlace`,
`NotStarted`). The set of datagrams may be infinite: only finitely many have been
sent (`FinitelySent`).

`DartClientProofs`, for any callers, requests, sessions and times, from
`ClientAssumption` (no number comes round while a response to its last use is
about: `MaxCalls < Modulus`):

- `Invariance`: the strengthening `NumbersUsed` gives each number the place
  (`Rank`) at which the counter, which starts anywhere and skips 0, comes to it:
  all numbers in calls or on the wire come before the next one, so a new call
  shares its number with nobody (`NumbersNotShared`). `ResponsesAnswer` traces each
  response in the client to a request that has left it; `ClosedAwake` extends
  `CloseWakes` to calls that are not waiting just then.
- `CloseWakesAll`, `WaitsEndInTime` are parts of it.
- `SuccessAnswered` is `SuccessIsAnswered`, for any set of responses to an earlier
  client. `ResponsesAnswer` leaves only answers to this client's requests and those
  responses; `OnlyKnown` says of every response that a call holds, unless the call is
  a registration, that it names a session this client has had, or is a REGISTER_RES
  (which such a call does not accept), or is the `early` one: the session filter lets
  nothing else pass, and between its test and the look-up the receiver holds one
  response only. These are the exceptions of the property, and the run
  `client_old_ack` shows that the last one does happen.
- `ClientTypeCorrect` has the hypothesis `PowersDouble`, which is the definition of
  powers of 2: the provers know nothing of exponents. What it takes beyond that is
  that the backoff grows with the attempt (`BackoffGrows`), by induction. The
  library's theorems for that are out of reach, so `SetInduction` proves it for sets
  of numbers from the pigeonhole principle `FS_PigeonHole`.

`SimulatorProofs`, for any number of sensors, any duration, periods and batch size
(`SimulatorAssumption`; the alerts are taken to divide the time that is left into
whole units):

- `Invariance`, `AllStartTogether` and `NoUseAfterClose`: a worker that has passed
  the barrier proves, by counting (`GateMeansAll`), that every client's worker and
  `run_simulation` have reached it (`PassedTogether`); clients are closed only when
  all workers have ended (`Phases`).
- `ScheduleSorted`: the schedule is a sequence in which every event stands once,
  before those it comes before. The number of events before an event tells it apart
  from every other, so each of the places is taken: an injection into a set of the
  same size (`FS_Injection`). With it, `TypeCorrect`.
- `WorkloadIsSame`: however long the sends take, a worker that is done has offered
  the one workload of its schedule (`SameWorkload`). The property speaks of the end
  only; the invariant `WorkloadInv` says of each position what has been offered by
  then. `Counted`: the samples begun are exactly the first `n` of the sensor (`Begun`),
  where `n` is a full batch for each batch sent and what is pending, and each pending
  reading is the one its place says. `Traced`: the messages sent are events of the
  schedule up to the position, in its order, and each such event is in a message or
  pending. While a full batch is on its way its readings are both sent and pending
  (`CountedInLast`); what clears them is the return of the send. At the end of the
  schedule the two give the workload (`EndsFull`, `EndsShort`), which the flush of a
  short batch completes out of order.

`DartSystemProofs`, for any callers, workers, operations, retention and times, from
`SystemAssumption`: the constants are what `DartClient` asks for, and every datagram
the client can build (`ClientDatagrams`) is among the packets the server is ready
for. Requests with and without a deadline, and any number of them, are covered:

- `SystemInvariance`: `SystemInv` is the invariant of the server, that of the client
  and the `Links` between them. Each side takes only steps of its own module
  (`ClientKeeps`, `ServerStepKeeps`), so its invariant is kept; the links say what no
  side knows of the other:
  `RequestsMade` and `Stamped` (a number has one stamp, set before the request can
  leave and never renewed), `WorkersServe` (a worker's datagram is a request on the
  wire), `SessionsMine` (the client's session is one the server gave, and it gave one
  only), `CommitsLater` (no commit is older than its request's stamp),
  `AnswersGrounded` (an answer under way belongs to a request on the wire; if it is an
  ACK but not 408, that request is committed; if it is 408, its deadline has come),
  `Delivered` (what the client holds was on the downlink) and `Reported` (a success is
  of a processed alert; an alert that has left has a call, or a result which is not
  "dropped").
- `AlertsAreDelivered`: under the mapping of `DartSystem`, a commit of an alert is
  `Process`, beginning its call `Ask`, its return `ReportSuccess` or
  `ReportFailure`, an unreliable send `SendUnreliable`, and every other step a stutter (`SystemInitMaps`,
  `SystemStepMaps`). `AnswersGrounded` is what makes a reported success true, however
  late or often the ACK arrives.
- `OnlyLateRefused` follows from `AnswersGrounded`: a deadline that has come stays
  come while the answer travels.
- `SessionStays`: a registration answered again, or by another worker, carries the
  same session, for `SessionsMine` and the server's `OneSessionPerInstance` leave no
  other.
- `OnceInTime`: by `CommitsLater`, the first commit lies at or after the stamp. The
  second is past the retention of the first (`OncePerWindow`), hence past the deadline.

Model-checked only: liveness (`EveryCallAnswered`, `WorkersReturn`, `CallsEnd`,
`RunEnds` and those of the lifecycle), for the prover does not reason about fairness
or ENABLED.

No module uses a RECURSIVE operator.

## 5. Not modelled

Contents of payloads: JSON and the finer checks of values are well formed or not;
a datagram that fails `_validate_server_packet` changes nothing but counters.
Metrics other than those of the transmitter and of decoding, counts of bytes,
logging, names and capabilities of sensors, JSON output. The conversion of times
to floating point seconds. Statistics are read without their lock, but by the
code of this repository only when nothing is being sent.

Signals are taken where `start` and `stop` wait or between their steps, not
between two instructions of one line or inside the library: one that interrupts
`executor.shutdown` while it holds the executor's own lock, and calls it again,
would wait for itself; one between the test of `_executor` and its `shutdown`
(`server.py:281-282`) would leave None to call. The server's own locks that `stop`
takes before the socket is gone are reentrant. A batch that `encode_readings` refuses has
used a sequence number, which does no harm: numbers need not be consecutive.

An alert that is sent with `reliable=False` carries no ACK_REQUIRED and is sent once.
Nothing is promised of it but what `AlertDelivery` says: after "sent" it may have been
damaged or lost, and may or may not be processed; a drop that was reported means that
it never is. The policy RAW sends every alert in this way (`simulator.py:275`), so
there the `success` of a result, and `critical_successes`, which counts them, are not
about delivery.

The benchmark and demo drivers are straight lines of calls (`start`,
`run_simulation`, `wait_until_idle`, `stop`), each of which is modelled, and
arithmetic on their results. The parsing of arguments and the Wireshark dissector
hold no state that anything depends on.

## 6. Plan

Done, in this order: `DuplicateCache` with its promise and proofs, `LatestState`
with its proofs, `ServerLifecycle`, `DartServer`, `DartClient`, `Simulator`; the
composition `DartSystem` with `AlertDelivery`, the re-entrant `stop`, and `Codec`
and `Transmitter` with their proofs; then the proofs about `DartServer`,
`ServerLifecycle`, `DartClient` and `Simulator`, and last those about `DartSystem`
with its refinement of `AlertDelivery`.

Left: nothing of this list. Every safety property of a passing run is a theorem;
liveness stays with TLC.
