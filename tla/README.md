# A TLA+ model of Runyard

Runyard runs experiments: a user submits a run, the coordinator stores it in
PostgreSQL, a Docker agent or the Kubernetes controller starts a container for
one *attempt* at it, and the runner inside the container claims the attempt,
executes the child process under a lease, streams telemetry and reports the
outcome. Failed attempts are retried according to the run's policy.

This directory holds TLA+ modules translated from the C++ and the SQL in
`src/`, TLC configurations that check them on small instances, and proofs for
TLAPS. `PROJECT.json` is the index: which definition stands for which lines,
which run checks which property, and which hazards of the code the properties
are for.

## 1. The system

### Components

| Component (source) | State | Operations that change it |
|---|---|---|
| Run model (`src/domain/model.cpp`) | none | `transition_allowed`, `should_retry`, validation, sweep expansion |
| Submission (`postgres/runs.cpp`, `sweeps.cpp`, `application/runs.cpp`) | `runs`, `sweeps`, request keys, `events` | `submit`, `submit_sweep`, `rerun` |
| Attempt ownership (`postgres/ownership.cpp`) | `attempts`: instance, status, lease, deadlines, outcome | `start`, `heartbeat`, `begin_finalization`, `finish` |
| Recovery (`postgres/recovery.cpp`) | the same rows | `fail`, `recover` (requeue, scan, candidates) |
| Cancellation (`postgres/control.cpp`) | the same rows | `cancel` |
| Telemetry store (`postgres/telemetry.cpp`) | logs, metrics, acknowledged sequence | `report` |
| Docker workers and GPUs (`postgres/workers.cpp`, `gpus.cpp`) | `workers`, `gpu_devices`, `attempt_gpus` | `register_worker`, `worker_heartbeat`, `drain_worker`, `report_gpu_inventory`, `assign`, `runtime_report` |
| Kubernetes store (`postgres/kubernetes.cpp`) | `attempts` of worker `@kubernetes` | `admit_kubernetes`, `kubernetes_stopped`, `kubernetes_runtime` |
| Kubernetes controller (`application/kubernetes.cpp`, `execution/kubernetes.cpp`) | Jobs and Pods of the cluster; the list read at the start of a tick | `tick`: inventory, remove, ensure, observe, admit |
| Leadership (`postgres/leadership.cpp`) | one connection, `ready_`; a session advisory lock | `refresh` |
| Server (`apps/server.cpp`) | threads | monitor loop, dispatch loop |
| Docker agent and backend (`agent/*.cpp`, `execution/docker.cpp`) | containers, session, what the current round of the loop has been told | reconcile, poll, clean up, launch, report; heartbeat and inventory threads |
| Runner (`runner/engine.cpp`, `process.cpp`, `client.cpp`) | child process group, monotonic lease deadline | claim, heartbeat, stop, finalize, complete |
| Telemetry reporter (`runner/telemetry.cpp`) | queue of 4 MiB, next sequence, acknowledged prefix; offset and partial line of the metric file | enqueue, drop, batch, flush; poll |
| Artifacts (`application/artifacts.cpp`, `postgres/artifacts.cpp`, `storage/*.cpp`) | staged files, blobs, metadata rows, download cache | upload, publish, download |
| Connection pool, executor, HTTP dispatch (`postgres/pool.cpp`, `support/executor.cpp`, `http/api.cpp`) | slots, queue, threads, callbacks | acquire, release, submit, answer, shutdown |
| Readers (`cli/workflows.cpp`, `ui/src/lib/telemetry.ts`, event and telemetry queries) | a cursor | next page, follow, export |
| Specification functions (`serialization/json.cpp`, `domain/model.cpp`, `runner/environment.cpp`, `execution/kubernetes_resources.cpp`) | none | decode, encode, expand, validate, merge |
| Capacity views, forms and tables of CLI and UI, support, NVML discovery | nothing that decides | presentation, translation, I/O |

### Interactions

Everything meets in the database. Users reach it through the HTTP API, agents
and runners through gRPC, the monitor and dispatch threads directly. Each call
is one transaction that locks, in this order, the worker's row, the run's row,
the attempt's row and device rows in the order of their UUIDs; the exceptions
are `recover()` and `tick()`, which read in one transaction and act in later
ones. Nobody is notified: agents poll, runners learn of a cancellation from the
reply to a heartbeat, the controller compares lists.

### What is hard

* Cancellation, completion, runtime observation, deadlines and recovery race
  for the outcome of an attempt; the first committed decision must win.
* The status of an execution is stored twice, in `runs` and in `attempts`.
* `recover()` acts on candidates it read without a lock, at most 100 per scan,
  and the server may die between two of them.
* Replies are lost: claims, completions, polls and submissions are repeated,
  possibly after the run has moved on.
* Two containers may be started for one attempt; a replaced agent or server may
  still be running; inventory reports arrive late.
* Capacity and GPUs are given back only when somebody has seen the runtime
  gone, which may be long after the run has ended.
* Something must end every run even if its runner hangs or renews its lease for
  ever; and a runner cut off from the server must have killed its child before
  anybody may start the next attempt.
* A bounded buffer, a bounded poll and a bounded pool meet producers and users
  that do not stop, and threads that sleep on a condition variable until
  somebody remembers to wake them.
* Readers keep nothing but a cursor while records are written, attempts are
  retried and transactions commit in any order.
* An upload checks, writes to another system, and checks again.

`PROJECT.json` lists these as hazards, each with the line where it bites and
the properties that would catch it.

## 2. Modules

```
RunModel            domain functions: statuses, transitions, should_retry
 |- RunLifecycle    abstract specification: what a client is told about a run
 `- AttemptStore    the coordinator's transactions on runs, attempts, events
     |- MCAttemptStore        instances for TLC
     |- AttemptStoreProofs    TLAPS proofs: types and consistency of the rows,
     |                        and how rows, log and answers move
     |- DockerStore           + workers, devices, allocations, placement
     |   |- MCDockerStore           instances for TLC
     |   `- DockerStoreProofs       TLAPS proofs (with AttemptStoreProofs)
     `- KubernetesControl     + tick(), leadership, Jobs and Pods
         |- MCKubernetesControl     instances for TLC
         `- KubernetesControlProofs TLAPS proofs (with AttemptStoreProofs)

RunnerLease         runner, heartbeat thread, child and server, in numeric time
DockerAgents        agent processes, containers, the store's answers
ServerThreads       HTTP dispatch, Executor, ConnectionPool
ArtifactPublication upload handlers, blob stores, cached downloads
 `- ComponentProofs           TLAPS proofs about these four
Submissions         submit, sweep and rerun under idempotency keys
LockOrder           the row and advisory locks of the transactions
 `- TransactionProofs         TLAPS proofs about these two
TelemetryReporter   buffer, sender thread, flush, the server's prefix
MetricReader        the metric file, read in bounded polls
CursorReads         pages of events and telemetry, and those who follow them
 `- TelemetryProofs           TLAPS proofs about these three
SpecFunctions       functions on run specifications, with references
 `- FunctionProofs            TLAPS proofs
MCComponents        the instances of the second group for TLC
DataLemmas          induction, folds, ordered sets and sums, for the proofs
```

The modules of the second group stand next to the store, not on top of it: each
states as much of the store as its component talks to (an attempt's row, a
session, the acknowledged prefix) and names the code of both sides. What the
transactions behind these answers do is the matter of the first group.
`MCComponents` checks them in common runs; they share no variable, and a
behaviour is one of a single component, its *subject*.

### RunModel and RunLifecycle

`RunModel` is the part of `model.cpp` that the store depends on.
`RunLifecycle` is the specification a client may rely on: a run's status moves
only along `transition_allowed`, the number of tries grows by one with each
assignment and never exceeds `max_attempts`. The C++ store never calls
`transition_allowed`: it writes statuses with SQL. That the SQL nevertheless
follows it is `ImplementsLifecycle`.

### AttemptStore

`run[r]`, `attempt[a]` and `events[r]` are rows of the tables of the same name,
with the columns some transaction decides from. `monitor[m]` is the program
counter and the candidate list of server `m`'s `recover()`. `granted` and
`accepted` are history: who was answered "go", and which completions were
answered OK. Both are observations of replies; no action reads them.

| Action | Code |
|---|---|
| `Submit`, `Rerun` | `submit`, `submit_sweep`, `rerun` (one action per run inserted) |
| `Place` | the insertion in `assign` and `admit_kubernetes`; the choice of run and worker is left open here |
| `Claim`, `ClaimAgain` | `start`, first and repeated |
| `Heartbeat`, `BeginFinalization`, `Report` | the functions of these names |
| `Finish`, `FinishAgain` | `finish`, the decision and the answer to a repeated call |
| `Cancel` | `cancel` |
| `RuntimeStopped`, `CleanupDone` | `kubernetes_stopped`; the confirmation in `runtime_report` and `kubernetes_runtime` |
| `RecoverRequeue`, `RecoverScan`, `RecoverCandidate`, `RecoverAbort` | `recover()`: its transactions, and a call cut short by an exception or a crash |
| `Expire`, `DelayElapses` | `clock_timestamp()` passes a deadline |

Transactions are atomic because each locks the run's row before it reads
anything it decides from, and holds the lock to commit. A call that throws
rolls back and is therefore no step. A crash of the server loses only the
candidate list, since everything else is in the tables.

Time is qualitative: a timestamp is unset, valid or expired. This loses how
long something takes, and keeps every order in which deadlines can pass with
respect to every transaction.

### DockerStore

`DockerStore` extends `AttemptStore` with the rows of `workers`, `gpu_devices`
and `attempt_gpus` and replaces the open choice in `Place` by what `assign`
computes: the session registered last, freshness of heartbeat and inventory,
drain, replay of unacknowledged assignments, capacity not yet cleaned up, free
devices. CPU and memory are one resource since the code treats them alike.
`Fits` admits every fitting run, not only the one of highest priority: the
query says `SKIP LOCKED`, and a row may be locked by another call at any time.

### KubernetesControl

`KubernetesControl` extends `AttemptStore` with the dispatch thread of each
server, the advisory lock and the cluster.

| Variable | Code |
|---|---|
| `runtime[a]` | `attempts.runtime_id` is set |
| `tick[m]` | local variables and position of `KubernetesController::tick` in server `m` |
| `ready[m]`, `link[m]`, `holder` | `Leadership::ready_`, its connection, the session that holds lock 72841902 |
| `job[a]`, `pod[a]`, `inflight[a]` | the cluster: the Job `runyard-a`, its Pod, a create request nobody waits for any more |

| Action | Code |
|---|---|
| `Refresh`, `RefreshFails` | `Leadership::refresh` |
| `LinkBreaks`, `Crash` | the database ends the session; the process dies and restarts |
| `TickRead`, `TickInventory`, `TickOrphan` | the two lists, and the deletion of unknown Jobs |
| `TickAttempt`, `TickCommit` | one attempt of the list: the call to the cluster, then the transaction |
| `TickAdmit`, `TickLaunch`, `TickLaunched`, `TickEnd` | the admission loop: `admit_kubernetes`, `ensure`, `kubernetes_runtime` |
| `TickFails` | an exception of the database or of the list of Jobs, caught per attempt or by the dispatch thread |
| `PodStarts`, `JobFinishes`, `JobLost`, `Collected`, `LateCreate` | the cluster (external) |

`tick()` is cut between every two calls it makes, because everything else can
happen there; each step decides from what the tick has read, never from the
current rows, unless the transaction itself looks again. `ensure`, `remove` and
`has_stopped` consist of up to three requests, and are given by their outcome: they
return, having established what the last request saw, or throw, having had any
part of their effect. A tick deals with attempts in the order of creation,
which is the order of their ids. What `ensure` puts into a Job, and its refusal
of a Job whose image or GPU count differs, are left out: Jobs are named after
random attempt ids and only the controller creates them.

### RunnerLease

`run_attempt` and the thread of `LeaseGuard`, with a clock that counts seconds.
`rn` is the main thread: its phase, the time it last did something, the reason
for which it stops the child and when it will kill it. `hb` is the heartbeat
thread, `guard` what both share (`until_`, `revoked_`), `proc` the child and the
rest of its process group, `srv` the row of the attempt, `call` and `late` the
requests under way. A call is answered, lost before it was executed or lost
after; a heartbeat that timed out may still be executed when the runner has
given up on it. `Tick` passes time unless somebody has to act first: a call has
its deadline, the thread its interval, and the watch loop `Slack`, the longest
time between two of its steps (20 ms of sleep and bounded reads in the code).
`Until` subtracts the margin of two seconds from a lease counted from *before*
the call, and `Watch` stops the child when what is left is the grace period.

### TelemetryReporter and MetricReader

The two threads of `Reporter` and its condition variable: `Enqueue` drops at the
limit, the sender copies a batch out of the queue, removes what was
acknowledged and then puts a notice for what was dropped into the room it has
made; `flush` sleeps until the queue is empty or sending has failed. A report
may be refused, unanswered, or executed after its deadline, and the server keeps
a prefix. `MetricReader` is the loop over characters of `poll`, cut into reads
that end anywhere, against `Expected`, which says what each line should give by
its length.

### DockerAgents

The processes of `runyard-agent` that act for one worker with one GPU. Each goes
through the loop of `run_agent` call by call: `ListContainers`, `Reconcile`,
`StopOne`, `PollServer` and `Assign` (two transactions), `CleanOne`,
`ConfirmClean`, then `Inspect`, `CreateContainer`, `StartContainer` (the requests
of `ensure`) and `ReportLaunched`. Any step may fail or lose its answer, which
takes the process to the top of its loop; it may die anywhere; and in the
behaviours with `overlap` its successor starts while it still runs, acting on
what it was told before. The store is the attempt's row and the worker's
session.

### Submissions

`submit`, `rerun` and `submit_sweep` statement by statement: the advisory lock on
the key, the look at its row, the comparison of the fingerprint, the insertions,
the commit. A transaction sees what others have committed. `rerun` looks at the
run it repeats only when the key is new, as in the code. A command repeats a
request that was answered 503 or not at all, so that several transactions for
one request may run side by side.

### ServerThreads

One step per critical section of `Executor` and `ConnectionPool`, and
notifications as steps of their own, because the code sends them after the
unlock. HTTP requests are refused or accepted by `dispatch_response`, taken by a
worker, use a connection (waited for with a deadline, replaced when broken) and
are answered; RPC threads compete for connections; `shutdown` comes at any time.

### CursorReads

A run is assigned, stores records, is retried and ends, while a reader goes from
page to page: `logs --follow` with and without a fixed attempt, `logs`, the
metrics export, the hook of the web page, and the reader of `/events`. Events are
numbered by `pg::event` under the lock of the run's row in transactions that
commit later.

### ArtifactPublication

Upload handlers of the server, each at its own place between staging, checksum,
first ownership check, blob and row; `atomic_copy` in the steps that matter to a
crash (directory, rename, sync) and S3's single put; a runner that repeats an
upload, possibly with changed content; downloads that share a cache file. Crashes
are those of the process or of the host, given by `Faults`.

### LockOrder

Every transaction that takes more than one lock, as the sequence of its locks;
sessions take them one at a time and keep them to the end. All but one ask for
their rows in an order the code writes down. The exception is the requeue of
`recover()`: `UPDATE runs ... WHERE status='RETRY_WAIT'` (`recovery.cpp:22`) has no
`ORDER BY`, and PostgreSQL may scan the table from anywhere, so
`BeginRequeue` takes any of the runs in any order, and `bulk` remembers who runs
one. `NoCircularWait` says that a circle of waits always contains a circle of
such requeues.

### SpecFunctions

A sweep is given by what its checks look at: of the base the estimated bytes and
the number of parameters the grid does not replace, of each dimension the length
of its key, the number of its values and the longest text among them. The
limits are those on runs, on bytes (`Estimate`) and, since `validate` is called
for every item, on the name and text of a parameter and their number.

Pure functions, each checked against a reference over all inputs up to a bound,
and proved to agree with it for every input:
`decode_spec`/`encode` with the `jsonb` column between them, `expand_sweep`,
`validate_relative_path`, `workload_environment`, `pod_gpu_request` and
`retry_delay`. Specifications are represented by one field per section of the
document and one scalar, whose magnitude says how JSON, C++ and `jsonb` each
write it.

## 3. Runs

| Run | Instance | Shows |
|---|---|---|
| `one_run` | 1 run, 3 policies, 2 attempts, 2 runner instances, 2 servers, all outcomes, 1 telemetry record, scan limit 1 | consistency of the rows, single claimant, honest replies, final outcomes, no revival of a lease, refinement of `RunLifecycle` |
| `two_runs` | 2 runs of one try or of two, 2 attempts, every failure retried, scan limit 1, fair | runs requeued together or rerun do not disturb each other; the event log tells every status; every overdue attempt is ended although the scan returns one at a time and calls are cut short; a run of one try or of two reaches a terminal status after the last of them |
| `docker_replaced` | 1 GPU worker whose agent is replaced by one with less capacity, on the same engine or another; 1 run of two tries with or without a GPU, runner calls for the second, recovery | `DockerStore` implements `AttemptStore`; GPUs exclusive and held until cleanup; capacity never oversubscribed by an assignment; pending cleanup pins the engine |
| `docker_cpu_engine` | the same worker, first agent without GPU support | *violation*: pending cleanup does not pin the engine of a worker without GPU support |
| `docker_replay` | inventory lapses before acknowledgement | *violation*: an unacknowledged GPU assignment is passed over |
| `k8s_single` | 1 server, 2 runs of two tries, limit 1 | whatever crashes and fails: no Job of a live attempt is deleted, cleanup means Job and Pod are gone, a leader with an intact session holds the lock, the limit counts attempts until their cleanup is confirmed |
| `k8s_cleanup` | 1 server, 1 run, runner calls, recovery, a create request that is executed late, fair | `KubernetesControl` implements `AttemptStore`; leftovers of ended attempts disappear for good; a lost Job is noticed |
| `k8s_two_leaders` | 2 servers | *violation*: both are inside `tick()` at once |
| `component_safety` | the components of the second group, one per behaviour, bounds below | the safety properties below |
| `component_progress` | runner, reporter, agents, threads and readers, with fairness | the liveness properties below |
| `metrics_tail` | a child that writes up to 8 characters, polls of 3 | *violation*: lines written shortly before the exit are neither handed over nor marked |
| `artifact_host_crash` | two uploads to the same directory, crash of the host | *violation*: a published artifact is gone |

The properties of the component runs. Where several facts about one component
belong together, one property is their conjunction; the parts have names of
their own in the module.

| Module | Safety (`component_safety`) | Progress (`component_progress`) |
|---|---|---|
| `RunnerLease` | `ChildDeadBeforeExpiry`: while a process of the experiment lives the server's lease has not expired. `LeaseAccounted`: success is recorded only for a child that exited with 0 unprompted (`OutcomeTold`), and a lease is given up only after a refusal or a missed heartbeat (`LossHasCause`) | `RunnerEndsHere`: the runner ends and leaves no process |
| `TelemetryReporter` | `NothingLostSilently`: sequence numbers have no gap, the buffer keeps its limit, and after `flush` everything is stored or counted by a stored notice | `FlushReturns`, without its deadline |
| `MetricReader` | `LinesReadOnce`: what is handed over depends on the text, not on where reads end | |
| `DockerAgents` | `GpuServesOne`: never two owning runners on the GPU, replaced agents included; while agents do not overlap, never two containers, and none launched twice | `CleanupHappens`: device given back, container gone |
| `Submissions` | `SubmittedOnce`: one result per key, the same answer to every repetition, no insertion that a unique index has to refuse | |
| `ServerThreads` | `QueuesWhole`: no slot is lost, no connection is free while a waiter sleeps unnotified, no request is answered twice | `AcceptedIsAnswered`, `ShutdownReturns` |
| `CursorReads` | `ReadersExact`: of the attempt it names, and of the events, a reader has every record up to its cursor once and in order (`CursorExact`, `NoEventSkipped`); what one gets that names no attempt yet (`UnnamedRead`); a follower that ends has seen everything (`FollowComplete`) | `FollowEnds` |
| `ArtifactPublication` | `PublishedIsStored`: a row names bytes that are there. `ResultsHonest`: the results of an attempt do not change once it has ended, an accepted upload is the published one, and what is served was verified | |
| `LockOrder` | `NoCircularWait`: nobody waits in a circle but requeues of `recover()` for each other | |
| `SpecFunctions` | `FunctionsMeetReferences`: the round trip of a specification, the expansion of a sweep, path validation, precedence in the environment, the GPU request of a Pod and the retry delay, each against its reference | |

Why the bounds are enough. Two attempts of a run are the least that has a
superseded attempt, and every transaction looks at one attempt and its run; with
two runs they may belong to one or to both. `EveryRunEnds` lets a run wait only if
it is QUEUED with tries left when both attempts exist; a run whose tries are used up
(one of one, or both of two) must end, whichever attempts the other run has. Two instances are the
least that compete for a claim, and two servers the least whose `recover()`
calls overlap. A scan limit of 1 with two overdue attempts is the situation of
the limit of 100 with 101. One telemetry record suffices for `finish` to find
the acknowledged sequence equal to or behind the final one, and for a repeated
report. In the Docker run about a replaced worker one device and
one run tried twice are enough for a device to be wanted while the container
that had it is still there, and, for a run without GPU, for the second try to be
placed beside the first one's container or refused because an agent came back
with less capacity. `Attended` names the attempts whose runner calls the store,
here the second: the first ends by cancellation, recovery or its worker. (With two workers that see one device, the second's
report is refused; the proof covers any number.) The violation runs have no runner instances and no
`recover()`: their attempts end by cancellation. In the Kubernetes
runs two attempts are the least of which one may be on the tick's list and the
other not. `AdmitBatch` is 1 (4 in the code): the batch ends a loop whose
rounds are alike and after which the next tick starts over. `Late` names the
attempts whose create request may outlive its caller; `k8s_single` has none,
since such a request may create a Job after cleanup was confirmed, and
`k8s_cleanup` shows that the Job is then found and deleted as an orphan.
`CleanupMeansGone` and `LiveJobKept` are about one server: with two inside
`tick()` neither is promised by the code. What must hold with several servers
(consistent rows, the admission limit, the meaning of the lock) is checked with
one and proved for any number; two of them with two attempts are beyond TLC's
five minutes. Symmetry is used for runner
instances only, in a run without liveness.

Bounds of the component runs.

* Runner: lease 8 s, margin 2, grace 1, heartbeats every 2 s (3 in the
  progress run), calls of 1 s tried twice, one second between two looks of the
  watch loop, execution limit 7 s (2), clock up to 8 (4) at which new calls stop.
  The ratios are those of the code (30, 2, and so on) as far as they matter:
  several heartbeats fit into a lease, and the margin covers two looks. The
  proof holds for all values.
* Reporter: 4 records of 1 or 2 units against a limit of 4, batches of 2 records
  or 3 units, notices of 1: the least at which the buffer overflows, a batch is
  cut by either bound and a notice waits for room.
* Metric file: up to 8 characters, polls of 3, lines up to 2, at most 3 records:
  a poll ends before, inside and after a line, in one that is too long, and past
  the last record accepted.
* Agents: 2 processes, 2 attempts that want the one GPU, a container without
  an attempt, 1 lost or failed call.
* Submissions: 1 key, 2 bodies, 2 clients that each try twice, sweeps of 2.
* Threads: 2 requests for 2 workers and an RPC thread, a queue of 1 and one
  connection, so that both are full at once.
* Readers: 2 attempts with up to 5 records together, pages of 2, a view of 2 (with 5
  an export that began without an attempt takes its cursor into the second one);
  3 event writers, the least of which two commit out of order before a reader
  whose page ends between them.
* Artifacts: 1 path, 3 contents of which one exceeds the quota, 2 handlers,
  2 readers, 2 tries.
* Locks: 3 sessions, 2 workers, one of them with 2 devices, 2 runs. A circle of
  three transactions could exist without one of two, and one of two requeues does.
* Functions: sweeps of up to three parameters of 0 to 3 values against a limit
  of 6 runs and 50 bytes, with names and texts at and beyond their limits, paths of up to 5 characters, GPU counts up to 2, delays up to 9.

Fairness (`FairSpec`). Launch, execution and finalization deadlines and retry
delays pass, because nothing moves them once they are set. Expiry of a lease is
*not* fair: a runner may renew it for ever. The monitor thread calls
`recover()` in a loop while its server leads, so its first transaction is
weakly fair; the later ones are strongly fair, since a call may be cut short
again and again and each restarts from the beginning, but a database that fails
every time is excluded. Some worker keeps polling with room for the run
(weak fairness of `Place`); without that a queued run rightly waits.

`KubernetesFairness`. The dispatch thread loops, so `tick()` goes on. Crashes,
lost sessions and errors may interrupt it any number of times, and each time it
starts from its first list; hence strong fairness of the steps towards an
attempt: they do not fail every single time. A Pod told to stop does so, and a
request under way is executed or dropped. Nothing is assumed of runners,
and `JobLost` and `JobFinishes` need never happen.

`FairSpec` of `MCComponents`. Threads are scheduled and time goes on; of the other
side as little as possible is assumed.

* Runner: its two threads and the clock. The server may never answer and the
  child may ignore everything but SIGKILL.
* Reporter: both threads, and a report that is repeated for ever is answered
  and acknowledged now and then (strong fairness of `Report`, `Acknowledged` and
  `Refused`). Without it `flush` ends at its deadline only, which is not modelled.
* Agents: a process goes on, a dead one is started again (Docker's restart policy
  or the operator), heartbeat and inventory threads run, and the store ends every
  attempt, which is `OverdueIsEnded` of the store.
* Threads: every thread goes on; the deadline of `wait_for` is strongly fair
  because it counts from the beginning of the wait and is not put off when another
  thread takes the connection the waiter was woken for. `shutdown` need not happen.
* Readers: a reader goes on, and a page that keeps polling sees the end of
  the run.

Deadlock is checked in the runs of the store: `recover()` loops and agents send
heartbeats also when all runs are terminal, so the system never stops. It is not
checked in the component runs, since a runner, an upload, a function and a server
that shuts down really end; `LockOrder` states the absence of deadlock as an
invariant.

### Disagreements with the documentation

* `docs/GPU.md` says a worker cannot change Docker engines while it has pending
  cleanup. `register_worker` compares the engine ids only if the recorded one is
  not empty, and an agent with GPU support disabled sends an empty one. A CPU
  worker restarted against another engine is accepted, finds none of the old
  containers there and confirms their cleanup (`docker_cpu_engine`).
* `docs/ARCHITECTURE.md` says an unacknowledged assignment is returned again
  before new work is assigned. For a GPU assignment this holds only while the
  worker's inventory is ready and fresh; otherwise it is skipped and a CPU run
  is assigned (`docker_replay`).
* `docs/FAILURES.md` says a second process cannot become ready or dispatch. When
  the database ends the leader's session the lock is free at once, but the
  leader's `ready_` stays set until its monitor thread calls `refresh()` again,
  and a tick that has begun is not stopped by it: a second server becomes ready
  and dispatches meanwhile (`k8s_two_leaders`). The transactions tolerate this:
  the rows stay consistent and the admission limit holds (both are proved),
  because `admit_kubernetes` serializes its count with a lock of its own.
* `docs/ARCHITECTURE.md` says dropped or truncated output is marked. After the
  child has ended the metric file is polled twice, each time up to 64 KiB; what
  lies beyond is never read and nothing records it (`metrics_tail`).
* `docs/STORAGE.md` says filesystem storage syncs file contents, renames and new
  directories before committing metadata. `atomic_copy` syncs the parents of the
  directories it created itself; an upload that finds the directory of its
  attempt made by another one, not synced yet, publishes without that sync, and
  after a crash of the host the row may name a file that is gone
  (`artifact_host_crash`).

Seen on the way, without a run:

* an exception while an orphaned Job is removed ends the tick, so a Pod that
  never terminates keeps the controller from launching, observing or cleaning
  up anything else;
* a reader started without `--attempt` before an attempt exists sends an empty one,
  which the server takes for the attempt active at each request. `logs` prints the
  first page it gets that way again once it knows the name (`workflows.cpp:16-21`);
  `metrics` keeps the empty name and its cursor to the end, so that when the run is
  retried meanwhile it skips the first records of the later attempt
  (`workflows.cpp:55-76`). `UnnamedRead` states what is left;
* two `recover()` calls at once, as when a second server leads while the first has not
  noticed, may lock due runs in different orders and wait for each other;
  PostgreSQL aborts one, which begins again with its next scan (`RecoverAbort`);
* an exception while the handler of an exception builds its answer (an error message
  that is not UTF-8, `api.cpp:88-92`) would leave the worker of the executor
  and end the process; `AnswerRequest` always answers;
* a float of 1e16 or more comes back from `jsonb` as an integer, and one between
  2^63 and 2^64 is then refused when the document is decoded, at submission;
* two workers that report each other's GPUs at once could wait for each other
  in `report_gpu_inventory`; PostgreSQL aborts one, and UUIDs are unique in
  practice, so `LockOrder` gives every device to one worker.

## 4. Proofs

`AttemptStoreProofs` proves for all values of the constants that satisfy
`StoreAssumption` (ids are naturals, NULL is not one of them, a retry policy
allows at least one attempt):

* `TypeCorrect`: `Spec => []TypeOK`;
* `StoreConsistent`: `Spec => []StoreInv`;
* `AgreementHolds`: `Spec => []AttemptRunAgree`: an attempt executes exactly
  when its run does, with the same status, and is then the run's active
  attempt; so a run never has two executing attempts.

The agreement of the two status columns is not inductive. `Place` may only
overwrite `active_attempt` of a run whose earlier attempts are all over, which
needs that executing attempts are active (agreement itself) and that the active
attempt of a queued run has FAILED (`RetryBudget`). That a candidate
`recover()` remembered is still a row of its run needs `CandidatesExist`
together with `RowsLinked` (attempts point to runs whose generation has reached
them, unused ids have empty rows). `ActiveIsLatest` and `GenerationsDistinct`
carry the fencing by generation, and `RetriesJustified` the history of why a
run was tried again. `StoreInv` is the conjunction; together with `TypeOK` it
is inductive.

The proof is by action: row lemmas give the type of each updated row; the
actions fall into classes that disturb the same conjuncts (a waiting run moves,
an executing attempt and its run move together, submission, placement), each
with a lemma (`WaitingRunsMove`, `ExecutingPairMoves`, `SubmitTables`,
`PlaceTables`), and `RunnerTables`, `CancelTables`, `RecoverTables` and
`TimeTables` reduce the actions to these; `StoreStep` combines them.

Its second part goes on from there to what rows, log and answers may do over time:

* `OneClaimant`, `AcceptedStays`: `[]SingleClaimant` and `[]AcceptedIsRecorded`.
  Both relate answers given long ago to a row that recovery, cancellation and
  repeated calls may have changed since. They are inductive with
  `RowsTellOutcome` (a row nobody has claimed has neither instance nor lease, and
  the status of an ended one agrees with its exit code), as `HistoryInv`.
* `ExpiredStays`, `DecisionsAreFinal`: the action properties
  `ExpiredLeaseIsFinal` and `OutcomeIsFinal`.
* `EventsTell`: `[]EventsTellStatus`: the log is a chain of legal transitions
  that ends in the row's status.
* `StoreRefinesLifecycle`: `Spec => ImplementsLifecycle`.

All rest on two lemmas that list, once for all actions, how a single row may
change: `AttemptMoves` (a row of attempts is kept, inserted, claimed, worked on by
its owner under a valid lease, or ended) and `RunsMove` (a run and its log are
kept, or the run is submitted, assigned or moved by one legal transition, and
the log grows by the event that reports it). The theorems then argue about the
moves only. Going through the actions needs `StoreInv`: for instance, that a call
that passed `lock_attempt` moves the run legally follows from the agreement of
the two statuses.

`DockerStoreProofs` and `KubernetesControlProofs` prove that both deployments
implement `AttemptStore`, for any number of workers, agents, devices, servers
and attempts, and carry the results over:

* `DockerImplementsStore`, `ControllerImplementsStore`:
  `DockerSpec => ImplementsAttemptStore` and the same for `KubernetesSpec`. The
  variables of `AttemptStore` are mapped to themselves, so the argument is that
  each action either contains one of its transactions or leaves its rows alone.
  One case needs an invariant: a `Crash` between two calls of `recover()`
  must be a stuttering step, which holds because a monitor that is not working
  on candidates remembers none (`IdleForgets`).
* `DockerConsistent`, `KubernetesConsistent`: `[]StoreInv` of each, from the
  refinement and `StoreConsistent`.
* `DockerKeepsHistory`, `ControllerKeepsHistory`: so do the theorems about the
  history (one claimant, accepted completions, final decisions and
  leases, the log, the lifecycle).
* `GpusExclusive`: `DockerSpec => []GpuExclusive`. It is inductive as it stands:
  `Assign` takes only devices that no unreleased allocation holds, and no other
  action adds to an allocation that is not released.
* `KubernetesTypeCorrect`: `KubernetesSpec => []KubernetesTypeOK`, whose
  relational part says that a tick about to record something has the attempt on
  its list. Each kind of step of a tick has a lemma (`ListMoves`,
  `OrphansMove`, `CurrentMoves`, `AdmissionMoves`); `TickTypes`, `LeaderTypes`
  and `ClusterTypes` go through the actions.
* `LockDecides`: `KubernetesSpec => []LeaderHoldsLock`. Inductive with the types
  of `ready`, `link` and `holder`: `Refresh` takes the lock only if nobody holds
  it, and whatever frees the lock breaks or replaces the holder's session.
* `AdmissionLimited`: `KubernetesSpec => []AdmissionBounded`. The invariant adds
  that the set of pending attempts is finite (`Bounded`), without which a
  cardinality means nothing. `TickAdmit` adds one element after it has counted
  fewer than `MaxActive`; that no other action of any server makes an attempt
  count (`ControllerStillCounts`) needs `TypeOK` and, for candidates of
  `recover()`, `StoreInv`.

* `LiveJobsKept`: `KubernetesSpec => LiveJobKept` under `OneServer`. A tick
  decides from a list of Jobs, a list of rows and a row it read before, and the
  rows go on changing between its steps. `ListInv` (`ListsCurrent`) says what
  of this stays true: an attempt on the list still awaits cleanup, and has ended
  if its Job is to be removed; and until the first one is dealt with nothing that
  awaits cleanup is missing from the list, so a Job that is not on it is an
  orphan. It rests on `SettledKeepsPlace`: no other transaction than an admission
  and a confirmed cleanup places an attempt or changes where it is.
* `CleanedStaysGone`: `KubernetesSpec => []CleanupMeansGone` under `OneServer` and
  `Late = {}`. The invariant `GoneInv` adds that no creation is in flight and that
  between the removal and its record (`kubernetes_stopped`) nothing brings the
  Job back.
* `DockerTypeCorrect`: `DockerSpec => []DockerTypeOK`, by the columns of a row
  (`ColumnMoves`, `WorkerRowMoves`) and by action.
* `GpusHeld`: `DockerSpec => []GpuHeldUntilCleanup`. `HeldInv` says where an
  attempt is (`Placed`: a place once it exists, by `SettledKeepsPlace`) and what it
  holds (`Held`). Devices may vanish from an inventory and come back, but never
  change their worker (`OwnersStay`). That `Assign` reserves exactly `gpu_count`
  devices is `FirstOfCount`: the ranks of a set's elements are a bijection to an
  interval.
* `CapacityKept`: `DockerSpec => NeverOversubscribed`. `Reserved` is a sum over the
  attempts that await cleanup, which is a number only while they are finitely many
  (`PendingFinite`, inductive). Only an assignment may add to the sum: it adds one
  attempt whose share it has compared with what is left (`AssignFits`); every other
  step keeps or shrinks the set and changes no share (`NoMoreReserved`, by
  `SettledKeepsPlace`).
* `EngineKept`: `DockerSpec => EnginePinned` under `AllCapable`: the engine a
  worker's row records is that of the agent in charge (`EngineRecorded`).

The hypotheses are conditions on the deployment, not on the proof. `OneServer`
is what the manifests deploy (`deploy/kubernetes/base/server.yaml`, one replica);
`k8s_two_leaders` shows what two servers may do. `Late = {}` excludes a create
request that the API server executes after the controller has given it up and an
answer that the Job is gone has been recorded; the `k8s_cleanup` run, with such
requests, checks that the Job is then removed again. `AllCapable` excludes agents with
`RUNYARD_GPU_MODE=disabled`, for which `docker_cpu_engine` shows the opposite.

`ComponentProofs` proves of a runner `LeaseOutlivesChild`:
`LeaseSpec => []ChildDeadBeforeExpiry`, for every lease, margin, grace period,
interval and timeout that satisfies `LeaseTiming`. The property compares two
sides that never see each other's clock reading, so the invariant `LeaseInv`
follows the chain between them:

* `LeaseTypeOK`: values and phases;
* `GrantInv`: a deadline the runner believes in counts from the moment before
  a call was sent, and the server wrote its lease when it executed the call,
  later; so `until` lies `Margin` before the server's expiry, also when a
  heartbeat that timed out is executed afterwards;
* `WatchInv`: the main thread looks at least every `Slack`, begins to stop the child
  when no more than the grace period is left of `until`, and kills it when the
  grace period is over; so no process lives past `until + Slack`, and
  `2 * Slack <= Margin` keeps that before the server's expiry.

Each action has a lemma for the parts it disturbs, and `Tick` uses the
bounds on how long each thread may stand still.

`OutcomeIsTold` proves `[]OutcomeTold` with `TellInv`: what is recorded is what the
runner reports to the end, and was sent after the last process of the child had
gone, however often the call was repeated or served late. `LeaseIsAccounted` proves
`[]LeaseAccounted` under `Comfortable`:
`Margin + Grace + HeartbeatEvery + 2 * RpcTimeout < Lease`. `BeatInv` bounds the
age of the deadline by where the heartbeat thread stands, so that a runner that
sees its lease run short has been refused or has missed an answer. The defaults
satisfy it (in seconds 2 + 10 + 5 + 2 * 2 = 21 < 30), as does the instance of
the run (7 < 8). Some such condition is needed: with a lease shorter than that,
answers as slow as the deadline allows could end a healthy run.

`TransactionProofs` proves `SubmittedOnceHolds`:
`SubmissionsSpec => []SubmittedOnce`, for any number of clients, keys and bodies.
The difficulty is that a transaction's rows are written some steps after it has
looked for the key. `SubmitInv` carries what the advisory lock guarantees in
between: at most one transaction per key is past it (`KeysHeld`); ids are handed
out once (`IdsUsed`, `IdsOwn`); how many runs an open transaction has written is
known from where it stands (`RunsWritten`); a key has one row (`KeysUnique`) and
every success names it (`AnswersKnown`).

It proves `NoCircularWaitHolds` as well: `LocksSpec => []NoCircularWait`,
for any number of sessions and rows. `TransactionsOrderly` shows of every
transaction but the requeue that it asks for its locks in the order of their
rank: the advisory lock, the worker, runs, attempts, devices. Devices have no
bound on their rank, but are locked only under the lock of their worker
(`WorkersFirst`), so nobody ever waits for one. `LockInv` says that a row has one
holder, that what a session holds ranks below what it still wants (`Climbing`),
that a requeue has and wants runs only (`Requeueing`), and `WorkersFirst`. Along a
circle of waits without a requeue the ranks would grow without end, although the
rank of what somebody waits for is bounded; so there is a requeue in it
(`CircleHasRequeue`). What a requeue waits for is a run, and whoever in the circle
holds one and waits himself is a requeue as well (`RunHolderIsRequeue`): the
requeues of a circle wait for each other. `OneRequeueNoCircle` draws the
conclusion for one server: where no two requeues run at once nobody waits in a
circle. That a set of naturals has a least element is `LeastNatural`, from the
well-founded inclusion of finite sets.

`ComponentProofs` holds three components besides the runner:

* `ResultsAreHonest`: `ArtifactSpec => []ResultsHonest`. `ArtifactInv` follows
  an upload from the runner's hash to the row: a handler the runner waits for
  works on the file and the content the runner hashed (`Awaited`); a download is
  one of a published file and serves only a cached file with its checksum
  (`Downloading`).
* `PublishedStaysStored`: `ArtifactSpec => []PublishedIsStored` under `Reliable`,
  which excludes one fault of one storage, the crash of the host of a filesystem
  store. `StoredInv` says that an object under its final name is whole, and
  that a handler about to publish has put it there, for both kinds of storage
  and through crashes of the server. With the excluded fault the property is false
  (`artifact_host_crash`).
* `QueuesStayWhole`: `ThreadsSpec => []QueuesWhole`. `SlotsConserved` counts the
  places of the pool; `FreeConnectionAnnounced` is inductive with the types (who
  returns a connection has its notification to make before anything else). For
  the answers, `Single` says that a request is in one place of the queue or with
  one worker, `Told` that it is there from its acceptance to its answer, `Ending`
  that a worker ends only when nothing is left and nothing can come.

* `GpuIsServed`: `AgentsSpec => []GpuServesOne`, for any number of attempts and
  agents. Two invariants share the work. `AgentsInv` holds however agents
  overlap: at most one attempt reserves the GPU (`OneReserves`), a container with
  an owner belongs to it (`OwnersReserve`), nothing is assigned before containers of
  unknown attempts are gone (`StraysFirst`), and what a process remembers, from a
  session that may be stale, is still so where it matters (`Remembers`): what it
  is to clean up has ended, and what it has removed has no owner. `SoloInv` holds
  while agents run in turn (`InTurn`): the attempt a process launches holds the
  GPU and was never started (`Undisturbed`, `StartedOnce`), and every container
  belongs to an attempt that holds it (`BoxesReserve`). With overlapping agents the
  second half is false, which is why `OneContainerOnGpu` and `LaunchedOnce` say so.

`TelemetryProofs` follows the telemetry from the experiment to a reader, for every
limit and size of a batch, a poll, a line and a page:

* `MetricLinesReadOnce`: `ReaderSpec => []LinesReadOnce`. `ReaderInv` says what the
  reader holds after the first `k` characters, whatever polls they came in
  (`ReadUpTo`): what it has handed over is the concatenation of `EntryAt` of these
  characters (`OutUpTo`), it has counted the newlines among them, and keeps
  what follows the last one, or the mark that it is too long. `ReadOneMore` is one
  character, `ReadSome` a poll, and `ReadStays` says that more text changes nothing of it.
* `ReporterLosesNothing`: `ReporterSpec => []NothingLostSilently`. No variable holds
  the records that were ever numbered: some are stored, some are in the buffer, some
  are both, and those that were dropped are nowhere. `ReporterInv` therefore asserts
  that there is a list of all of them (`Known`): numbered without gap, items in
  order (`InOrderFrom`); the store is a beginning of it, the buffer an end, and the
  two meet or overlap, whatever the sender holds or a late call still carries
  (`Covered`); its items, what its notices count and what waits for a notice add up to
  what was produced (`Counted`). An answer may be that of a batch sent twice;
  `LeftIsEnd` shows that what it leaves in the buffer still is an end.
* `ReadersAreExact`: `ReadsSpec => []ReadersExact`. `ReadsInv` says that a reader shows
  the records it wants up to its cursor, all of them, once, in order (`Reading`); that
  what it has noticed of the end of its attempt is so (`Noticed`), and stays so because
  nothing is stored for an attempt that is not active (`RecordArrives`); and, for a
  page under way, that it holds what is between the two cursors (`Asked`): records
  that arrive meanwhile come behind it. A reader that ended has nothing after its
  cursor (`Finished`). For readers that name no attempt `UnnamedInv` describes what
  they have shown so far and `PageAdds` what one more page, of whichever attempt is active
  then, adds to it (`UnnamedPage`). For events, `Numbering` carries what the lock of the run's row
  guarantees: one writer has an uncommitted number, so what commits is the next one.

`FunctionProofs` proves `FunctionsAreRight`:
`FunctionsSpec => []FunctionsMeetReferences`, for any number of values of a
parameter, any limits on runs and bytes, paths of any length, any GPU counts and delays. The
lemmas about sweeps and Pods (`SweepIsExpanded`, `RequestFound`) also leave the
number of parameters and containers open, which the inputs of the module bound.
The functions loop or fold where their references quantify:

* `validate_relative_path` splits at slashes: at each `Cut` the loop has judged the
  components before it (`LoopAtCut`), so it accepts the paths all of whose
  components are proper (`PathIsSafe`).
* `expand_sweep` extends the runs by one dimension after the other: run `x` of
  `k` dimensions is the number `x - 1` in the mixed radix of the dimensions
  (`RunsOf`, `RunsFound`), hence the runs are distinct and all there. That exactly the
  sweeps beyond a limit are refused rests on the divisions in front of the
  multiplications: of runs (`OverLimit`) and of their bytes (`BytesFit`).
* `pod_gpu_request`: the fold over init containers carries what sidecars hold and the
  largest need so far; it equals the maximum over the containers of what runs
  `During` each start (`PeakFound`).
* `retry_delay` doubles by repetition under a cap (`ShiftedDoubles`); a specification
  that was accepted survives encoding, the `jsonb` column and decoding (`SpecIsKept`); a float
  that would not is refused at submission, when the row is read back.

`DataLemmas` is what these rest on. The library's induction takes an operator, which
no prover here can instantiate, so an induction is over a *set*: a set that holds 0 and
with each number the next one holds all (`Induct`, from `LeastNatural`), and what holds
of a finite set whenever it holds of the set without some member holds of all of them
(`InductSets`). A fold is a chain of values, one per index
(`FoldExists`, `FoldChain`): the recursive function that defines it exists, and two
that take the same steps are equal. A sum over a set takes off the elements in the order `CHOOSE` gives;
`SumAny` shows that any other gives the same number, `SumSame` that it depends on the
weights only, and `SumFewer` and `SumWithout` compare the sums of a set and its subsets.

The assumptions are those of the modules that declare the constants:
`StoreAssumption`, `DockerAssumption` (among others, finitely many devices),
`KubernetesAssumption`, `LeaseTiming`, `SubmissionConstants`, `LockAssumption`
(finitely many runs), `AgentConstants` (one GPU starts with at most one container
of an unknown attempt), `ArtifactConstants`,
`ThreadsAssumption` (at least one worker: the constructor of `Executor` refuses
none, `executor.cpp:6`), those of the telemetry modules and `FunctionsAssumption`
(sizes and limits are naturals, the limits on runs and bytes are not 0). TLC evaluates them in the runs.

Only model-checked is what is out of the prover's reach: liveness under fairness
(`OverdueIsEnded`, `EveryRunEnds`, `EndedIsGone`, `LostJobNoticed` and the progress
properties of the components), and the five statements of the documentation that the
code does not meet. Every invariant and every safety property of a step that a
passing run checks is stated by a theorem.

## 5. Not modelled

Left out for good, because nothing in them decides about a run:

* the tables, forms and charts of CLI and UI, except the readers that follow
  a cursor; the capacity views and statistics, which are queries nobody acts on;
* NVML discovery, logging, hashing, UUIDs, Prometheus metrics: I/O and
  translation. Discovery is an input of `ReportGpuInventory`, a checksum the
  comparison of two contents;
* migrations, which run under one lock before the server serves;
* the transport of HTTP, gRPC and the Docker and Kubernetes APIs: a call is
  answered, refused, lost before or lost after its effect.

The composition of `DockerAgents` with `DockerStore`, and of `RunnerLease` with
`AttemptStore`, is by the answers of the store only; the products are too large
for TLC.
