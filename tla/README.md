# Verification of safety-critical-high-availability

TLA+ models of the shared-memory data plane, the failover control plane, the
health rules, the event log and the observability daemon of this repository, TLC runs
that check them on small instances, and TLAPS proofs about every one of them for instances
of any size. Paths below are relative to the repository root;
`PROJECT.json` maps every definition to the lines it models.

## The system

A supervisor process creates a shared-memory region and forks workers and a
monitor. Two hot workers (physical 0 and 1) produce records, one *logical ring*
each; physical 2 is the warm standby. The supervisor is the only consumer of the
rings. A separate daemon exports metrics and health.

| Component | State | Operations | Talks to |
|---|---|---|---|
| Ring buffer (`shared-memory/.../ring_buffer.hpp`) | `head_`, `tail_`, per-slot `sequence`, payload, CRC, `corruption_count_` | `try_push`, `try_push_with_bad_crc`, `try_pop`, `verify_consistent`, `derive_state` | producers and consumers, lock-free |
| Region ownership (`shared_region.cpp`) | per ring: `epoch` (odd while a transfer is under way), `owner_word` (physical, generation) | `read_ownership`, `ownership_valid`, `transfer_ownership` with the rollback of an abandoned claim | workers (fencing), supervisor, monitor |
| Integrity word (`shared_region.cpp`) | `global_seq`, `integrity_word` | `push`, `refresh_region_integrity` | all writers |
| Attachment (`shm_attach.cpp`) | the shm object | `create_or_open`, `detach`, `destroy` | every process |
| Workers (`workers/`) | pidfile, status word, ownership token | `run_worker`, `run_hot`, `run_standby`, `run_work_loop` | region, monitor (pidfile, status) |
| Monitor (`monitors/`) | one `WorkerTrack` per slot | `poll_worker`, `observe_worker` | reads region and pidfiles; JSON lines on a pipe to the supervisor |
| Supervisor (`supervisor.cpp`) | children, generations, degraded slots, handoff window, stall tracker, drain witnesses | the loop of `run_supervisor` | signals, `waitpid`, region, pipe |
| Event log (`event_log.cpp`) | a file of numbered records; per writer `next_seq_`; per reader position and continuity state | `open` with recovery scan, `append`, `read_next` | supervisor, workers and harness write, the daemon tails |
| Daemon (`daemon.cpp`, `event_metrics.cpp`) | mapping of the region, two readers of the log, counters | attach, probe, loss scan, collection, once per poll cycle | region (read), log, HTTP server |
| HTTP server (`http_server.cpp`) | fixed table of connections, each with a buffer and two timers; stop flag | poll, time out, accept, read, serve, close | clients; calls the daemon's cycle as its tick hook |
| Perturbation harness (`perturb/`) | replay log | signals to processes, recording, replay | processes, replay log, event log |

What is hard here: lock-free slots reused across laps; ownership read and changed
without locks; a handoff while either side may be inside a push; crashes between
any two accesses; a supervisor that acts on alerts which are late, batched, latched
by their sender, or about a process that has since been replaced; timers that
outlive what they were started for; several processes creating one object; a log whose
writers die, whose disk fails and whose readers start over; a single-threaded server
with descriptors that change hands between poll and read. `PROJECT.json` lists these as hazards with the
properties that cover them.

What makes each part correct:

* ring: every position is delivered once, as pushed, in order, or counted as
  corrupt; refusals are justified; the verifier is exact;
* ownership: no torn token, one producer per ring, a fenced worker stops, nothing
  committed is lost by a handoff;
* integrity word: consistent at quiescence;
* supervisor: one hot worker per ring, a lost ring is recovered or announced, a
  DEGRADED ring stays so, healthy workers are spared, stopped ones are not left;
* monitor: alerts are genuine, and a stop is reported;
* attachment: one initialized object for everyone, never wiped; the daemon lets go of
  a vanished region and finds the next one;
* event log: numbers that survive restarts, gaps that are real;
* daemon: the data-loss counter is exact, and losses surface;
* harness: what is recorded and counted was done, a replay does it again in order;
* HTTP server: no leaked slot, own answers in order, well-behaved clients are spared,
  no client stays for ever, a stop ends cleanly.

## Modules

`RingBuffer` — one action per shared-memory access of `try_push` and `try_pop`
(load of the position, check of the slot's marker, compare-exchange, payload and
CRC, release store), for any set of producers and consumers. The marker check and
its three-way branch are one action because the branch reads nothing else.
`compare_exchange_weak` may fail spuriously (`PushClaimFails`, `PopClaimFails` have
no guard on the word). A payload is an item; `BadCrc` are the items pushed by
`try_push_with_bad_crc`. `log` is a history variable: what was claimed at each
position. Positions are naturals: 64-bit counters would wrap after 2^64 pushes,
and `SlotCount` divides 2^64. `verify_consistent` and `derive_state` are operators.
The acquire/release pairs of the code order the payload with the marker, so
the accesses are taken as sequentially consistent; the relaxed accesses to
`head_` and `tail_` are single-word and only decide claims by compare-exchange.

`BoundedQueue` — the abstract FIFO the ring implements.

`RingBufferProofs`, `RingHandoffProofs`, `RegionIntegrityProofs`, `RegionAttachProofs`,
`HttpServerProofs`, `MonitorHealthProofs`, `SupervisorProofs` and `ObservabilityProofs` — the
theorems about the module each is named after, the last with the modules it extends.

`RingHandoff` — extends `RingBuffer` with the ownership cell, the workers around
their pushes (`read_ownership` one load per step, `ownership_valid`, ring push,
crash anywhere) and the supervisor's drain, reap and `transfer_ownership` one access
at a time. `Callers` are the callers considered, one per behaviour (`caller`): the
supervisor (after `verify_worker_ring`), one that does not verify ("direct", as the
tests of `transfer_ownership` do), or one that takes the ring from a running worker
("takeover").

`RegionIntegrity` — `push`'s `fetch_add` and the refresh loop. `in_order` says
whether the two relaxed loads of an iteration keep program order in this behaviour;
the language does not require it, so `Orders` has both.

`Supervisor` — `run_supervisor` against three worker slots and a monitor reduced to
the two alerts the supervisor acts on. Rings are counters here (their inside is
`RingBuffer` and `RingHandoff`), so `transfer_ownership` is one step and a drain
takes everything committed; a worker may die inside a push and leave its claim
(`abandoned`). A drain cannot fail in this model, as the rings have no gaps. The
loop is split where another process can act in between; `Account` is one step,
because between reap and tracker it shares with the others only the drain and the
status words. A stop request is looked at only by the loop condition (`LoopEnds`).
`monitor.stalled[p]` is what the monitor saw when it last reported `p`: it does not
repeat an alert while that is unchanged. A behaviour contains the faults one of
`Scenarios` allows: `claims`, `crashes`, `stops` and `alerts` (per worker) bound their numbers,
`crashing` and `stopping` are the workers that may crash and stop, in any role, `midpush`,
`finishes`, `forkfails` and `eof` switch claims left by a crash, clean exits, failed
forks and the monitor's death on; `spurious` lets alerts concern a worker
that runs (a tick longer than the threshold), `prompt` says that an iteration of the
loop is shorter than the monitor's stall threshold (10 ms against 100 ms). The
scenarios of the runs are in `MCSupervisor`. The region is fresh at `Init`.

`MonitorHealth` — one slot as the monitor sees it: the five reads of a poll are
separate steps; processes of the slot write and remove the pidfile, store status,
commit, stop, crash, are reaped and replaced, and the ring moves, in between. `Roles`
says whether the slot may be a hot one or the standby.
Time is in ticks, one poll interval or two per poll (a late wake-up); ages saturate
above the largest bound. A zombie still answers `kill(pid, 0)`. Pid reuse is
excluded. No abandoned claim is rolled back here: the supervisor refuses such a ring
before the transfer.

`RegionAttach` — `create_or_open` by the supervisor, a worker, the daemon and the
ownership command, one system call per step; `initialize` is two steps, split where
`verify_identity` begins to succeed. A name links to an object, and objects outlive
their name as long as they are mapped. The daemon's `attach_now` is `Exists` followed
by the same calls; `probe_region` is `ProbeLost`. Opening for a second time within
one process, and the exact order of the stores of `initialize`, are not told apart. A worker
is started by an attached supervisor (`Fork`) and outlives it, as nothing ties their lives together;
there is one worker process at a time, so a new supervisor meets the worker of the last one, but
does not start a second next to it.
At the start the name is free, or belongs to an object of another size, or to one of
the right size without identity. `creators`, `wiped`, `removed` and `cut` (somebody died inside
`initialize` of the object) are history.

`EventLog` — the file as a sequence of fragments, one per `write`. A complete one ends
a line; a short write leaves a fragment without newline, and the line goes on with
whatever any process writes next. `Cuts` are the places in a record's fixed field order
(level, component, seq, event, fields) that `parse_event_record` and the consumers'
searches tell apart. Each search takes the first match in the line, so a glued line may have
its component, number and event from different records: `Decisive`, `Counting` and `Naming` are the
fragments they are found in. The cut "level" stands for every key before the component whose
value is missing and makes the line bad, "head" also for a cut between two of those fields. `open`'s scan is atomic here, the append after it is not. Records of workers
(a component of their own) are left out. The amount of a loss record is taken as one; a
drain that fails for another reason than a gap logs 0 and moves no counter.

`Perturb` extends `EventLog` — invocations of the harness and one replay. The seven
categories have four shapes, which are the values of `Categories`. A dead target accepts
signals until it is reaped. `refused` is exit code 2. `Milli` is the number of clock ticks in a
millisecond: a replay cuts its sleeps to whole ones. A replay-log entry is written whole or not at
all: `RecordAction` with `lost` is a flush that fails unnoticed, `RecordFails` the short `fwrite` that makes
the action fail; the part of a line that such a failure may leave in the file, which the parser
refuses or which spoils the header after it, is not modelled.

`Observability` extends `Perturb` — the composition: a supervisor that logs, fails safe,
ends and starts again; invocations; and the daemon's poll cycle, one `read_next` per
step. `hurt` collects the kinds of faults that have happened, so that a property can
say which of them it survives.

`HttpServer` — `HttpServer::run`, one step per call that can see something new. Bytes
are pieces: `x` is part of a head, `keep`, `close` and `bad` end one; a read takes what
has arrived and fits. Descriptors are handed out lowest first, so one that a timeout has
freed returns with the next accept while the loop still works on its old poll
result. `late` says that the timer that counts has run out. `tame` clients are those that
give the server no reason to close them.

The `MC...` modules add the symmetry sets, the scenarios and a constraint; each `.cfg` gives the
constants.
Operators introduced by "Variant:" are deliberately wrong versions of the
definition that follows them, used to confirm that the properties can fail.

## Runs

| Run | Shows |
|---|---|
| `ring` | all safety of the ring, the inductive invariant, and that it implements `BoundedQueue`; 2 producers, 2 consumers, 2 slots, 4 positions (two laps), good and corrupted items |
| `ring_live` | every claim is consumed, every push returns |
| `handoff` | one producer, genuine tokens, no loss through handoffs with crashes at any access; a running worker that loses its ring gets at most one more record in |
| `integrity` | convergence and repair of the integrity word; never ahead of the data in either load order |
| `supervisor` | three crashes; two inside a push with failed forks and a dead monitor; a crash with clean exits; a stop, a crash and a late or spurious alert about the stopped worker: one producer per ring, DEGRADED terminal and announced once, no ring silently down, the promoted worker spared, the exit code and the post-failover count right |
| `supervisor_live` | failover and the SIGCONT/SIGKILL ladder come to an end: a crash, also inside a push; a stop of a hot worker; a crash of A with a stop of B or of the standby before, in or after the handoff window |
| `monitor` | hot and standby slots: alerts are genuine, stops are reported |
| `attach` | four processes and one fault anywhere: no region with records is initialized again unless two processes found it empty, no handle without identity, workers see all of `initialize`, supervisor and worker on one object; the daemon drops a vanished region and attaches to one that stays, the very object of the name if the name never came off |
| `observability` | a failing disk under a restarting supervisor, with and without an invocation in between; read errors and a restart of the daemon; two invocations; a replay: sequence, gaps, loss counter, perturbation counter, replay log, exit codes, replay order, and that nothing is replayed a millisecond early; the perturbation and loss counters are bounded per pass over the log |
| `http` | three clients on two slots; one that sends anything, hangs up and meets failing calls; two that pipeline; a stop: no leaks, answers match, tame clients spared, slots come back, the loop ends |

Some of the properties a run lists are conjunctions of named parts, each stated and
commented on its own in its module:

| Property | Parts |
|---|---|
| `RingSafe` | `WindowBounded`, `ExclusiveSlots`, `DeliveredAsPushed`, `NothingLost` |
| `Progress` | `EveryClaimConsumed`, `EveryPushReturns` |
| `HandoffInv` | `HTypeOK`, `SingleProducer` |
| `WordConsistent` | `ITypeOK`, `WordNeverAhead`, `ConsistentAtQuiescence` |
| `RingsOwned` | `STypeOK`, `OneHotPerRing`, `LiveTokensValid`, `StandbyOneRing` |
| `DegradedKept` | `DegradedTerminal`, `AnnounceOnce`, `DegradedExit` |
| `CrashAlertsSound` | `MTypeOK`, `CrashGenuine` |
| `HandlesOK`, `DaemonFollows` | `ATypeOK`, `HandlesVerified`; `VanishNoticed`, `DaemonAttaches` |
| `HarnessHonest`, `ReplayOK` | `RecordedWasSent`, `ExitCodeTells`; `ReplayFaithful`, `ReplayNeverEarly` |
| `LogNumbered`, `CountersHonest` | `SequenceKept`, `GapsExplained`; `OTypeOK`, `LossNeverInvented`, `AppliedWasSent` |
| `TableOK`, `BuffersServed` | `HttpTypeOK`, `NoLeak`; `RoomToRead`, `NoneWaiting` |

Bounds. Two slots are the smallest ring the code accepts, and four positions let every
slot be reused; two threads per side give every race for a claim. In `handoff` two
workers and three positions reach a handoff with an abandoned claim and the new
owner's pushes; one item is good and one poisoned, so a swapped pair shows; where the
caller may fence a running owner, a constraint (`PayloadsMatter`) keeps to one item, as fencing does not look at payloads. Three crashes exhaust the standby and crash a restarted slot again.
One stop with one crash and an alert put an alert before, in and after a
handoff window; two alerts about a worker are as many as the ladder needs. The liveness scenarios with
both a stop and a crash have no claims (`claims` = 0), as a stop inside a push adds nothing to the ladder. One claim per ring
(`claims`) tells an owner that produced from one that did not; the scenario with two
has records on both sides of a handoff. In `monitor` two commits (`MaxTail`) give one before
and one after a re-baseline. The monitor's thresholds of 1 and 2 ticks leave a
poll of one tick, and not of two, between the two bounds; two processes per slot give a crash and its
replacement. In `attach` two objects give a removed region and its successor, and one fault is
enough for each exception its properties name. A millisecond of two ticks (`Milli`) has entries
less than one apart. In `observability` two write faults
tear two records or tear one and lose another; two losses after a restart give a number to reuse; three
opens (`MaxOpens`) follow two read errors. In `http` two slots and three clients fill the
table and reuse a descriptor, heads of two pieces (`HeadCap`) can be exactly full. The
scenarios and why each is there are in the `MC` modules. `CHECK_DEADLOCK` is off where
the system may end: failsafe in the handoff runs, a harness without a daemon in
`observability`, a closed server in `http`.

Fairness. The operating system schedules every process that is not stopped, so the
supervisor's loop, the monitor's polls, started workers and timers are weakly fair;
`integrity` and `ring_live` need strong fairness of a compare-exchange, as lock-freedom
promises progress of someone and not of everyone. The daemon polls as long as it runs (its cycle is called from the
server's loop, which wakes up every `kPollTickMs`; that it first waits for the region at startup,
`daemon.cpp:161-166`, is not part of this, so `LossSurfaces` speaks of a daemon that is past it), a begun `create_or_open` returns,
the server's thread runs and time passes, so a timer that is not reset runs out. Faults,
pushes, stops, transfers and clients are never fair.

### Disagreements with the documentation

Two runs end in a violation of what a comment says; see `findings` for the quotes.

| Run | What happens |
|---|---|
| `handoff_race` | `transfer_ownership` publishes the epoch, the new owner claims, and the rollback takes that claim back |
| `supervisor_orphan` | the ring goes to generation 1 of the standby although the standby was restarted with another: nobody serves it, nobody announces it |

Five more statements of the documentation are properties that TLC refutes. Each has a configuration
that produces the counterexample (`tlc -config <cfg> <module>`), next to a property of the runs above that says
how far the code goes.

| Property | Configuration, module | What happens | What is said |
|---|---|---|---|
| `FencedForever` | `MCFencing.cfg`, `RingHandoff` | `run_hot` checks `ownership_valid` (`worker_entry.cpp:78`) and pushes afterwards (`:91`): a live owner that loses the ring in between publishes one record into the new owner's ring. The production supervisor moves the rings of dead workers only; another caller of `transfer_ownership` is exposed. `FencedAfterOne`: never a second one | docs/manual/10-supervisor-failover.md:21-26: "its publish path refuses, forever, even if the process is alive", "it can never touch the ring after handoff"; docs/manual/C-glossary.md:81 |
| `StallsStillRecover` | `MCSupStalled.cfg`, `MCSupervisor` | B's stall alert falls into the handoff window of A's failover: it is dropped (`supervisor.cpp:700`), the monitor has latched it, and B is still stopped after the window has closed. `StalledHandled`: all other stops of a hot worker end | docs/decisions/0013-handoff-visibility-and-stall-bounding.md:59-60: "genuine post-failover stalls still recover" |
| `NoStaleView` | `MCStaleView.cfg`, `RegionAttach` | the region is removed and created again between two polls: `probe_region` (`daemon.cpp:285`) asks whether the name exists and the old mapping verifies, and keeps the removed object for ever. `DaemonFollows`: a region that stays gone is dropped, one that stays is found | docs/manual/12-observability.md:65-66: "a stale view can never leak into a handler"; daemon.hpp:21, daemon.cpp:282 |
| `CountedOnce` | `MCCountedOnce.cfg`, `MCObservability` | a failed poll closes both readers (`daemon.cpp:272-276`); reopened, they start at the beginning of the log, and every loss and perturbation is added again. `CountersHonest`: never more than once per pass | event_metrics.hpp:69-70: "the reader's watermark and continuity state provide resume"; daemon.cpp:276 |
| `ReplayAtOffsets` | `MCReplayOffsets.cfg`, `MCObservability` | the sleep before each entry is its whole offset from the first (`harness.cpp:196-198`), so the delays add up and the third action is late. `ReplayNeverEarly`: none is a millisecond early | harness.hpp:114-115: "re-issue the parsed log at relative time offsets (ts - first action ts)"; replay_log.hpp:13 |

The following were met while modelling and are in the models' behaviours, without a property of
their own.

Supervisor:
* A worker that dies between claim and commit leads to failsafe, not to a handoff:
  `verify_worker_ring` (`supervisor.cpp:187`) refuses the ring before
  `transfer_ownership` could roll the claim back. docs/manual/06-ring-buffer.md:96: "a
  crashed mid-write is handled by the *same* ownership protocol".
* A stall recovery outlives its worker: `observe` (`supervisor.cpp:377`) does not compare
  epochs and a reap does not clear the tracker, so the replacement may be killed.
  docs/decisions/0012-phase5-perturbation-engine.md:33-37: "idempotent per epoch".
* A standby that is stopped while it waits is not reported (`health.hpp:184` looks at RUNNING
  workers only), not continued, and still promoted: the ring goes to a stopped process, which
  `RingsRecover` names as its exception.

Attachment:
* The daemon and the ownership command call `create_or_open` too (`daemon.cpp:226`), so
  they may create, and initialize, the region. daemon.hpp:5: "never initializes, never
  writes". Two processes that find the object empty both initialize it
  (`shm_attach.cpp:115`), also over records; shm_attach.cpp:151-152 says that no one else
  has observed the pages.
* `verify_identity` refuses an odd epoch (`shared_region.cpp:106`) although shared_region.hpp:147 calls it
  "safe to call at any time": an attach during a transfer fails, and after a supervisor
  death inside one every attach does, as it does after a creator's death before
  `initialize`.
* A failed verification at startup is retried for ever, where daemon.hpp:14 speaks of a
  startup error.

Event log and daemon:
* A read error of the loss reader closes it alone, and `open_event_log` returns early as
  long as the other reader is open (`daemon.cpp:240`), so losses are no longer seen;
  daemon.cpp:323: "resume by reopening next cycle".
* A failed append does not consume its number (`event_log.cpp:324`), so it leaves no gap;
  witness_events.hpp:66: "the reader's gap detection surfaces persistence" loss. After a failed fsync the
  number is used twice; event_log.hpp:27: "never reset or duplicate the sequence". A
  short write stays in the file and is glued to the next record, which may make every
  later `open` fail; event_log.hpp:38: "never partially committed".

Harness:
* harness.hpp:29 says recover-stall is never replayed; harness.cpp:217 replays it.
* An action whose entry cannot be written has been carried out and exits with 1
  (`harness.cpp:106-108`).
* A double fault whose second signal fails has killed the first target and records
  nothing. A failed flush (`harness.cpp:109`) is not noticed.

HTTP server:
* The sockets are non-blocking, so SO_SNDTIMEO (`http_server.cpp:330`) has no effect and
  a full send buffer cuts the response. Timeouts are applied before reading, so a request that has
  arrived in time may still be timed out.

### Where a property stops

Some properties hold under a condition, and the models reach what the condition
excludes:

* `ConsistentAtQuiescence` and `WordAdvances` need the two relaxed loads of
  `refresh_region_integrity` (`shared_region.cpp:256-259`) to keep their order. If a
  process reads the sequence first, and the word only after another's store, its
  compare-exchange puts back the checksum of the older sequence, and a quiescent region
  stays inconsistent until the next refresh. The comment above the loop argues from
  program order, which relaxed loads of different objects do not promise.
* `FirstPostGenuine` excludes runs in which the standby crashed first: the record
  snapshot (`supervisor.cpp:576`) is taken for the first crash only, so records of the
  old owner between the two crashes count as post-failover ones.
* `DegradedExit` excludes an iteration that escalated a stall: the escalation
  (`supervisor.cpp:658`) sets kFailoverDetected over kDegraded, and a loop that ends
  before line 533 restores it exits with 0.
* `CrashGenuine` excludes a worker that writes its pidfile and stores RUNNING between a
  poll's look at the pidfile and its read of the status word (`monitor_loop.hpp:70`):
  that poll sees a dead process and RUNNING, and reports a crash.
* `StallGenuine` grants the handoff grace to a live process only. A replacement that has
  written its pidfile and not yet its status is judged by the RUNNING of the process that
  crashed and by the home ring, whose new owner moves the tail and so ends the grace
  (`health.hpp:224`): it may be called stalled after
  the threshold.
* `NeverWiped`, `HandlesVerified` and `OneRegion` exclude double creation, and with it the
  rollback of a second creator, `HandlesVerified` also a supervisor that died inside
  `initialize`, and the last two a name removed from outside.
* `DaemonAttaches` excludes an epoch that stays odd, which nothing repairs, and asks for the object
  of the name only if the name never came off (`NoStaleView`).
* `FencedAfterOne` allows one late record (`FencedForever`).
* `StalledHandled` excludes a stop whose alert meets a handoff window (`StallsStillRecover`), a
  DEGRADED system, where the ladder is off, and a worker that is stopped before it is hot.
* `ReplayNeverEarly` allows less than a millisecond, since the sleep is cut to whole ones
  (`harness.cpp:196`): two actions 0.9 ms apart are replayed without a pause.
* `SequenceKept`, `GapsExplained`, `LossExact` and `LossSurfaces` name the faults they do
  not survive: a failed fsync, a torn record that swallows the next, overlapping
  invocations, a lost write, a read error. Each exception is needed.
* `LossNeverInvented` and `AppliedWasSent` bound the counters per pass over the log: after a
  reopen everything is added again (`CountedOnce`).
* `DeliveredPrefix` covers any number of handoffs by the supervisor, and one by a caller that
  does not verify the ring first: its rollback may take back a live claim
  (`handoff_race`), and a second transfer builds on the ring that leaves.
* `PromotedSpared` covers the first failover: a second crash opens the handoff window again
  without disarming a tracker that was armed after the first window closed
  (`supervisor.cpp:700` only guards the arming), so the promoted worker may then be
  escalated while a window is open.

## Proofs

The theorems hold for every value of the constants allowed by the named assumptions of
the modules, which are what the code itself requires. Every safety theorem comes from an
inductive invariant that lives in the component's module (where TLC can evaluate it; each
was checked with TLC before it was proved), an `...Init` and a step lemma with one case
per action, and one theorem per property.

| Module | For every | Invariant | Properties proved |
|---|---|---|---|
| `RingBufferProofs` | slot count from 2, disjoint sets of producers and consumers, items | `IInv`, `CountInv` | `TypeOK`, `RingSafe` and its parts, `VerifyExact`, `RefusalsAreSound`, `CorruptionCounted`, the refinement `ImplementsQueue` |
| `RingHandoffProofs` | slot count from 2, set of workers, set of callers, number of transfers | `HInd`, `PrefixInd` | `HandoffInv`, `TokensGenuine`, `FencedAfterOne`, `DeliveredPrefix` |
| `RegionIntegrityProofs` | set of processes, number of pushes | `IntegrityInv` | `WordConsistent`, `WordAdvances` |
| `RegionAttachProofs` | number of objects and faults | `AInd` | `HandlesOK`, `NeverWiped`, `OneRegion` |
| `HttpServerProofs` | clients, slots, descriptors, head size, faults | `HttpInd` | `TableOK`, `BuffersServed`, `ResponsesMatch`, `TameSpared` |
| `MonitorHealthProofs` | threshold and grace, number of processes, commits and stops, roles | `MInd` | `CrashAlertsSound`, `StallGenuine` |
| `SupervisorProofs` | set of scenarios: any number of claims, crashes, stops, alerts and children | `SInd` | `RingsOwned`, `DegradedKept`, `NeverSilentlyDown`, `FirstPostGenuine`, `PromotedSpared` |
| `ObservabilityProofs` | set of invocations, of targets and of recorded logs, number of records, faults of each kind, restarts and opens | `OInd` | `HarnessHonest`, `ReplayOK`, `LogNumbered`, `LossExact`, `CountersHonest` |

Ring. None of the properties is inductive alone: that a claim is exclusive depends on what
the slot's marker allows, and that depends on who still holds the slot a lap earlier.
`IInv` therefore describes every slot of the window `head .. head + SlotCount - 1`:
below the tail a position is committed or held by the one producer that claimed it;
from the tail on a slot is ready, or still held by the consumer of the lap before
(`FreeSlots`). `WritersHold`, `ReadersHold` and `ClaimsUnique` say what a thread inside
a slot holds; `PushViews` and `PopViews` what a thread that passed the marker
check may still believe once its compare-exchange succeeds. The arithmetic is in lemmas about
`Slot` (same slot means a whole number of laps apart, so distinct positions of one
window have distinct slots).

Queue. The refinement maps the queue to `SubSeq(log, head + 1, tail)`: a push takes effect
at its claim, a pop at its own, and all other steps stutter. `VerifyExact` needs the other
direction of the slot arithmetic, since `derive_state` finds head and tail from markers
alone. `CorruptionCounted` counts positions, so `CountInv` relates the counter to the set of
corrupted positions below the head minus those whose consumer has yet to count.

Handoff. A rollback breaks the window that `IInv` is about, so `HInd` stands on its own.
`CellStable` ties the parity of the epoch to the transfer's program counter;
`ReadsBracketed` says that a pair read under one even epoch is the pair of that epoch,
which is why a token is never torn; `TokensBounded`, that a token is of the past or of
the cell as it is; `LateFenced`, that after one late record a worker holds an old
token outside `push`, which is why there is no second.

Delivery. `PrefixInd` is about a ring with one producer at a time. `RingDense` lets the number
of committed records, and not `tail_`, say where the ring ends: below it every record is in
place, above it every slot is ready, and `tail_` is there, one beyond with a claim in
flight, or one short. One short is what a rollback that raced a commit leaves: the slot at
`tail_` then never looks ready, so the worker pushes no more, and `verify_consistent` refuses
the ring when that worker dies (`VerifiedTail`), so no transfer builds on it. A caller that
does not verify may instead leave a dead owner's claim in the middle of the ring (`HoleAt`): the
drain stops there for good, and what it has got is still a prefix.

Integrity word. `CopiesOrdered` is what the loads' program order gives: a copy of
the word is no younger than the word and no older than the sequence loaded after it
demands. `SomebodyResponsible` is why the word ends right: an outdated word has a process
that has yet to load the sequence, or has loaded the last one.

Attachment. `StepsOrdered` is what each system call may rely on after the ones before it,
`WorkerAfterSupervisor` that where there is a worker a supervisor has been attached, also if it has died
since, `ObjectsGrow` how an object gets its size, identity and records, `FirstInitializes` that
a sole creator initializes what nobody initialized before, and `NameKept` that without
removals the name stays with the one object that is created. `ObjectsGrow` is not inductive
unless the history variable `cut` is set by every death inside `initialize`, whoever dies.

HTTP server. `TableSound` is the table; the rest is about bytes. What the server has left
of a client is the buffer of its slot followed by what is in the socket, and `Streams` says
of that concatenation that it starts with the first unanswered request and counts up at
every end of a head, that it is the client's own, and that it fits if the client is tame.
Receiving moves the border between the two parts, and serving removes a prefix; so the
invariant survives reuse of slots and descriptors by other clients.

Supervisor. `Cells` gives the only two values an ownership cell can have, `Slots` relates
children, generations, pids and what was handled, and `HotWorkers` says that whoever is
hot is one of the first three on the ring whose cell names it: a restarted child never
becomes hot. `Announced` links the announcements to flags and dead owners, `ExitState`
state and exit code, `Counts` the snapshots and record counts around a handover, and
`Shielded` the tracker of the promoted worker with the handoff window.

Monitor. `Lifecycle` and `SlotWords` say whose pid and whose status word the slot shows
when, `RingsMoved` that a RUNNING that was read belongs to the ring that is then
looked up. `Reports` counts: the reports are at most the races plus the number of one gone
process, and whenever a poll may still report, there is a gone process that has not paid
for a report. `Windows` compares the age of the stall window with the ticks since the last
commit: the window is older only if the tail on record is behind the ring's, so the
next read of the tail starts it again; and the grace is on as long as nothing was committed.
`StallGenuine` was first stated with the grace for a replacement too; with a grace of
three ticks (`HandoffGrace = 3`) TLC refutes that, as said above.

Log, harness and daemon. `OInd` has a part per module. Of the log, `NumbersBounded` keeps
numbers within the length of the file, so that the recovery scan takes the maximum of a
bounded set, and `Ranked` says that, as long as nothing broke the numbering, a complete record
has its rank among those of its component as number and the one open writer goes on from there.
The scan then finds the last of them because every complete record ends a line, and a line
that parses without swallowing cuts is its last fragment (`LineParses`). Of the harness,
`Signalled` and `Recorded` say what an invocation has delivered and recorded at each of
its steps; of the replay, `Planned(n)` is the set of signals of the first n entries, and a signal's
`Place` is what is planned before its entry plus one or two, so that the order of a whole
log is counted and not built: `ReplaySent` has the number delivered at each step, and the next
signal is the one whose place is that number plus one. Of the daemon, `CountedLoss` and
`CountedApplied` compare a counter with the number of fragments its reader has passed: a line
is counted only if its fields are in it, so a pass counts no fragment twice however lines
are glued, and each earlier pass has counted at most what was emitted. `Exact` is the equality
without cuts, and `Expecting` ties the number a reader expects to the rank.

Only model-checked:

* liveness (`Progress`, `RingsRecover` and the other leads-to properties), as fairness and
  ENABLED are beyond the provers.

## Not modelled

CRC arithmetic, the sensor workload, scheduling calls and the argument parsing of the
command line have no control worth a model. Of the daemon, the sampling of region
metrics, the metric registry's text format, the JSON of `/health` and `/status` and the
`--once` mode are rendering of state that is read once; of the HTTP server, the text of
requests, routing and the opening of the listener, which happens before anything
concurrent. Worker lifecycle records in the event log are left out, as no component decides
on them; so is the SIGUSR2 flag, since any push of `RingBuffer` may be a poisoned one.

## Plan

A composition of `MonitorHealth` and the supervisor's stall ladder.
