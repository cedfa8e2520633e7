---------------------------- MODULE MonitorHealth ---------------------------
(***************************************************************************)
(* The monitor's health rules (health.hpp) for one worker slot: poll_worker *)
(* reads the slot's pidfile, its status word, the ring it owns, that ring's *)
(* tail and its epoch, one after the other, while processes of the slot     *)
(* start, commit, stop, crash, are reaped and replaced and the supervisor   *)
(* moves rings; observe_worker then turns the observation into at most one  *)
(* alert.                                                                   *)
(*                                                                          *)
(* Time is counted in ticks.  A poll takes less than a tick; `age` counts   *)
(* the ticks since the track's last_advance, up to one more than any bound. *)
(***************************************************************************)
EXTENDS Naturals, FiniteSets

CONSTANTS
  StallThreshold, HandoffGrace,   \* MonitorConfig, in ticks
  Roles,       \* what the slot may be: "hot" or "standby"
  MaxProcs,    \* bound: processes the slot ever has
  MaxTail,     \* bound: commits per ring
  MaxStop      \* bound: SIGSTOPs

ASSUME ConfigAssumption ==
  /\ StallThreshold \in Nat \ {0} /\ HandoffGrace \in Nat /\ HandoffGrace >= StallThreshold
  /\ Roles \subseteq {"hot", "standby"}
  /\ {MaxProcs, MaxTail, MaxStop} \subseteq Nat /\ MaxProcs > 0

Home == 0           \* the slot's home ring; the other one is the ring it may
Rings == {0, 1}     \* be promoted to
Procs == 1 .. MaxProcs
NoPid == 0
Old == HandoffGrace + 1

VARIABLES
  role,      \* the one of Roles this behaviour has
  stage,     \* each process: none, new, pid (pidfile written), running, standby, quit,
             \* crashed or exited (not reaped yet), gone
  stopped,   \* the running process has been stopped by SIGSTOP
  pidfile,   \* pid in the slot's pidfile
  status,    \* the slot's status word, as a set of flags
  mine,      \* which rings the slot owns
  epoch, tail,
  mpc,       \* where the monitor is in its poll
  obs,       \* WorkerObservation, as far as it has been read
  track,     \* WorkerTrack
  alert,     \* the alert of the last observe_worker
  hist       \* history: crashes, crash alerts, stops; how often RUNNING was stored
             \* between a poll's reads of the liveness and of the status; ticks since the slot's last
             \* commit or RUNNING store (fresh: the latter, and nobody has crashed),
             \* now and at the last read of the tail

procs == <<role, stage, stopped, pidfile, status>>
rings == <<mine, epoch, tail>>
mon == <<mpc, obs, track, alert>>
mvars == <<procs, rings, mon, hist>>

NoAlert == "none"
NoObs == [alive |-> FALSE, status |-> {}, ring |-> 0, tail |-> 0, epoch |-> 0]
NoRead == [since |-> 0, fresh |-> TRUE]
HotStart == role = "hot"

Init ==
  /\ role \in Roles
  /\ stage = [k \in Procs |-> IF k > 1 THEN "none" ELSE "new"]
  /\ stopped = FALSE
  /\ pidfile = NoPid
  /\ status = {}
  /\ mine = {Home}
  /\ epoch = [r \in Rings |-> 2]
  /\ tail = [r \in Rings |-> 0]
  /\ mpc = "sleep"
  /\ obs = NoObs
  /\ track = [state |-> "unknown", tail |-> 0, epoch |-> 0, age |-> 0,
              running_announced |-> FALSE, idle_announced |-> FALSE,
              stalled_alerted |-> FALSE, crash_alerted |-> FALSE,
              overrun_reported |-> FALSE, awaiting |-> FALSE]
  /\ alert = NoAlert
  /\ hist = [crashes |-> 0, reported |-> 0, raced |-> 0, since |-> 0, fresh |-> TRUE,
             stops |-> 0, read |-> NoRead]

-----------------------------------------------------------------------------
(* The slot's processes and the supervisor.                                  *)

Current == {k \in Procs : stage[k] \in {"new", "pid", "running", "standby", "quit"}}
Moves(k, from, to) == stage[k] = from /\ stage' = [stage EXCEPT ![k] = to]

(* write_worker_pidfile: temporary file and rename, so one step.             *)
WritePidfile(k) ==
  /\ Moves(k, "new", "pid")
  /\ pidfile' = k
  /\ UNCHANGED <<role, stopped, status, rings, mon, hist>>

NowRunning == [hist EXCEPT !.since = 0, !.fresh = TRUE,
                           !.raced = IF mpc = "status" /\ ~obs.alive THEN @ + 1 ELSE @]

(* The status store of run_hot (first process of a hot slot) or run_standby. *)
StoreStatus(k) ==
  LET hot == HotStart /\ k = 1 IN
  /\ Moves(k, "pid", IF hot THEN "running" ELSE "standby")
  /\ status' = IF hot THEN {"RUNNING"} ELSE {"IDLE"}
  /\ hist' = IF hot THEN NowRunning ELSE hist
  /\ UNCHANGED <<role, stopped, pidfile, rings, mon>>

(* transfer_ownership: the epoch is odd while the owner changes.  A standby   *)
(* is given the other ring; a hot slot whose process was reaped loses its own. *)
Moving == IF HotStart THEN Home ELSE 1

TransferBegin ==
  /\ epoch[Moving] = 2 /\ (HotStart => \E k \in Procs : stage[k] = "gone")
  /\ epoch' = [epoch EXCEPT ![Moving] = 3]
  /\ UNCHANGED <<procs, mine, tail, mon, hist>>

TransferEnd ==
  /\ epoch[Moving] = 3
  /\ epoch' = [epoch EXCEPT ![Moving] = 4]
  /\ mine' = IF HotStart THEN mine \ {Moving} ELSE mine \cup {Moving}
  /\ UNCHANGED <<procs, tail, mon, hist>>

(* The standby's poll finds the ring it was given.                           *)
Promoted(k) ==
  /\ mine = Rings /\ k = 1
  /\ Moves(k, "standby", "running")
  /\ status' = {"RUNNING"}
  /\ hist' = NowRunning
  /\ UNCHANGED <<role, stopped, pidfile, rings, mon>>

Producing == IF HotStart THEN Home ELSE 1

(* A tick of the running process, with or without a deadline overrun.        *)
Commit(k) ==
  /\ stage[k] = "running" /\ ~stopped /\ tail[Producing] < MaxTail
  /\ tail' = [tail EXCEPT ![Producing] = @ + 1]
  /\ status' \in {status, status \cup {"OVERRUN"}}
  /\ hist' = [hist EXCEPT !.since = 0, !.fresh = FALSE]
  /\ UNCHANGED <<role, stage, stopped, pidfile, mine, epoch, mon>>

(* Clean exit: the IDLE store, then the pidfile, then the process; a standby  *)
(* has stored IDLE already.                                                  *)
StoreIdle(k) ==
  /\ Moves(k, "running", "quit") /\ ~stopped
  /\ status' = {"IDLE"}
  /\ UNCHANGED <<role, stopped, pidfile, rings, mon, hist>>

RemovePidfile(k) ==
  /\ stage[k] \in {"quit", "standby"}
  /\ stage' = [stage EXCEPT ![k] = "exited"]
  /\ pidfile' = NoPid
  /\ UNCHANGED <<role, stopped, status, rings, mon, hist>>

Crash(k) ==
  /\ k \in Current
  /\ stage' = [stage EXCEPT ![k] = "crashed"]
  /\ stopped' = FALSE
  /\ hist' = [hist EXCEPT !.crashes = @ + 1, !.fresh = FALSE]
  /\ UNCHANGED <<role, pidfile, status, rings, mon>>

Stop(k) ==
  /\ stage[k] = "running" /\ ~stopped /\ hist.stops < MaxStop
  /\ stopped' = TRUE
  /\ hist' = [hist EXCEPT !.stops = @ + 1]
  /\ UNCHANGED <<role, stage, pidfile, status, rings, mon>>

Continue ==
  /\ stopped
  /\ stopped' = FALSE
  /\ UNCHANGED <<role, stage, pidfile, status, rings, mon, hist>>

(* The supervisor reaps a crash and, when any transfer is done, launches a   *)
(* replacement, which is a standby.                                          *)
Reap(k) ==
  /\ Moves(k, "crashed", "gone")
  /\ UNCHANGED <<role, stopped, pidfile, status, rings, mon, hist>>

Replace(k) ==
  /\ k \in Procs /\ k - 1 \in Procs /\ stage[k - 1] = "gone" /\ (HotStart => epoch[Moving] # 3)
  /\ Moves(k, "none", "new")
  /\ UNCHANGED <<role, stopped, pidfile, status, rings, mon, hist>>

(* Whoever owns the home ring now commits on it.                             *)
OtherCommit ==
  /\ Home \notin mine /\ tail[Home] < MaxTail
  /\ tail' = [tail EXCEPT ![Home] = @ + 1]
  /\ UNCHANGED <<procs, mine, epoch, mon, hist>>

-----------------------------------------------------------------------------
(* poll_worker: the reads, in the order of the code.                         *)

Exists(k) == k \in Procs /\ stage[k] \notin {"none", "gone"}

(* alive_fn: kill(pid, 0) finds a zombie too.                                *)
PollAlive ==
  /\ mpc = "sleep" /\ mpc' = "status"
  /\ obs' = [obs EXCEPT !.alive = Exists(pidfile)]
  /\ UNCHANGED <<procs, rings, track, alert, hist>>

PollStatus ==
  /\ mpc = "status" /\ mpc' = "owned"
  /\ obs' = [obs EXCEPT !.status = status]
  /\ UNCHANGED <<procs, rings, track, alert, hist>>

(* owned_logical_ring: the lowest ring owned, else the home ring.  The       *)
(* standby's home ring is the highest one in the code, so the ring it was    *)
(* given comes first.                                                        *)
Readable(r) == epoch[r] % 2 = 0     \* read_ownership fails on an odd epoch

PollOwned ==
  /\ mpc = "owned" /\ mpc' = "tail"
  /\ obs' = [obs EXCEPT !.ring = IF 1 \in mine /\ Readable(1) THEN 1 ELSE Home]
  /\ UNCHANGED <<procs, rings, track, alert, hist>>

PollTail ==
  /\ mpc = "tail" /\ mpc' = "epoch"
  /\ obs' = [obs EXCEPT !.tail = tail[obs.ring]]
  /\ hist' = [hist EXCEPT !.read = [since |-> hist.since, fresh |-> hist.fresh]]
  /\ UNCHANGED <<procs, rings, track, alert>>

(* Variant: the liveness verdict is taken after the other reads.             *)
PollEpochThenAlive ==
  /\ mpc = "epoch" /\ mpc' = "observe"
  /\ obs' = [obs EXCEPT !.epoch = IF Readable(obs.ring) THEN epoch[obs.ring] ELSE 0,
                        !.alive = Exists(pidfile)]
  /\ UNCHANGED <<procs, rings, track, alert, hist>>

PollEpoch ==
  /\ mpc = "epoch" /\ mpc' = "observe"
  /\ obs' = [obs EXCEPT !.epoch = IF Readable(obs.ring) THEN epoch[obs.ring] ELSE 0]
  /\ UNCHANGED <<procs, rings, track, alert, hist>>

-----------------------------------------------------------------------------
(* observe_worker.                                                           *)

Outcome(t, a) == track' = t /\ alert' = a

DeadRunning == ~obs.alive /\ "RUNNING" \in obs.status

(* Dead with RUNNING in the status word: crashed, once.                      *)
ObserveCrash ==
  LET t == [track EXCEPT !.stalled_alerted = FALSE, !.awaiting = TRUE] IN
  /\ DeadRunning
  /\ IF track.crash_alerted THEN Outcome(t, NoAlert)
     ELSE Outcome([t EXCEPT !.crash_alerted = TRUE, !.running_announced = FALSE,
                            !.overrun_reported = FALSE, !.state = "crashed"],
                  "worker_crashed")

Rearmed == [track EXCEPT !.crash_alerted = FALSE]

ObserveIdle ==
  /\ "RUNNING" \notin obs.status
  /\ IF "IDLE" \in obs.status /\ ~track.idle_announced
     THEN Outcome([Rearmed EXCEPT !.idle_announced = TRUE, !.running_announced = FALSE,
                                  !.stalled_alerted = FALSE, !.state = "idle"],
                  "worker_idle")
     ELSE Outcome(Rearmed, NoAlert)

ObserveAnnounce ==
  /\ "RUNNING" \in obs.status /\ ~DeadRunning /\ ~track.running_announced
  /\ Outcome([Rearmed EXCEPT !.running_announced = TRUE, !.idle_announced = FALSE,
                             !.stalled_alerted = FALSE, !.age = 0, !.tail = obs.tail,
                             !.epoch = obs.epoch, !.awaiting = TRUE, !.state = "running"],
             "worker_running")

(* Variant: the stall window starts again on every poll.                     *)
RebasedEveryPoll ==
  [Rearmed EXCEPT !.epoch = obs.epoch, !.awaiting = TRUE, !.tail = obs.tail,
                  !.age = 0, !.stalled_alerted = FALSE]

(* A new epoch re-baselines the stall window.                                *)
Rebased ==
  IF obs.epoch = track.epoch THEN Rearmed
  ELSE [Rearmed EXCEPT !.epoch = obs.epoch, !.awaiting = TRUE, !.tail = obs.tail,
                       !.age = 0, !.stalled_alerted = FALSE]

(* Variant: no handoff grace.                                                *)
StallBoundShort(t) == StallThreshold

StallBound(t) == IF t.awaiting THEN HandoffGrace ELSE StallThreshold

Overrun(t) ==
  LET set == "OVERRUN" \in obs.status IN
  Outcome([t EXCEPT !.overrun_reported = set],
          IF set /\ ~t.overrun_reported THEN "worker_overrun" ELSE NoAlert)

(* The tail advanced.                                                        *)
Moved(t) == [t EXCEPT !.tail = obs.tail, !.age = 0, !.awaiting = FALSE]

ObserveProgress ==
  LET t == Rebased IN
  /\ "RUNNING" \in obs.status /\ ~DeadRunning /\ track.running_announced
  /\ \/ /\ obs.tail # t.tail /\ t.stalled_alerted
        /\ Outcome([Moved(t) EXCEPT !.stalled_alerted = FALSE, !.state = "running"],
                   "worker_recovered")
     \/ obs.tail # t.tail /\ ~t.stalled_alerted /\ Overrun(Moved(t))
     \/ /\ obs.tail = t.tail /\ ~t.stalled_alerted /\ t.age > StallBound(t)
        /\ Outcome([t EXCEPT !.stalled_alerted = TRUE, !.state = "stalled"],
                   "worker_stalled")
     \/ /\ obs.tail = t.tail /\ (t.stalled_alerted \/ t.age <= StallBound(t))
        /\ Overrun(t)

Observe ==
  /\ mpc = "observe" /\ mpc' = "pace"
  /\ ObserveCrash \/ ObserveIdle \/ ObserveAnnounce \/ ObserveProgress
  /\ hist' = [hist EXCEPT !.reported = IF alert' = "worker_crashed" THEN @ + 1 ELSE @]
  /\ obs' = NoObs
  /\ UNCHANGED <<procs, rings>>

(* The pacer sleeps for one interval; the process may be late by another.     *)
Older(n, ticks) == IF n + ticks < Old THEN n + ticks ELSE Old

Pace ==
  /\ mpc = "pace" /\ mpc' = "sleep"
  /\ \E ticks \in {1, 2} :
       /\ track' = [track EXCEPT !.age = Older(@, ticks)]
       /\ hist' = [hist EXCEPT !.since = Older(@, ticks), !.read = NoRead]
  /\ alert' = NoAlert
  /\ UNCHANGED <<procs, rings, obs>>

Process(k) ==
  \/ WritePidfile(k) \/ StoreStatus(k) \/ Promoted(k) \/ Commit(k) \/ StoreIdle(k)
  \/ RemovePidfile(k) \/ Crash(k) \/ Stop(k) \/ Reap(k) \/ Replace(k)

Monitor == PollAlive \/ PollStatus \/ PollOwned \/ PollTail \/ PollEpoch \/ Observe \/ Pace

Next == (\E k \in Procs : Process(k)) \/ TransferBegin \/ TransferEnd \/ Continue \/ OtherCommit \/ Monitor

Spec == Init /\ [][Next]_mvars

(* The monitor keeps polling.  Nothing forces a worker to do anything.        *)
FairSpec == Spec /\ WF_mvars(Monitor)

-----------------------------------------------------------------------------
Stages == {"none", "new", "pid", "running", "standby", "quit", "crashed", "exited", "gone"}
Alerts == {NoAlert, "worker_crashed", "worker_running", "worker_idle", "worker_stalled",
           "worker_recovered", "worker_overrun"}
MTypeOK ==
  /\ role \in Roles
  /\ stage \in [Procs -> Stages]
  /\ Cardinality(Current) <= 1
  /\ pidfile \in Procs \cup {NoPid}
  /\ status \subseteq {"RUNNING", "IDLE", "OVERRUN"}
  /\ mine \subseteq Rings /\ epoch \in [Rings -> {2, 3, 4}] /\ tail \in [Rings -> 0 .. MaxTail]
  /\ track.state \in {"unknown", "running", "stalled", "crashed", "idle"}
  /\ track.age \in 0 .. Old /\ track.tail \in 0 .. MaxTail
  /\ track.stalled_alerted => track.running_announced
  /\ alert \in Alerts

(* A crash is reported at most once, and only if there was one: a clean exit,  *)
(* however its IDLE store, pidfile removal and end fall between the monitor's  *)
(* reads, and a replacement that reuses the slot's pidfile and status word     *)
(* never produce a worker_crashed of their own.  The exception is a process    *)
(* that writes its pidfile after a poll looked for it and stores RUNNING        *)
(* before that poll reads the status word.                                      *)
CrashGenuine == hist.reported <= hist.crashes + hist.raced

(* The tracker and the words it reads stay in their ranges while a process is  *)
(* replaced between two reads, no stall is pending for a worker that was never  *)
(* announced, and crashes are genuine.                                         *)
CrashAlertsSound == MTypeOK /\ CrashGenuine

(* worker_stalled is never raised against a worker that committed within       *)
(* stall_threshold, nor against a promoted or fresh one within handoff_grace   *)
(* of its RUNNING store (DEC-0013 #1), counted at the moment the tail was read.*)
(* A replacement that has not stored its status yet is judged by the RUNNING of *)
(* the process that crashed, and gets the threshold only.                      *)
StallGenuine ==
  alert = "worker_stalled" =>
    hist.read.since > (IF hist.read.fresh THEN HandoffGrace ELSE StallThreshold)

(* A stopped worker is reported as stalled, unless it is continued or dies.    *)
StoppedReported == stopped ~> (track.state = "stalled" \/ ~stopped)
-----------------------------------------------------------------------------
(* The inductive invariant behind the safety properties.                      *)

Flags == {"RUNNING", "IDLE", "OVERRUN"}
ObsRecord == [alive : BOOLEAN, status : SUBSET Flags, ring : Rings, tail : 0 .. MaxTail,
              epoch : {0, 2, 4}]
TrackRecord ==
  [state : {"unknown", "running", "stalled", "crashed", "idle"}, tail : 0 .. MaxTail,
   epoch : {0, 2, 4}, age : 0 .. Old, running_announced : BOOLEAN, idle_announced : BOOLEAN,
   stalled_alerted : BOOLEAN, crash_alerted : BOOLEAN, overrun_reported : BOOLEAN,
   awaiting : BOOLEAN]
HistRecord ==
  [crashes : Nat, reported : Nat, raced : Nat, since : 0 .. Old, fresh : BOOLEAN,
   stops : Nat, read : [since : 0 .. Old, fresh : BOOLEAN]]

Types ==
  /\ role \in Roles /\ stage \in [Procs -> Stages] /\ stopped \in BOOLEAN
  /\ pidfile \in Procs \cup {NoPid} /\ status \in SUBSET Flags
  /\ mine \in SUBSET Rings /\ epoch \in [Rings -> {2, 3, 4}] /\ tail \in [Rings -> 0 .. MaxTail]
  /\ mpc \in {"sleep", "status", "owned", "tail", "epoch", "observe", "pace"}
  /\ obs \in ObsRecord /\ track \in TrackRecord /\ hist \in HistRecord
  /\ alert \in Alerts

(* A process follows only when the one before is gone.  The first one alone may   *)
(* run, and once it has, RUNNING is not stored again.                            *)
Started == stage[1] \notin {"none", "new", "pid", "standby"}
Lifecycle ==
  /\ \A j, k \in Procs : j < k /\ stage[k] # "none" => stage[j] = "gone"
  /\ \A k \in Procs : stage[k] \in {"crashed", "gone"} => hist.crashes >= k
  /\ \A k \in Procs : stage[k] \in {"running", "quit"} => k = 1
  /\ stage[1] # "none"

(* Whose pid and whose status the slot shows.                                    *)
SlotWords ==
  /\ pidfile # NoPid => stage[pidfile] \notin {"none", "new"}
  /\ \A k \in Procs : stage[k] \in {"pid", "running", "standby", "quit"} => pidfile = k
  /\ \A k \in Procs : stage[k] \in {"standby", "quit", "exited"} => "RUNNING" \notin status
  /\ "RUNNING" \in status => Started /\ pidfile # NoPid

(* Where the poll is, and that it has read RUNNING.                              *)
Polled == mpc \in {"status", "owned", "tail", "epoch", "observe"}
StatusRead == mpc \in {"owned", "tail", "epoch", "observe"}
TailRead == mpc \in {"epoch", "observe"}
SawRunning == StatusRead /\ "RUNNING" \in obs.status

(* A hot slot keeps its ring until its process is gone; a standby runs with the   *)
(* ring it was given.                                                            *)
RingsMoved ==
  /\ 1 \in mine => role # "hot" /\ epoch[1] = 4
  /\ role = "hot" /\ stage[1] # "gone" => mine = {Home} /\ epoch[Home] = 2
  /\ role # "hot" => Home \in mine
  /\ role # "hot" /\ ("RUNNING" \in status \/ SawRunning) => 1 \in mine

(* Reports so far, against the processes that are gone: one each, and one more    *)
(* for a race.                                                                   *)
Gone == {k \in Procs : stage[k] = "gone"} \cup {NoPid}

Reports ==
  /\ \E k \in Gone : hist.reported <= hist.raced + k
  /\ ~Started => hist.reported = 0
  /\ track.crash_alerted => hist.reported > 0
  /\ "RUNNING" \in status /\ ~track.crash_alerted => hist.reported + 1 <= hist.raced + pidfile
  /\ Polled /\ obs.alive /\ "RUNNING" \in status => hist.reported + 1 <= hist.raced + pidfile
  /\ StatusRead /\ "RUNNING" \notin obs.status /\ "RUNNING" \in status => hist.reported = 0
  /\ (SawRunning \/ (mpc = "status" /\ "RUNNING" \in status)) /\ ~obs.alive /\ ~track.crash_alerted =>
       \E k \in Gone : hist.reported + 1 <= hist.raced + k

(* The stall window: it never began before the last commit, unless the tail tells, *)
(* and who has not committed yet is still awaited.                               *)
Windows ==
  /\ track.stalled_alerted => track.running_announced
  /\ mpc # "pace" => alert = NoAlert
  /\ track.running_announced => Started
  /\ SawRunning => Started
  /\ SawRunning /\ mpc # "owned" => obs.ring = Producing
  /\ SawRunning /\ TailRead => obs.tail <= tail[Producing]
  /\ hist.fresh => stage[1] \notin {"crashed", "gone"}
  /\ hist.fresh \/ ~Started => tail[Producing] = 0
  /\ track.running_announced => track.tail <= tail[Producing]
  /\ track.running_announced /\ hist.since < track.age => track.tail < tail[Producing]
  /\ track.running_announced /\ hist.fresh => track.awaiting
  /\ SawRunning /\ TailRead /\ track.running_announced =>
       /\ obs.tail = track.tail => track.age <= hist.read.since
       /\ hist.read.fresh => track.awaiting

MInd == Types /\ Lifecycle /\ SlotWords /\ RingsMoved /\ Reports /\ Windows /\ StallGenuine
=============================================================================
