----------------------------- MODULE Supervisor -----------------------------
(***************************************************************************)
(* The supervisor process (supervisor.cpp) and the worker processes it      *)
(* launches, reaps, promotes, continues and kills.  Workers A and B start   *)
(* hot on rings 0 and 1, worker C is the only standby.  The supervisor is   *)
(* one loop: reap, account, track stalls, read the monitor's alerts.        *)
(*                                                                          *)
(* Rings are counters here (RingBuffer has their protocol) and              *)
(* transfer_ownership is one step (RingHandoff has its loads and stores):   *)
(* only the supervisor writes an ownership cell.  The monitor is the        *)
(* environment: it may raise any alert its rules allow, once per episode.   *)
(***************************************************************************)
EXTENDS Integers, Sequences, FiniteSets, FiniteSetsExt

CONSTANTS
  Scenarios     \* the bounds of a behaviour and the faults it may contain, one of:
                \*   claims    bound: claims per ring
                \*   crashes   bound: worker crashes other than the supervisor's kills
                \*   stops     bound: SIGSTOPs sent to workers
                \*   crashing  the workers that may crash
                \*   stopping  the workers that may be stopped
                \*   alerts    bound: alerts the monitor raises about each worker
                \*   midpush   a crash may leave an uncommitted claim behind
                \*   finishes  a hot worker may complete its ticks and exit
                \*   forkfails fork() may fail
                \*   eof       the monitor may die
                \*   spurious  the monitor may take a slow worker for a stalled one
                \*   prompt    a loop iteration is shorter than the stall threshold

ASSUME ScenariosAssumption ==
  Scenarios \subseteq [claims : Nat, crashes : Nat, stops : Nat, alerts : [0..2 -> Nat],
                       crashing : SUBSET (0..2), stopping : SUBSET (0..2),
                       midpush : BOOLEAN, finishes : BOOLEAN, forkfails : BOOLEAN,
                       eof : BOOLEAN, spurious : BOOLEAN, prompt : BOOLEAN]

Physical == 0..2            \* kMaxWorkers workers, one ring each
Rings == 0..2
HotRings == {0, 1}
kStandbyPhysical == 2
NoRing == 3

VARIABLES
  owner,      \* ring_ownership[r].owner_word: physical_owner, generation
  epoch,      \* ring_ownership[r].epoch
  tail,       \* rings[r].tail_
  abandoned,  \* ring r ends in a claim that was never committed
  status,     \* worker_status[p].status, as the set of its flags
  children,   \* the worker entries of `children`, with the process behind each
  pc,         \* where the supervisor is in its loop
  idx,        \* the index of the `for` loop it is in
  sup,        \* the supervisor's other locals (see SupType)
  pipe,       \* alerts written by the monitor and not yet read
  monitor,    \* the monitor: alive, latches
  hist        \* history: announcements, tails at handover, whether this iteration has
              \* escalated a stall; the faults so far, and those there may be

shm == <<owner, epoch, tail, abandoned, status>>
vars == <<shm, children, pc, idx, sup, pipe, monitor, hist>>

Live(c) == c.life \in {"starting", "standby", "hot"}
Runs(c) == Live(c) /\ ~c.frozen
Hot(c, r) == c.life = "hot" /\ c.ring = r
Idx == DOMAIN children

Child(p, g, role) ==
  [phys |-> p, gen |-> g, role |-> role, life |-> "starting", frozen |-> FALSE,
   ring |-> NoRing, token |-> 0, pid |-> TRUE, handled |-> FALSE]

Init ==
  /\ owner = [r \in Rings |-> [phys |-> r, gen |-> 1]]
  /\ epoch = [r \in Rings |-> 2]
  /\ tail = [r \in Rings |-> 0]
  /\ abandoned = [r \in Rings |-> FALSE]
  /\ status = [p \in Physical |-> {}]
  /\ children = <<Child(0, 1, "hot"), Child(1, 1, "hot"), Child(2, 1, "standby")>>
  /\ pc = "top" /\ idx = 1
  /\ sup = [state |-> "Running", next_generation |-> 1,
            degraded |-> [p \in Physical |-> FALSE],
            crash_reaped |-> FALSE, detected |-> FALSE, prev |-> FALSE, window |-> "closed",
            records |-> [r \in HotRings |-> 0], before |-> 0, first_post |-> FALSE,
            track |-> [p \in Physical |-> [active |-> FALSE, due |-> FALSE, epoch |-> 0, baseline |-> 0]],
            lines |-> <<>>, partial |-> FALSE, rc |-> -1]
  /\ pipe = <<>>
  /\ monitor = [alive |-> TRUE, told |-> {}, stalled |-> [p \in Physical |-> <<0, 0>>],
                quiet |-> [p \in Physical |-> <<0, 0>>]]
  /\ \E s \in Scenarios :
     hist = [may |-> s, escalated |-> FALSE, announced |-> [r \in Rings |-> 0], handover |-> [r \in Rings |-> 0],
             crashes |-> 0, stops |-> 0, alerts |-> [p \in Physical |-> 0]]

-----------------------------------------------------------------------------
(* Ownership lookups.                                                        *)

(* owned_logical_ring: the lowest ring whose cell names the physical worker. *)
owned_logical_ring(p) ==
  LET mine == {r \in Rings : owner[r].phys = p}
  IN IF mine = {} THEN NoRing ELSE Min(mine)

(* The ring an observer reads for a worker: the one it owns, else its home.  *)
ObservedRing(p) == IF owned_logical_ring(p) = NoRing THEN p ELSE owned_logical_ring(p)
Observed(p) == <<epoch[ObservedRing(p)], tail[ObservedRing(p)]>>

(* find_worker: the first child of this physical worker not handled yet.     *)
NoChild == 0

find_worker(cs, p) ==
  LET found == {i \in DOMAIN cs : cs[i].phys = p /\ ~cs[i].handled}
  IN IF found = {} THEN NoChild ELSE Min(found)

-----------------------------------------------------------------------------
(* Worker processes.                                                         *)

acknowledge_ownership(c, r) == owner[r] = [phys |-> c.phys, gen |-> c.gen]

(* run_worker up to its role: a standby stores IDLE over its status word; a  *)
(* hot worker acknowledges its home ring, or exits with an error.            *)
Start(i) ==
  LET c == children[i] IN
  /\ Runs(c) /\ c.life = "starting"
  /\ \/ /\ c.role = "standby"
        /\ children' = [children EXCEPT ![i].life = "standby"]
        /\ status' = [status EXCEPT ![c.phys] = {"IDLE"}]
     \/ /\ c.role = "hot"
        /\ IF acknowledge_ownership(c, c.phys)
           THEN /\ children' = [children EXCEPT ![i].life = "hot", ![i].ring = c.phys,
                                                ![i].token = epoch[c.phys]]
                /\ status' = [status EXCEPT ![c.phys] = {"RUNNING"}]
           ELSE /\ children' = [children EXCEPT ![i].life = "crashed"]
                /\ UNCHANGED status
  /\ UNCHANGED <<owner, epoch, tail, abandoned, pc, idx, sup, pipe, monitor, hist>>

(* run_standby's poll finds a ring other than its home that names this       *)
(* process, and becomes run_hot on the lowest such ring.                     *)
Promote(i) ==
  LET c == children[i]
      mine == {r \in Rings \ {c.phys} : acknowledge_ownership(c, r)}
  IN
  /\ Runs(c) /\ c.life = "standby" /\ mine # {}
  /\ children' = [children EXCEPT ![i].life = "hot", ![i].ring = Min(mine),
                                  ![i].token = epoch[Min(mine)]]
  /\ status' = [status EXCEPT ![c.phys] = {"RUNNING"}]
  /\ UNCHANGED <<owner, epoch, tail, abandoned, pc, idx, sup, pipe, monitor, hist>>

(* A tick of run_work_loop: push if the token is still valid, else stop.     *)
Valid(c) == acknowledge_ownership(c, c.ring) /\ epoch[c.ring] = c.token

Tick(i) ==
  LET c == children[i] IN
  /\ Runs(c) /\ c.life = "hot"
  /\ IF Valid(c)
     THEN /\ tail[c.ring] < hist.may.claims
          /\ tail' = [tail EXCEPT ![c.ring] = @ + 1]
          /\ UNCHANGED <<children, status>>
     ELSE /\ children' = [children EXCEPT ![i].life = "exited"]
          /\ status' = [status EXCEPT ![c.phys] = {"IDLE"}]
          /\ UNCHANGED tail
  /\ UNCHANGED <<owner, epoch, abandoned, pc, idx, sup, pipe, monitor, hist>>

(* All ticks done: run_hot stores IDLE and the process exits with 0.         *)
Finish(i) ==
  LET c == children[i] IN
  /\ hist.may.finishes /\ Runs(c) /\ c.life = "hot"
  /\ children' = [children EXCEPT ![i].life = "exited"]
  /\ status' = [status EXCEPT ![c.phys] = {"IDLE"}]
  /\ UNCHANGED <<owner, epoch, tail, abandoned, pc, idx, sup, pipe, monitor, hist>>

(* A worker dies; inside try_push it may leave its claim uncommitted.        *)
Crash(i) ==
  LET c == children[i] IN
  /\ hist.crashes < hist.may.crashes /\ c.phys \in hist.may.crashing
  /\ Live(c)
  /\ hist' = [hist EXCEPT !.crashes = @ + 1]
  /\ children' = [children EXCEPT ![i].life = "crashed", ![i].frozen = FALSE]
  /\ \/ UNCHANGED <<tail, abandoned>>
     \/ /\ hist.may.midpush /\ c.life = "hot" /\ tail[c.ring] < hist.may.claims
        /\ tail' = [tail EXCEPT ![c.ring] = @ + 1]
        /\ abandoned' = [abandoned EXCEPT ![c.ring] = TRUE]
  /\ UNCHANGED <<owner, epoch, status, pc, idx, sup, pipe, monitor>>

(* SIGSTOP from outside, of a worker in any of its roles.  A worker that is   *)
(* not RUNNING yet is never reported by the monitor, and never continued.     *)
Freeze(i) ==
  /\ hist.stops < hist.may.stops /\ children[i].phys \in hist.may.stopping
  /\ Runs(children[i])
  /\ hist' = [hist EXCEPT !.stops = @ + 1]
  /\ children' = [children EXCEPT ![i].frozen = TRUE]
  /\ UNCHANGED <<shm, pc, idx, sup, pipe, monitor>>

-----------------------------------------------------------------------------
(* The monitor, reduced to the alerts the supervisor acts on.                *)

(* worker_stalled: RUNNING with a tail that has not moved; latched until the *)
(* tail or the epoch of the observed ring changes.  A crashed worker whose   *)
(* slot still says RUNNING reads as stalled while it is a zombie.            *)
StallAlert(p) ==
  /\ monitor.alive /\ hist.alerts[p] < hist.may.alerts[p]
  /\ "RUNNING" \in status[p]
  /\ monitor.stalled[p] # Observed(p)
  /\ hist.may.prompt => monitor.quiet[p] = Observed(p)
  /\ hist.may.spurious \/ ~\E i \in Idx : children[i].phys = p /\ Runs(children[i])
  /\ monitor' = [monitor EXCEPT !.stalled[p] = Observed(p)]
  /\ pipe' = Append(pipe, [event |-> "worker_stalled", worker |-> p])
  /\ hist' = [hist EXCEPT !.alerts[p] = @ + 1]
  /\ UNCHANGED <<shm, children, pc, idx, sup>>

(* worker_crashed: RUNNING, and the pid of the pidfile is gone: reaped, and  *)
(* no replacement has written its own pidfile.  Once per crash.              *)
CrashAlert(i) ==
  LET c == children[i] IN
  /\ monitor.alive /\ hist.alerts[c.phys] < hist.may.alerts[c.phys]
  /\ c.life = "crashed" /\ ~c.pid /\ i \notin monitor.told
  /\ "RUNNING" \in status[c.phys]
  /\ monitor' = [monitor EXCEPT !.told = @ \union {i}]
  /\ pipe' = Append(pipe, [event |-> "worker_crashed", worker |-> c.phys])
  /\ hist' = [hist EXCEPT !.alerts[c.phys] = @ + 1]
  /\ UNCHANGED <<shm, children, pc, idx, sup>>

MonitorDies ==
  /\ hist.may.eof /\ monitor.alive
  /\ monitor' = [monitor EXCEPT !.alive = FALSE]
  /\ UNCHANGED <<shm, children, pc, idx, sup, pipe, hist>>

-----------------------------------------------------------------------------
(* Timers.  handoff_grace_ms and stall_grace_ms run out at any time.         *)

WindowElapses ==
  /\ sup.window = "open"
  /\ sup' = [sup EXCEPT !.window = "elapsed"]
  /\ UNCHANGED <<shm, children, pc, idx, pipe, monitor, hist>>

GraceElapses(p) ==
  /\ sup.track[p].active /\ ~sup.track[p].due
  /\ sup' = [sup EXCEPT !.track[p].due = TRUE]
  /\ UNCHANGED <<shm, children, pc, idx, pipe, monitor, hist>>

-----------------------------------------------------------------------------
(* The supervisor's loop.                                                    *)

(* The two `for` loops go straight to the next index they do not skip: what   *)
(* they skip on only the supervisor changes.                                 *)
Asked(c) == c.pid /\ ~c.handled
NextAsked(cs, i) == Min({k \in DOMAIN cs : k >= i /\ Asked(cs[k])} \union {Len(cs) + 1})
NextTracked(p) == Min({q \in Physical : q >= p /\ sup.track[q].active} \union {3})

(* The loop condition, then the start of reap_crashed_workers.               *)
Loop ==
  /\ pc = "top"
  /\ pc' = "reap" /\ idx' = NextAsked(children, 1)
  /\ sup' = [sup EXCEPT !.crash_reaped = FALSE, !.prev = sup.detected]
  /\ monitor' = IF hist.may.prompt
                THEN [monitor EXCEPT !.quiet = [p \in Physical |-> Observed(p)]] ELSE monitor
  /\ hist' = [hist EXCEPT !.escalated = FALSE]
  /\ UNCHANGED <<shm, children, pipe>>

(* ...or SIGTERM or SIGINT has set g_stop, or runtime_ms is over; nothing else *)
(* in the loop looks at either.                                              *)
LoopEnds ==
  /\ pc = "top"
  /\ pc' = "down"
  /\ UNCHANGED <<shm, children, idx, sup, pipe, monitor, hist>>

(* waitpid(WNOHANG) has nothing for this child.                              *)
ReapSkip ==
  /\ pc = "reap" /\ idx \in Idx
  /\ Live(children[idx])
  /\ idx' = NextAsked(children, idx + 1)
  /\ UNCHANGED <<shm, children, pc, sup, pipe, monitor, hist>>

(* A child that exited with 0 is done with.                                  *)
ReapExit ==
  /\ pc = "reap" /\ idx \in Idx
  /\ Asked(children[idx]) /\ children[idx].life = "exited"
  /\ children' = [children EXCEPT ![idx].pid = FALSE, ![idx].handled = TRUE]
  /\ idx' = NextAsked(children', idx + 1)
  /\ UNCHANGED <<shm, pc, sup, pipe, monitor, hist>>

(* recover_worker_crash, for the dead child at idx.                          *)

CanPromote(cs) ==
  LET standby == find_worker(cs, kStandbyPhysical) IN
  /\ standby # NoChild /\ cs[standby].pid
  /\ owned_logical_ring(kStandbyPhysical) \in {NoRing, kStandbyPhysical}

(* Variant: the token names a generation that no process has.               *)
transfer_to_next_generation(r) ==
  /\ owner' = [owner EXCEPT ![r] = [phys |-> kStandbyPhysical, gen |-> sup.next_generation + 1]]
  /\ epoch' = [epoch EXCEPT ![r] = @ + 2]
  /\ hist' = [hist EXCEPT !.handover[r] = tail[r]]
  /\ UNCHANGED <<status, tail, abandoned>>

(* transfer_ownership of ring r to the standby, at generation 1.             *)
transfer_ownership(r) ==
  /\ owner' = [owner EXCEPT ![r] = [phys |-> kStandbyPhysical, gen |-> 1]]
  /\ epoch' = [epoch EXCEPT ![r] = @ + 2]
  /\ hist' = [hist EXCEPT !.handover[r] = tail[r]]
  /\ UNCHANGED <<status, tail, abandoned>>

(* The degraded branch: flag the crashed worker's slot and announce, once.   *)
Degrade(p, r) ==
  /\ status' = [status EXCEPT ![p] = @ \union {"DEGRADED"}]
  /\ hist' = [hist EXCEPT !.announced[r] = @ + 1]
  /\ UNCHANGED <<owner, epoch, tail, abandoned>>

(* Variant: the replacement inherits generation 1.                          *)
RelaunchSameGeneration(cs, p, forked) ==
  /\ children' = IF forked THEN Append(cs, Child(p, 1, "standby")) ELSE cs
  /\ pc' = IF forked THEN "reap" ELSE "down"
  /\ idx' = NextAsked(children', idx + 1)

(* The replacement is always launched, as a standby of a new generation.     *)
Relaunch(cs, p, forked) ==
  /\ children' = IF forked THEN Append(cs, Child(p, sup.next_generation + 1, "standby")) ELSE cs
  /\ pc' = IF forked THEN "reap" ELSE "down"
  /\ idx' = NextAsked(children', idx + 1)

(* Variant: recovery starts before the process has ended.                   *)
CrashedOrLive(c) == Asked(c) /\ c.life # "exited"

Crashed(c) == Asked(c) /\ c.life = "crashed"

AlreadyDegraded(p) == sup.degraded[p]

ReapCrash(forked) ==
  LET p  == children[idx].phys
      r  == owned_logical_ring(p)
      cs == [children EXCEPT ![idx].pid = FALSE, ![find_worker(children, p)].handled = TRUE]
      reaped == [sup EXCEPT !.crash_reaped = TRUE, !.detected = TRUE,
                            !.next_generation = @ + 1,
                            !.state = IF forked THEN @ ELSE "Failsafe"]
  IN
  /\ pc = "reap" /\ idx \in Idx
  /\ Crashed(children[idx])
  /\ forked \/ hist.may.forkfails
  /\ r # NoRing => ~abandoned[r]
  /\ \/ r = NoRing /\ sup' = reaped /\ UNCHANGED <<shm, hist>>
     \/ r # NoRing /\ CanPromote(cs) /\ transfer_ownership(r) /\ sup' = reaped
     \/ /\ r # NoRing /\ ~CanPromote(cs) /\ ~AlreadyDegraded(p)
        /\ Degrade(p, r) /\ sup' = [reaped EXCEPT !.degraded[p] = TRUE]
     \/ /\ r # NoRing /\ ~CanPromote(cs) /\ AlreadyDegraded(p)
        /\ sup' = reaped /\ UNCHANGED <<shm, hist>>
  /\ Relaunch(cs, p, forked)
  /\ UNCHANGED <<pipe, monitor>>

(* verify_worker_ring refuses a ring with an abandoned claim: failsafe.      *)
ReapUnverified ==
  LET p == children[idx].phys IN
  /\ pc = "reap" /\ idx \in Idx
  /\ Crashed(children[idx])
  /\ owned_logical_ring(p) # NoRing /\ abandoned[owned_logical_ring(p)]
  /\ children' = [children EXCEPT ![idx].pid = FALSE, ![find_worker(children, p)].handled = TRUE]
  /\ sup' = [sup EXCEPT !.crash_reaped = TRUE, !.detected = TRUE, !.state = "Failsafe"]
  /\ pc' = "down"
  /\ UNCHANGED <<shm, idx, pipe, monitor, hist>>

(* After the reap: re-assert DEGRADED, drain rings 0 and 1, open the handoff *)
(* window for a reaped crash, notice the first record after a failover of    *)
(* ring 0, close the window.                                                 *)
Drained == [r \in HotRings |-> IF abandoned[r] THEN tail[r] - 1 ELSE tail[r]]
Degraded == \E p \in Physical : sup.degraded[p]

(* Variant: no snapshot of the record count.                                *)
NeverDetected == FALSE

FirstDetection == ~sup.prev /\ sup.detected /\ sup.before = 0

StateAfterReap ==
  IF Degraded THEN "Degraded" ELSE IF sup.crash_reaped THEN "FailoverDetected" ELSE sup.state

Account ==
  LET before == IF FirstDetection THEN Drained[0] ELSE sup.before
      post   == owner[0].phys = kStandbyPhysical /\ epoch[0] > 2 /\ Drained[0] > before
      window == IF sup.crash_reaped THEN "open" ELSE sup.window
  IN
  /\ pc = "reap" /\ idx \notin Idx
  /\ status' = [p \in Physical |-> IF sup.degraded[p] THEN status[p] \union {"DEGRADED"}
                                  ELSE status[p]]
  /\ sup' = [sup EXCEPT !.state = StateAfterReap, !.records = Drained, !.before = before,
                         !.first_post = @ \/ post,
                         !.window = IF post \/ window = "elapsed" THEN "closed" ELSE window]
  /\ pc' = "track" /\ idx' = NextTracked(0)
  /\ UNCHANGED <<owner, epoch, tail, abandoned, children, pipe, monitor, hist>>

-----------------------------------------------------------------------------
(* StallRecoveryTracker, and what the loop does with its verdicts.           *)

Idle == [active |-> FALSE, due |-> FALSE, epoch |-> 0, baseline |-> 0]

(* observe(): nothing to decide for the worker at idx.                       *)
TrackNone ==
  /\ pc = "track" /\ idx \in Physical
  /\ tail[ObservedRing(idx)] = sup.track[idx].baseline /\ ~sup.track[idx].due
  /\ idx' = NextTracked(idx + 1)
  /\ UNCHANGED <<shm, children, pc, sup, pipe, monitor, hist>>

(* The observed tail moved: kRecovered.                                      *)
TrackRecovered ==
  /\ pc = "track" /\ idx \in Physical
  /\ tail[ObservedRing(idx)] # sup.track[idx].baseline
  /\ sup' = [sup EXCEPT !.track[idx] = Idle,
                         !.state = IF @ = "Degraded" THEN @ ELSE "Running"]
  /\ idx' = NextTracked(idx + 1)
  /\ UNCHANGED <<shm, children, pc, pipe, monitor, hist>>

(* SIGKILL reaches a live process, frozen or not.                            *)
Killed(i) == [children EXCEPT ![i].life = IF Live(children[i]) THEN "crashed" ELSE @,
                              ![i].frozen = FALSE]

(* The grace ran out first: kEscalate, SIGKILL to the worker's live child.   *)
TrackEscalate ==
  LET i == find_worker(children, idx) IN
  /\ pc = "track" /\ idx \in Physical /\ sup.track[idx].due
  /\ tail[ObservedRing(idx)] = sup.track[idx].baseline
  /\ children' = IF i # NoChild THEN Killed(i) ELSE children
  /\ sup' = [sup EXCEPT !.track[idx] = Idle, !.state = "FailoverDetected"]
  /\ hist' = [hist EXCEPT !.escalated = TRUE]
  /\ idx' = NextTracked(idx + 1)
  /\ UNCHANGED <<shm, pc, pipe, monitor>>

-----------------------------------------------------------------------------
(* The monitor's pipe.                                                       *)

AtPoll == pc = "track" /\ idx \notin Physical    \* the tracker's loop is done

(* poll() timed out, or there is end of file: the monitor is gone.           *)
PollEmpty ==
  /\ AtPoll /\ pipe = <<>>
  /\ pc' = IF monitor.alive THEN "top" ELSE "down"
  /\ UNCHANGED <<shm, children, idx, sup, pipe, monitor, hist>>

(* read() returns whole lines, and may cut the next one in two.              *)
PollRead(n) ==
  /\ AtPoll /\ n \in 1..Len(pipe)
  /\ \E cut \in (IF n < Len(pipe) THEN BOOLEAN ELSE {FALSE}) :
       sup' = [sup EXCEPT !.lines = SubSeq(pipe, 1, n), !.partial = cut]
  /\ pipe' = SubSeq(pipe, n + 1, Len(pipe))
  /\ pc' = "lines"
  /\ UNCHANGED <<shm, children, idx, monitor, hist>>

(* Variant: the handoff window does not shield anybody.                     *)
StallUnshielded == sup.state \in {"Running", "StalledRecovering", "FailoverDetected"}

(* Variant: stalls count only after a failover.                             *)
StallAfterFailover ==
  sup.window = "closed" /\ sup.state \in {"StalledRecovering", "FailoverDetected"}

StallAccepted ==
  sup.window = "closed" /\ sup.state \in {"Running", "StalledRecovering", "FailoverDetected"}

(* A worker_stalled line that begins a recovery: one SIGCONT, timer started. *)
LineStalled ==
  LET p == Head(sup.lines).worker
      i == find_worker(children, p)
  IN
  /\ pc = "lines" /\ sup.lines # <<>> /\ Head(sup.lines).event = "worker_stalled"
  /\ StallAccepted /\ ~sup.track[p].active
  /\ sup' = [sup EXCEPT !.lines = Tail(@), !.state = "StalledRecovering",
                         !.track[p] = [active |-> TRUE, due |-> FALSE, epoch |-> epoch[ObservedRing(p)],
                                       baseline |-> tail[ObservedRing(p)]]]
  /\ children' = IF i # NoChild THEN [children EXCEPT ![i].frozen = FALSE] ELSE children
  /\ UNCHANGED <<shm, pc, idx, pipe, monitor, hist>>

(* A worker_stalled line that is only forwarded.                             *)
LineForwarded ==
  /\ pc = "lines" /\ sup.lines # <<>> /\ Head(sup.lines).event = "worker_stalled"
  /\ ~StallAccepted \/ sup.track[Head(sup.lines).worker].active
  /\ sup' = [sup EXCEPT !.lines = Tail(@)]
  /\ UNCHANGED <<shm, children, pc, idx, pipe, monitor, hist>>

LineCrashed ==
  /\ pc = "lines" /\ sup.lines # <<>> /\ Head(sup.lines).event = "worker_crashed"
  /\ sup' = [sup EXCEPT !.lines = Tail(@),
                         !.state = IF @ = "Degraded" THEN @ ELSE "FailoverDetected"]
  /\ UNCHANGED <<shm, children, pc, idx, pipe, monitor, hist>>

LinesDone ==
  /\ pc = "lines" /\ sup.lines = <<>>
  /\ pc' = "top"
  /\ UNCHANGED <<shm, children, idx, sup, pipe, monitor, hist>>

(* After the loop: terminate_and_reap ends every child, and the exit code.   *)
Shutdown ==
  /\ pc = "down"
  /\ children' = [i \in Idx |-> IF children[i].pid /\ Live(children[i])
                                THEN [children[i] EXCEPT !.life = "exited", !.frozen = FALSE]
                                ELSE children[i]]
  /\ monitor' = [monitor EXCEPT !.alive = FALSE]
  /\ sup' = [sup EXCEPT !.rc = IF sup.state \in {"Degraded", "Failsafe"} THEN 4
                               ELSE IF sup.partial THEN 3 ELSE 0]
  /\ pc' = "exit"
  /\ UNCHANGED <<shm, idx, pipe, hist>>

Exited == pc = "exit" /\ UNCHANGED vars

-----------------------------------------------------------------------------
Worker(i) == Start(i) \/ Promote(i) \/ Tick(i) \/ Finish(i)
Faults(i) == Crash(i) \/ Freeze(i)
Alerts == \/ \E p \in Physical : StallAlert(p)
          \/ \E i \in Idx : CrashAlert(i)
          \/ MonitorDies
Timers == WindowElapses \/ \E p \in Physical : GraceElapses(p)
Reap == \/ ReapSkip \/ ReapExit \/ ReapUnverified
        \/ \E forked \in BOOLEAN : ReapCrash(forked)
Track == TrackNone \/ TrackRecovered \/ TrackEscalate
Poll == \/ PollEmpty \/ LineStalled \/ LineForwarded \/ LineCrashed \/ LinesDone
        \/ \E n \in 1..Len(pipe) : PollRead(n)
Supervise == Loop \/ LoopEnds \/ Reap \/ Account \/ Track \/ Poll \/ Shutdown

Next ==
  \/ \E i \in Idx : Worker(i) \/ Faults(i)
  \/ Alerts \/ Timers \/ Supervise \/ Exited

Spec == Init /\ [][Next]_vars

(* The scheduler runs every process that is not stopped, the monitor polls    *)
(* for ever, and timers run out.  Nothing forces a fault or a push.  Starts,   *)
(* promotions and alerts are finitely many here, so fairness of each family   *)
(* is fairness of each of them.                                               *)
FairSpec ==
  /\ Spec
  /\ WF_vars(Supervise)
  /\ WF_vars(Timers)
  /\ WF_vars(\E p \in Physical : StallAlert(p))
  /\ WF_vars(\E i \in Idx : Start(i) \/ Promote(i))

-----------------------------------------------------------------------------
(* The locals of run_supervisor.                                              *)
SupOK ==
  /\ sup.state \in {"Running", "StalledRecovering", "FailoverDetected", "Degraded", "Failsafe"}
  /\ sup.window \in {"closed", "open", "elapsed"}
  /\ sup.next_generation = Len(children) - 2 \/ sup.state = "Failsafe"
  /\ sup.rc \in {-1, 0, 3, 4} /\ (sup.rc = -1 <=> pc # "exit")
  /\ \A r \in HotRings : sup.records[r] <= tail[r]
  /\ \A p \in Physical : sup.track[p].due => sup.track[p].active

(* Types; and every slot of `children` is in step with its process: a pid is  *)
(* given up only for a process that has ended, and only one child per worker  *)
(* is still to be handled.                                                    *)
STypeOK ==
  /\ owner \in [Rings -> [phys : Physical, gen : Nat]]
  /\ epoch \in [Rings -> Nat] /\ tail \in [Rings -> 0..hist.may.claims]
  /\ status \in [Physical -> SUBSET {"RUNNING", "IDLE", "DEGRADED"}]
  /\ SupOK
  /\ \A i \in Idx : /\ children[i].handled => ~children[i].pid
                    /\ ~children[i].pid => ~Live(children[i])
  /\ \A i, j \in Idx : (i # j /\ children[i].phys = children[j].phys)
                        => children[i].handled \/ children[j].handled

(* A logical ring never has two live producers: a worker that may still push  *)
(* (a stopped one included) and the one promoted in its place                 *)
(* (recover_worker_crash hands a ring over only after waitpid).               *)
OneHotPerRing ==
  \A i, j \in Idx :
    (i # j /\ Live(children[i]) /\ Live(children[j]) /\ children[i].life = "hot")
      => ~Hot(children[j], children[i].ring)

(* The supervisor never takes a ring from a live worker: whatever crashed,    *)
(* was killed or restarted around it, a hot worker's token stays valid, so no *)
(* healthy worker stops with ownership_lost.                                  *)
LiveTokensValid == \A i \in Idx : children[i].life = "hot" => Valid(children[i])

(* The standby never holds two hot rings (DEC-0012 #4), whatever the order in *)
(* which deaths and exits are reaped.                                         *)
StandbyOneRing == Cardinality({r \in HotRings : owner[r].phys = kStandbyPhysical}) <= 1

(* Ownership of the hot rings, through any order of crashes, exits, stops,    *)
(* failed forks, promotions and restarts: the table of children matches the   *)
(* processes, a ring has one producer, which keeps its token until it ends,   *)
(* and the standby gets at most one of them.                                  *)
RingsOwned == STypeOK /\ OneHotPerRing /\ LiveTokensValid /\ StandbyOneRing

(* DEGRADED is terminal for a ring: once announced, no process produces on it *)
(* again, although its owner's slot is restarted as a standby that polls the  *)
(* very cell that still names its worker.                                     *)
DegradedTerminal ==
  \A r \in HotRings : hist.announced[r] > 0 => ~\E i \in Idx : Hot(children[i], r)

(* A ring is announced DEGRADED at most once, through any number of crashes   *)
(* of the restarted slot.                                                     *)
AnnounceOnce == \A r \in Rings : hist.announced[r] <= 1

(* The process the cell of ring r names: alive, finished, or dead and still   *)
(* to be reaped.                                                              *)
Served(r) ==
  \E i \in Idx : /\ acknowledge_ownership(children[i], r)
                 /\ children[i].life \in {"starting", "standby", "hot", "exited"}
                    \/ ~children[i].handled

(* A hot ring that nobody will serve is never silent: between iterations the  *)
(* supervisor has announced some slot DEGRADED, or is in failsafe.            *)
NeverSilentlyDown ==
  (pc = "top" /\ sup.state # "Failsafe")
    => \A r \in HotRings : Served(r) \/ Degraded

(* What recover_worker_crash documents: a ring whose owner crashed with no    *)
(* standby to promote is itself announced.                                    *)
OrphanAnnounced ==
  (pc = "top" /\ sup.state # "Failsafe")
    => \A r \in HotRings : Served(r) \/ hist.announced[r] > 0

(* The first post-failover record was committed after ring 0 was handed over, *)
(* not by the worker that crashed, if the first crash of all was not that of   *)
(* the standby (whose crash takes the one snapshot of the record count).       *)
FirstPostGenuine ==
  (sup.first_post /\ children[4].phys # kStandbyPhysical) => sup.records[0] > hist.handover[0]

(* Once a ring is DEGRADED the supervisor exits with 4, however the loop ends, *)
(* unless its last iteration escalated a stall (which overwrites the state).   *)
DegradedExit == (pc = "exit" /\ Degraded /\ ~hist.escalated) => sup.rc = 4

(* What a double fault promises: a DEGRADED ring stays down, is announced once *)
(* and decides the exit code, whatever crashes or restarts afterwards.        *)
DegradedKept == DegradedTerminal /\ AnnounceOnce /\ DegradedExit

(* The loop is about to escalate the stall of worker p.                       *)
Escalating(p) ==
  /\ pc = "track" /\ idx = p /\ sup.track[p].due
  /\ tail[ObservedRing(p)] = sup.track[p].baseline

(* While the window of its own handoff is open, the worker that was promoted   *)
(* and has not committed yet is not killed for being stalled (DEC-0013): no    *)
(* alert about it, early, late or read together with others, has armed its     *)
(* tracker.  A second crash opens the window again without disarming anybody.  *)
PromotedSpared ==
  \A p \in Physical, i \in Idx :
    (/\ Escalating(p) /\ i = find_worker(children, p) /\ Len(children) = 4
     /\ children[i].life = "hot" /\ children[i].token > 2
     /\ tail[children[i].ring] = hist.handover[children[i].ring])
      => sup.window = "closed"

(* A hot ring whose worker has crashed gets a live producer or is announced,  *)
(* unless the system is stopped: reap, transfer, the standby's poll and the   *)
(* restart all get there.  A standby that is itself stopped, which nobody     *)
(* reports, is the exception.                                                 *)
RingsRecover ==
  \A r \in HotRings :
    (~\E i \in Idx : Live(children[i]) /\ acknowledge_ownership(children[i], r))
      ~> (\/ \E i \in Idx : Hot(children[i], r)
          \/ hist.announced[r] > 0 \/ pc = "exit"
          \/ \E i \in Idx : acknowledge_ownership(children[i], r) /\ children[i].frozen)

(* A worker that is stopped while it is hot.                                  *)
Stopped(p) ==
  \E i \in Idx : children[i].phys = p /\ children[i].life = "hot" /\ children[i].frozen

(* A stop of a hot worker that the monitor has still to report comes to an end: *)
(* the worker is continued or killed, unless the system is DEGRADED, where the  *)
(* stall ladder is off by design, or ends, or a handoff window opens first and   *)
(* drops the one alert.  A worker stopped before it is hot has no such promise:  *)
(* the monitor reports RUNNING workers only.                                    *)
StalledHandled ==
  \A p \in Physical :
    (Stopped(p) /\ monitor.stalled[p] # Observed(p))
      ~> (~Stopped(p) \/ Degraded \/ pc = "exit" \/ sup.window # "closed")

(* What DEC-0013 says of the handoff window, "genuine post-failover stalls     *)
(* still recover": a hot worker that is stopped when the window of a failover  *)
(* has closed is continued or killed.                                         *)
StallsStillRecover ==
  \A p \in Physical :
    (Stopped(p) /\ sup.detected /\ sup.window = "closed")
      ~> (~Stopped(p) \/ Degraded \/ pc = "exit")
-----------------------------------------------------------------------------
(* The inductive invariant behind the safety properties.                      *)

Lives == {"starting", "standby", "hot", "exited", "crashed"}
ChildRecord == [phys : Physical, gen : Nat, role : {"hot", "standby"}, life : Lives,
                frozen : BOOLEAN, ring : Rings \union {NoRing}, token : Nat,
                pid : BOOLEAN, handled : BOOLEAN]
Alert == [event : {"worker_stalled", "worker_crashed"}, worker : Physical]
SupRecord ==
  [state : {"Running", "StalledRecovering", "FailoverDetected", "Degraded", "Failsafe"},
   next_generation : Nat \ {0}, degraded : [Physical -> BOOLEAN],
   crash_reaped : BOOLEAN, detected : BOOLEAN, prev : BOOLEAN,
   window : {"closed", "open", "elapsed"}, records : [HotRings -> Int], before : Int,
   first_post : BOOLEAN,
   track : [Physical -> [active : BOOLEAN, due : BOOLEAN, epoch : Nat, baseline : Nat]],
   lines : Seq(Alert), partial : BOOLEAN, rc : {-1, 0, 3, 4}]
HistRecord ==
  [may : Scenarios, escalated : BOOLEAN, announced : [Rings -> Nat], handover : [Rings -> Nat],
   crashes : Nat, stops : Nat, alerts : [Physical -> Nat]]

Types ==
  /\ owner \in [Rings -> [phys : Physical, gen : Nat]]
  /\ epoch \in [Rings -> Nat] /\ tail \in [Rings -> Nat]
  /\ abandoned \in [Rings -> BOOLEAN]
  /\ status \in [Physical -> SUBSET {"RUNNING", "IDLE", "DEGRADED"}]
  /\ children \in Seq(ChildRecord) /\ Len(children) >= 3
  /\ pc \in {"top", "reap", "track", "lines", "down", "exit"}
  /\ sup \in SupRecord /\ pipe \in Seq(Alert) /\ hist \in HistRecord

Going == pc \notin {"down", "exit"}

(* The cells: a hot ring is with its first worker or, after one transfer, with  *)
(* the standby, which has at most one of them.                                 *)
Cells ==
  /\ owner[2] = [phys |-> 2, gen |-> 1]
  /\ \A r \in HotRings :
       \/ owner[r] = [phys |-> r, gen |-> 1] /\ epoch[r] = 2
       \/ owner[r] = [phys |-> 2, gen |-> 1] /\ epoch[r] = 4
  /\ owner[0].phys # 2 \/ owner[1].phys # 2

StandbyBusy == owner[0].phys = 2 \/ owner[1].phys = 2

(* The first three children have generation 1, the others have not.  A pid is   *)
(* given up with the child, when its process has ended; one child per worker    *)
(* is still to be handled.                                                     *)
Slots ==
  /\ \A i \in Idx : IF i <= 3 THEN children[i].phys = i - 1 /\ children[i].gen = 1
                    ELSE children[i].gen > 1
  /\ \A i \in Idx : children[i].role = IF i <= 2 THEN "hot" ELSE "standby"
  /\ \A i \in Idx : /\ children[i].pid <=> ~children[i].handled
                    /\ children[i].handled => ~Live(children[i])
  /\ \A i, j \in Idx : i # j /\ children[i].phys = children[j].phys
                         => children[i].handled \/ children[j].handled
  /\ sup.next_generation = Len(children) - 2 \/ sup.state = "Failsafe"
  /\ Going => StandbyBusy \/ \E i \in Idx : children[i].phys = 2 /\ ~children[i].handled

(* Who is hot, or was until it exited, is one of the first three, on the ring    *)
(* whose cell names it; a ring is taken away after its first worker was handled. *)
HotWorkers ==
  /\ \A i \in Idx : children[i].life = "hot" =>
       i <= 3 /\ children[i].ring \in HotRings /\ Valid(children[i])
  /\ Going /\ children[3].life \in {"hot", "exited"} => StandbyBusy
  /\ \A i \in Idx : Going /\ i > 3 => children[i].life # "exited"
  /\ \A r \in HotRings : owner[r].phys = 2 => children[r + 1].handled

(* An announced ring keeps its owner, whose slot is flagged and whose first      *)
(* process has been handled; a death that moved no ring has been announced.      *)
Announced ==
  /\ \A r \in Rings : hist.announced[r] <= 1 /\
                      (hist.announced[r] > 0 => sup.degraded[owner[r].phys])
  /\ \A r \in HotRings : hist.announced[r] > 0 => StandbyBusy /\ children[owner[r].phys + 1].handled
  /\ Going => \A p \in Physical :
       children[p + 1].life = "crashed" /\ children[p + 1].handled /\ owner[p].phys = p
         => sup.degraded[p]

(* DEGRADED, once accounted for, is the state until an escalation, and the exit   *)
(* code; failsafe ends the loop.                                                 *)
ExitState ==
  /\ sup.state = "Failsafe" => ~Going
  /\ pc \in {"top", "track", "lines", "down"} /\ Degraded /\ ~hist.escalated
       => sup.state \in {"Degraded", "Failsafe"}
  /\ DegradedExit
  /\ sup.rc = -1 <=> pc # "exit"
  /\ \A p \in Physical : sup.track[p].due => sup.track[p].active

(* Record counts.  An abandoned claim is its owner's last; the snapshot of the first *)
(* crash was taken after ring 0 was handed over, if it ever is.                   *)
Counts ==
  /\ \A r \in Rings : tail[r] <= hist.may.claims
  /\ \A r \in HotRings : abandoned[r] => tail[r] > 0 /\ children[owner[r].phys + 1].life = "crashed"
  /\ \A r \in HotRings : sup.records[r] <= Drained[r]
  /\ owner[0].phys = 2 => hist.handover[0] <= Drained[0]
  /\ Going => (StandbyBusy \/ sup.detected => Len(children) > 3)
  /\ Len(children) > 3 => /\ sup.detected
                          /\ children[4].phys = 2 \/ owner[children[4].phys].phys = 2
  /\ ~sup.detected => sup.before = 0
  /\ sup.prev => sup.detected
  /\ pc = "reap" /\ ~sup.prev => sup.before = 0
  /\ Going /\ Len(children) > 3 /\ children[4].phys = 0 =>
       (pc = "reap" /\ ~sup.prev) \/ sup.before >= hist.handover[0]
  /\ sup.first_post => /\ Len(children) > 3 /\ owner[0].phys = 2
                       /\ children[4].phys = 0 => sup.records[0] > hist.handover[0]

(* Until the first replacement nobody was promoted, and nothing was said about the   *)
(* standby; until the second, its tracker runs only while the window is closed.      *)
Shielded ==
  Going =>
    /\ Len(children) = 3 =>
         /\ "RUNNING" \notin status[2] /\ ~sup.track[2].active
         /\ \A k \in 1..Len(pipe) : pipe[k] # [event |-> "worker_stalled", worker |-> 2]
         /\ \A k \in 1..Len(sup.lines) : sup.lines[k] # [event |-> "worker_stalled", worker |-> 2]
    /\ Len(children) = 4 /\ sup.track[2].active =>
         sup.window = "closed" /\ (pc = "reap" => ~sup.crash_reaped)

SInd == Types /\ Cells /\ Slots /\ HotWorkers /\ Announced /\ ExitState /\ Counts /\ Shielded
=============================================================================
