---------------------------- MODULE Observability ----------------------------
(* The log side of the observability daemon, composed with the writers of the *)
(* event log: a supervisor that logs its loss witness, dies and starts again,  *)
(* and perturbation invocations.  Each poll cycle opens the log if it has to,   *)
(* drains it with the loss reader and then with the collector's, one record     *)
(* per step, on file positions of their own.                                    *)
EXTENDS Perturb

CONSTANTS Scenarios,   \* budgets of a behaviour (see MCObservability)
          MaxOpens     \* times the daemon opens the log
Budget == [starts : Nat, events : Nat, losses : Nat, invocations : Nat, requests : SUBSET Requests,
           wfaults : Nat, flushes : Nat, rfaults : Nat, restarts : Nat, replay : Nat,
           daemon : BOOLEAN]
ASSUME ObsAssumption == MaxOpens \in Nat /\ Scenarios \subseteq Budget

VARIABLES plan,        \* budgets that are left
          sup,         \* supervisor: down, up, failsafe, ending
          pc,          \* daemon: idle, loss, collect
          rd,          \* reader -> EventLog reader
          dataLoss,    \* data_loss_events_total
          applied,     \* perturbation_count_total
          gapsShown,   \* event_log_gaps_total
          opens,       \* times both readers were opened (bounded; history)
          emits        \* losses the supervisor appended or tried to (history)

dvars == <<pc, rd, dataLoss, applied, gapsShown, opens>>
ovars == <<logvars, pvars, dvars, plan, sup, emits>>

Readers == {"loss", "collector"}

OTypeOK ==
  /\ LogTypeOK /\ PTypeOK
  /\ sup \in {"down", "up", "failsafe", "ending"} /\ pc \in {"idle", "loss", "collect"}
  /\ rd \in [Readers -> Reader]
  /\ dataLoss \in Nat /\ applied \in Nat /\ emits \in Nat /\ opens \in 0 .. MaxOpens
  /\ gapsShown \in [LogKeys -> Nat] /\ plan \in Budget

DaemonInit ==
  /\ pc = "idle" /\ rd = [r \in Readers |-> NewReader]
  /\ dataLoss = 0 /\ applied = 0 /\ opens = 0
  /\ gapsShown = [k \in LogKeys |-> 0]

OInit ==
  /\ LogInit /\ PInit /\ DaemonInit
  /\ plan \in Scenarios /\ sup = "down" /\ emits = 0
  /\ plan.replay = 0 => out = <<>>

Spend(what) == plan[what] > 0 /\ plan' = [plan EXCEPT ![what] = @ - 1]

(* ---- Supervisor: the witness sink ---- *)
SupStart ==
  /\ sup = "down" /\ Spend("starts") /\ sup' = "up"
  /\ Open("supervisor") \/ OpenFails("supervisor")
  /\ UNCHANGED <<file, hurt, pvars, dvars, emits>>

(* WitnessSink::emit: a failed append is swallowed, the supervisor goes on.       *)
Emit(what, ok) ==
  \/ /\ writer["supervisor"].open
     /\ append("supervisor", what, ok)
     /\ emits' = IF what = "loss" THEN emits + 1 ELSE emits
  \/ /\ ~writer["supervisor"].open /\ ok
     /\ UNCHANGED <<logvars, emits>>
(* Failovers, stalls and degraded rings while it runs, then the shutdown summary,  *)
(* which follows a failsafe too.                                                   *)
Event ==
  /\ sup \in {"up", "failsafe"} /\ plan.events > 0
  /\ sup' \in {sup, "ending"} \ {"failsafe"}
  /\ \E ok \in BOOLEAN :
       /\ Emit("other", ok)
       /\ plan' = [plan EXCEPT !.events = @ - 1, !.wfaults = IF ok THEN @ ELSE @ - 1]
       /\ ok \/ plan.wfaults > 0
  /\ UNCHANGED <<pvars, dvars>>
(* One loss per ring whose drain failed, then failsafe: only the summary follows.  *)
Loss ==
  /\ sup \in {"up", "failsafe"} /\ plan.losses > 0 /\ sup' = "failsafe"
  /\ \E ok \in BOOLEAN :
       /\ Emit("loss", ok)
       /\ plan' = [plan EXCEPT !.losses = @ - 1, !.wfaults = IF ok THEN @ ELSE @ - 1]
       /\ ok \/ plan.wfaults > 0
  /\ UNCHANGED <<pvars, dvars>>
SupEnds ==
  /\ sup # "down" /\ sup' = "down"
  /\ Close("supervisor")
  /\ UNCHANGED <<file, hurt, pvars, dvars, plan, emits>>

(* ---- Harness ---- *)
PerturbStep ==
  \/ \E a \in Invocations :
       \/ /\ \/ \E request \in plan.requests : Invoke(a, request)
             \/ SinkFails(a)
          /\ Spend("invocations") /\ UNCHANGED logvars
       \/ LogOpen(a) /\ UNCHANGED plan
       \/ LogAppend(a, TRUE) /\ UNCHANGED plan
       \/ Spend("wfaults") /\ LogAppend(a, FALSE)
  \/ \E a \in Actors : SendSignal(a) /\ UNCHANGED <<logvars, plan>>
  \/ \E a \in Actors : RecordAction(a, FALSE, 1) /\ UNCHANGED <<logvars, plan>>
  \/ \E a \in Invocations : /\ RecordAction(a, TRUE, 1) /\ Spend("flushes")
                            /\ hurt' = hurt \cup {"flush"} /\ UNCHANGED <<file, writer>>
  \/ \E a \in Invocations : RecordFails(a) /\ Spend("flushes") /\ UNCHANGED logvars
  \/ \E t \in Targets : Reap(t) /\ UNCHANGED <<logvars, plan>>
  \/ Spend("replay") /\ StartReplay /\ UNCHANGED logvars
  \/ (ReplayNext \/ ReplayEnds) /\ UNCHANGED <<logvars, plan>>
Perturb == PerturbStep /\ UNCHANGED <<dvars, sup, emits>>

(* ---- Daemon: refresh_locked, one read per step ---- *)
(* open_event_log opens both readers when the collector's is not open; nothing     *)
(* looks at the loss reader alone.                                                 *)
OpenLog ==
  /\ pc = "idle" /\ pc' = "loss"
  /\ \/ /\ ~rd["collector"].open
        /\ opens < MaxOpens /\ opens' = opens + 1
        /\ rd' = [r \in Readers |-> Opened(rd[r])]
     \/ /\ rd["collector"].open \/ opens = MaxOpens
        /\ UNCHANGED <<rd, opens>>
  /\ UNCHANGED <<dataLoss, applied, gapsShown>>

(* Variant: the event name is not looked at.                                        *)
CountsLossAny(p) == parse_event_record(p).key = "supervisor"
CountsLoss(p) ==
  LET rec == parse_event_record(p) IN
  rec.key = "supervisor" /\ rec.what = "loss" /\ HasFields(p, "loss")
(* Variant: a record of any component counts as a perturbation.                      *)
CountsAppliedAny(p) == TRUE
CountsApplied(p) == parse_event_record(p).key = "perturb" /\ HasFields(p, "applied")

(* scan_data_loss: an error closes the loss reader, and only that one.              *)
ScanStep(fault) ==
  LET r == rd["loss"] IN
  /\ pc = "loss"
  /\ \/ /\ ~r.open
        /\ pc' = "collect" /\ UNCHANGED <<rd, dataLoss>>
     \/ /\ r.open /\ AtEnd(r) /\ ~fault
        /\ rd' = [rd EXCEPT !["loss"] = AfterEnd(r)]
        /\ pc' = "collect" /\ UNCHANGED dataLoss
     \/ /\ r.open /\ (fault \/ ReadsBad(r))
        /\ rd' = [rd EXCEPT !["loss"] = ClosedReader(r)]
        /\ pc' = "collect" /\ UNCHANGED dataLoss
     \/ /\ r.open /\ ReadsRecord(r) /\ ~fault
        /\ rd' = [rd EXCEPT !["loss"] = StateAfter(r, parse_event_record(r.pos))]
        /\ dataLoss' = IF CountsLoss(r.pos) THEN dataLoss + 1 ELSE dataLoss
        /\ UNCHANGED pc
  /\ UNCHANGED <<applied, gapsShown, opens>>

(* EventMetricsCollector::poll, and refresh_locked's handling of its failure.       *)
PollStep(fault) ==
  LET r == rd["collector"] IN
  /\ pc = "collect"
  /\ \/ /\ ~r.open /\ ~fault /\ pc' = "idle" /\ UNCHANGED <<rd, applied, gapsShown>>
     \/ /\ r.open /\ AtEnd(r) /\ ~fault
        /\ gapsShown' = r.gaps
        /\ rd' = [rd EXCEPT !["collector"] = AfterEnd(r)]
        /\ pc' = "idle" /\ UNCHANGED applied
     \/ /\ r.open /\ (fault \/ ReadsBad(r))
        /\ rd' = [i \in Readers |-> ClosedReader(rd[i])]
        /\ pc' = "idle" /\ UNCHANGED <<applied, gapsShown>>
     \/ /\ r.open /\ ReadsRecord(r) /\ ~fault
        /\ rd' = [rd EXCEPT !["collector"] = StateAfter(r, parse_event_record(r.pos))]
        /\ applied' = IF CountsApplied(r.pos) THEN applied + 1 ELSE applied
        /\ UNCHANGED <<pc, gapsShown>>
  /\ UNCHANGED <<dataLoss, opens>>

DaemonStep ==
  plan.daemon /\ (OpenLog \/ ScanStep(FALSE) \/ PollStep(FALSE)) /\ UNCHANGED <<plan, hurt>>
ReadError ==
  /\ ScanStep(TRUE) \/ PollStep(TRUE)
  /\ pc = "loss" => rd["loss"].open
  /\ Spend("rfaults") /\ hurt' = hurt \cup {"read"}
(* The daemon's process is killed and started again.                                *)
Restart ==
  /\ Spend("restarts")
  /\ pc' = "idle" /\ rd' = [r \in Readers |-> NewReader]
  /\ dataLoss' = 0 /\ applied' = 0 /\ opens' = 0 /\ gapsShown' = [k \in LogKeys |-> 0]
  /\ UNCHANGED hurt
DaemonRuns == DaemonStep /\ UNCHANGED <<file, writer, pvars, sup, emits>>
Daemon == DaemonRuns \/ ((ReadError \/ Restart) /\ UNCHANGED <<file, writer, pvars, sup, emits>>)

ONext == SupStart \/ Event \/ Loss \/ SupEnds \/ Perturb \/ Daemon
OSpec == OInit /\ [][ONext]_ovars
(* The tick hook runs in every pass of the server's poll loop.                        *)
OFairSpec == OSpec /\ WF_ovars(DaemonRuns)

(* ---- What the log and the daemon promise ---- *)
(* Faults that leave every complete record readable on a line of its own.              *)
Harmless == {"write", "fsync", "flush", "overlap"}

(* "Restarts never reset or duplicate the sequence" (event_log.hpp): through crashes     *)
(* at any point, failed writes and records cut before their level, the supervisor's      *)
(* complete records are numbered 1, 2, 3...  A failed fsync, or a cut record that         *)
(* swallows the next one, is what breaks the promise.                                    *)
SequenceKept ==
  hurt \cap ({"fsync"} \cup Swallows) = {} =>
    \A i \in DOMAIN file :
      i \in Numbered("supervisor", i) => file[i].seq = Cardinality(Numbered("supervisor", i))

(* event_log_gaps_total accuses no component wrongly: on one pass over the log a gap is   *)
(* only counted after a failed fsync, a cut record that swallowed another, or two          *)
(* invocations whose scans saw the same log.                                               *)
GapsExplained ==
  opens <= 1 /\ hurt \cap ({"fsync", "overlap"} \cup Swallows) = {} =>
    \A r \in Readers, k \in LogKeys : rd[r].gaps[k] = 0 /\ gapsShown[k] = 0

(* Sequence numbers do what they are for: complete records are numbered without a hole, and *)
(* a reader sees a gap only where there is one.                                           *)
LogNumbered == SequenceKept /\ GapsExplained

(* The counter of the core property is neither falsified nor silenced: each loss the       *)
(* supervisor logged is counted once by the time the scan has caught up, whatever else      *)
(* is written in between, across restarts of supervisor and daemon and failed fsyncs.       *)
LossExact ==
  hurt \subseteq Harmless \ {"write"} /\ rd["loss"].open /\ rd["loss"].pos = Len(file)
    => dataLoss = emits

(* Whatever is torn, glued or interrupted, each pass over the log counts a loss at most      *)
(* once.  A reopen starts another pass, and everything is added again.                       *)
LossNeverInvented == dataLoss <= opens * emits

(* The invocations with an event log that delivered all their signals.                      *)
CarriedOut(steps) ==
  {a \in Invocations :
     /\ actor[a].logging /\ actor[a].pc \in steps
     /\ sent[a] = Signals(actor[a].cat, actor[a].to, actor[a].second)}
(* A perturbation is counted only if it was carried out in full, once per pass.             *)
AppliedWasSent ==
  applied <= opens * Cardinality(CarriedOut({"append", "exit0"}))

(* On each pass over the log the counters add no more than happened, whatever is torn or    *)
(* interrupted, with log, readers and processes in their types.  The bound is per pass: a   *)
(* poll failure closes the readers, the next cycle opens them at the start of the log and    *)
(* counts it all again without resetting a counter, see CountedOnce.                        *)
CountersHonest == OTypeOK /\ LossNeverInvented /\ AppliedWasSent

(* What event_metrics.hpp says of a failed poll, "the reader's watermark and continuity     *)
(* state provide resume": the counters never show more than happened.  The daemon resumes   *)
(* from the start of the log instead.                                                       *)
CountedOnce ==
  dataLoss <= emits /\ applied <= Cardinality(CarriedOut({"append", "exit0"}))

Losses == Cardinality({i \in DOMAIN file : file[i].what = "loss" /\ file[i].cut = "none"})

(* Losses in the log reach /metrics and /health, unless a record was cut or a read failed.  *)
LossSurfaces ==
  \A n \in 1 .. 2 : Losses >= n ~> (dataLoss >= n \/ ~(hurt \subseteq Harmless))

(* ---- The inductive invariant ---- *)
(* Who has the log open.                                                                    *)
WritersOpen ==
  /\ writer["supervisor"].open => sup # "down"
  /\ \A a \in Invocations : writer[a].open <=> actor[a].pc = "append"
  /\ \A a \in Invocations : actor[a].pc \in {"log", "append"} => actor[a].logging

(* The fragments of a kind among the first n.                                               *)
Fragments(what, n) == {i \in 1 .. n : file[i].what = what}

(* Where the readers are.  Both are opened together, and before that they are new.           *)
Positions ==
  /\ \A r \in Readers : rd[r].pos <= Len(file) /\ (rd[r].open => opens > 0)
  /\ opens = 0 => /\ rd = [r \in Readers |-> NewReader] /\ dataLoss = 0 /\ applied = 0
                  /\ gapsShown = [k \in LogKeys |-> 0]

(* On the first pass over an unbroken log a reader expects the number that comes.             *)
Expecting ==
  opens <= 1 /\ (\A k \in LogKeys : Unbroken(k)) =>
    \A r \in Readers, k \in LogKeys :
      /\ rd[r].gaps[k] = 0 /\ gapsShown[k] = 0
      /\ rd[r].open => rd[r].expected[k] = Cardinality(Numbered(k, rd[r].pos)) + 1

(* Every emitted loss, and every perturbation logged, has at most one fragment, and a pass    *)
(* counts each fragment it has passed at most once.                                         *)
CountedLoss ==
  /\ Cardinality(Fragments("loss", Len(file))) <= emits
  /\ dataLoss <= opens * emits
  /\ rd["loss"].open => dataLoss <= (opens - 1) * emits + Cardinality(Fragments("loss", rd["loss"].pos))
CountedApplied ==
  LET done == Cardinality(CarriedOut({"exit0"})) IN
  /\ IsFiniteSet(CarriedOut({"append", "exit0"}))
  /\ Cardinality(Fragments("applied", Len(file))) <= done
  /\ applied <= opens * done
  /\ rd["collector"].open =>
       applied <= (opens - 1) * done + Cardinality(Fragments("applied", rd["collector"].pos))

(* Without cuts, lost writes and read errors the loss counter is what the reader has passed.   *)
Exact ==
  hurt \subseteq Harmless \ {"write"} =>
    /\ Cardinality(Fragments("loss", Len(file))) = emits
    /\ rd["loss"].open <=> rd["collector"].open
    /\ dataLoss = IF rd["loss"].open THEN Cardinality(Fragments("loss", rd["loss"].pos)) ELSE 0

OInd ==
  /\ OTypeOK /\ LogInd /\ PerturbInd /\ WritersOpen /\ Positions /\ Expecting
  /\ CountedLoss /\ CountedApplied /\ Exact
=============================================================================
