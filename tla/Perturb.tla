------------------------------- MODULE Perturb -------------------------------
(* The perturbation harness: invocations that signal a process, record the   *)
(* action in the replay log and then in the event log, one call per step, and *)
(* a replay that issues a recorded log again.                                 *)
EXTENDS EventLog, SequencesExt

CONSTANTS Targets,     \* processes that can be signalled
          RecordedLogs, \* replay logs left by earlier invocations
          Remaps,       \* --target-remap arguments: target -> target
          Milli         \* clock ticks of a log in a millisecond, which a replay sleeps in
VARIABLES actor,   \* invocation or replay -> step, category, targets
          target,  \* process -> running, dying or reaped
          sent,    \* actor -> <<category, target>> delivered, in order (history)
          out,     \* the replay log
          replay   \* parsed entries left, first timestamp, time slept

pvars == <<actor, target, sent, out, replay>>

Actors == Invocations \cup {"replay"}
(* The four shapes of an action: a fatal signal with a fallback, one that the  *)
(* target survives (stall, recover-stall, corrupt), two fatal signals, and one *)
(* at the supervisor, which the event log does not count.                      *)
Categories == {"crash", "stall", "double-fault", "supervisor-kill"}
Fatal == Categories \ {"stall"}
Counted == Categories \ {"supervisor-kill"}
NoTime == 0

PSteps == {"idle", "signal", "fallback", "second", "record", "log", "append", "next",
           "exit0", "exit1", "refused"}

Header == [cat |-> "_header", to |-> "none", second |-> "none", ts |-> NoTime, by |-> "none"]
EntryBy(who) == [cat : Categories, to : Targets, second : Targets, ts : Nat \ {NoTime}, by : who]
ReplayLog == Seq({Header} \cup EntryBy(Invocations \cup {"none"}))

ASSUME PerturbAssumption ==
  /\ Invocations \cap {"replay", "none"} = {}
  /\ Targets # {} /\ Milli \in Nat \ {0}
  /\ Remaps \subseteq [Targets -> Targets] /\ Remaps # {}
  /\ RecordedLogs \subseteq Seq({Header} \cup EntryBy({"none"}))

ActorRecord ==
  [pc : PSteps, cat : Categories, to : Targets, second : Targets, logging : BOOLEAN]
ReplayRecord ==
  [todo : ReplayLog, log : ReplayLog, base : Nat, slept : Nat, remap : Remaps]
PTypeOK ==
  /\ actor \in [Actors -> ActorRecord]
  /\ target \in [Targets -> {"running", "dying", "gone"}]
  /\ sent \in [Actors -> Seq(Categories \X Targets)]
  /\ out \in ReplayLog
  /\ replay \in ReplayRecord

Idle == [pc |-> "idle", cat |-> "crash", to |-> CHOOSE t \in Targets : TRUE,
         second |-> CHOOSE t \in Targets : TRUE, logging |-> FALSE]

PInit ==
  /\ actor = [a \in Actors |-> Idle]
  /\ target = [t \in Targets |-> "running"]
  /\ sent = [a \in Actors |-> <<>>]
  /\ out \in RecordedLogs
  /\ replay = [todo |-> <<>>, base |-> NoTime, slept |-> 0, log |-> <<>>,
               remap |-> CHOOSE m \in Remaps : TRUE]

Move(a, pc) == actor' = [actor EXCEPT ![a].pc = pc]

(* parse_invocation gave a category, one target (two for a double fault) and     *)
(* maybe an event log; the sink is opened and the schema header written, and the *)
(* result of that write is not looked at.                                       *)
Requests ==
  {r \in [pc : {"signal"}, cat : Categories, to : Targets, second : Targets, logging : BOOLEAN] :
     (r.cat # "double-fault" => r.second = r.to) /\ (r.cat \notin Counted => ~r.logging)}
Invoke(a, request) ==
  /\ actor[a].pc = "idle" /\ a # "replay"
  /\ actor' = [actor EXCEPT ![a] = request]
  /\ out' = Append(out, Header)
  /\ UNCHANGED <<target, sent, replay>>
SinkFails(a) ==
  /\ actor[a].pc = "idle" /\ a # "replay"
  /\ Move(a, "exit1")
  /\ UNCHANGED <<target, sent, out, replay>>

(* Variants: a failed signal is taken for delivered; a replay goes on after it.   *)
FailedIgnored(a) == "record"
FailedGoesOn(a) == IF a = "replay" THEN "next" ELSE "exit1"
(* A failed SIGSEGV is followed by SIGKILL; any other failure ends the action.     *)
Failed(a) == IF actor[a].pc = "signal" /\ actor[a].cat = "crash" THEN "fallback" ELSE "exit1"
Victim(a) == IF actor[a].pc = "second" THEN actor[a].second ELSE actor[a].to
Delivered(a) ==
  IF actor[a].pc = "signal" /\ actor[a].cat = "double-fault" THEN "second" ELSE "record"

(* kill(2) of crash, stall, double_fault, kill_supervisor: accepted for a process  *)
(* that is not reaped yet, refused (ESRCH) for one that is.                        *)
SendSignal(a) ==
  LET to == Victim(a) IN
  /\ actor[a].pc \in {"signal", "fallback", "second"}
  /\ \/ /\ target[to] # "gone"
        /\ sent' = [sent EXCEPT ![a] = Append(@, <<actor[a].cat, to>>)]
        /\ target' = IF actor[a].cat \in Fatal THEN [target EXCEPT ![to] = "dying"] ELSE target
        /\ Move(a, Delivered(a))
     \/ /\ target[to] = "gone"
        /\ Move(a, Failed(a))
        /\ UNCHANGED <<sent, target>>
  /\ UNCHANGED <<out, replay>>
(* The parent reaps it.                                                            *)
Reap(t) ==
  /\ target[t] = "dying"
  /\ target' = [target EXCEPT ![t] = "gone"]
  /\ UNCHANGED <<actor, sent, out, replay>>

RecordEntry(a, ts) ==
  [cat |-> actor[a].cat, to |-> actor[a].to, second |-> actor[a].second, ts |-> ts, by |-> a]
(* record_action: no sink in a replay; a lost flush is not noticed.              *)
RecordAction(a, lost, ts) ==
  /\ actor[a].pc = "record"
  /\ out' = IF a = "replay" \/ lost THEN out
            ELSE Append(out, RecordEntry(a, ts))
  /\ Move(a, IF a = "replay" THEN "next" ELSE IF actor[a].logging THEN "log" ELSE "exit0")
  /\ UNCHANGED <<target, sent, replay>>
(* A short fwrite: the action has been carried out and counts as failed.         *)
RecordFails(a) ==
  /\ actor[a].pc = "record" /\ a # "replay"
  /\ Move(a, "exit1")
  /\ UNCHANGED <<target, sent, out, replay>>

(* The event-log record of a counted category: a failure is reported, not fatal. *)
LogOpen(a) ==
  /\ actor[a].pc = "log"
  /\ \/ Open(a) /\ Move(a, "append")
     \/ OpenFails(a) /\ Move(a, "exit0")
  /\ hurt' = IF \E b \in Invocations \ {a} : writer[b].open THEN hurt \cup {"overlap"} ELSE hurt
  /\ UNCHANGED <<file, target, sent, out, replay>>
LogAppend(a, ok) ==
  /\ actor[a].pc = "append"
  /\ IF ok THEN Written(a, "applied") ELSE AppendFails(a, "applied")
  /\ Close(a)
  /\ Move(a, "exit0")
  /\ UNCHANGED <<target, sent, out, replay>>

(* ---- Replay ---- *)
(* A log without a schema header is refused.                                     *)
parse_replay_log == Contains(out, Header)
(* run_replay_command reads the whole log before the first action.               *)
StartReplay ==
  /\ actor["replay"].pc = "idle"
  /\ \/ /\ parse_replay_log
        /\ \E m \in Remaps :
             replay' = [replay EXCEPT !.todo = out, !.log = out, !.remap = m]
        /\ Move("replay", "next")
     \/ ~parse_replay_log /\ Move("replay", "refused") /\ UNCHANGED replay
  /\ UNCHANGED <<target, sent, out>>

(* replay_entries sleeps the whole offset from the first entry before each of     *)
(* the later ones, in whole milliseconds.                                        *)
Delay(ts) == IF ts > replay.base THEN ((ts - replay.base) \div Milli) * Milli ELSE 0

(* replay_entries, one entry per step up to its action.                          *)
ReplayNext ==
  /\ actor["replay"].pc = "next" /\ replay.todo # <<>>
  /\ LET e == Head(replay.todo) IN
     \/ /\ e = Header
        /\ replay' = [replay EXCEPT !.todo = Tail(@)]
        /\ UNCHANGED actor
     \/ /\ e # Header
        /\ replay' = [replay EXCEPT !.todo = Tail(@),
                                    !.base = IF @ = NoTime THEN e.ts ELSE @,
                                    !.slept = IF replay.base = NoTime THEN @ ELSE @ + Delay(e.ts)]
        /\ actor' = [actor EXCEPT !["replay"] =
                       [@ EXCEPT !.pc = "signal", !.cat = e.cat, !.to = replay.remap[e.to],
                                 !.second = replay.remap[e.second]]]
  /\ UNCHANGED <<target, sent, out>>
ReplayEnds ==
  /\ actor["replay"].pc = "next" /\ replay.todo = <<>>
  /\ Move("replay", "exit0")
  /\ UNCHANGED <<target, sent, out, replay>>

(* ---- What the harness promises ---- *)
(* The signals an action delivers when it succeeds.                               *)
Signals(cat, to, second) ==
  IF cat = "double-fault" THEN <<<<cat, to>>, <<cat, second>>>> ELSE <<<<cat, to>>>>

(* "Each sends its signal(s) first and records exactly one line on success; a      *)
(* failed action records nothing" (harness.hpp): whatever order invocations take    *)
(* and whoever dies in between, an entry of the replay log is by an invocation      *)
(* whose signals were all delivered, an invocation has at most one, and one that    *)
(* exits with 1 has none.                                                           *)
RecordedWasSent ==
  \A i \in DOMAIN out :
    out[i].by \in Invocations =>
      LET a == out[i].by IN
      /\ sent[a] = Signals(out[i].cat, out[i].to, out[i].second)
      /\ actor[a].pc \in {"log", "append", "exit0"}
      /\ \A j \in DOMAIN out : out[j].by = a => i = j

(* An exit code of 0 means the action was carried out in full, and that it can be   *)
(* replayed unless the flush of its entry failed unnoticed; an event-log record is   *)
(* only ever written for such an action.                                             *)
ExitCodeTells ==
  \A a \in Invocations :
    actor[a].pc \in {"log", "append", "exit0"} =>
      /\ sent[a] = Signals(actor[a].cat, actor[a].to, actor[a].second)
      /\ "flush" \in hurt \/ \E i \in DOMAIN out : out[i].by = a

(* The log and the exit code of the harness tell the truth about what it did.        *)
HarnessHonest == RecordedWasSent /\ ExitCodeTells

(* The signals that the first n recorded actions stand for, as pairs of an entry and    *)
(* the first or second signal of it; which signal that is, and its place among all.      *)
Planned(n) ==
  {q \in (1 .. n) \X {1, 2} :
     replay.log[q[1]] # Header /\ (q[2] = 2 => replay.log[q[1]].cat = "double-fault")}
Call(q) ==
  LET e == replay.log[q[1]] IN <<e.cat, replay.remap[IF q[2] = 1 THEN e.to ELSE e.second]>>
Place(q) == Cardinality(Planned(q[1] - 1)) + q[2]

(* A replay delivers the recorded actions in the order of the log, to the remapped   *)
(* targets, skipping none: what it has delivered is always a prefix of the recorded  *)
(* signals, also after a target was already gone, and all of them when it exits 0.    *)
ReplayFaithful ==
  LET all == Planned(Len(replay.log)) IN
  /\ Len(sent["replay"]) <= Cardinality(all)
  /\ \A q \in all : Place(q) <= Len(sent["replay"]) => sent["replay"][Place(q)] = Call(q)
  /\ actor["replay"].pc = "exit0" => Len(sent["replay"]) = Cardinality(all)

(* The action under way and its offset in the log, "ts - first action ts".             *)
Acting == actor["replay"].pc \in {"signal", "fallback", "second"}
Offset == LET i == Len(replay.log) - Len(replay.todo) IN
          IF replay.log[i].ts > replay.base THEN replay.log[i].ts - replay.base ELSE 0

(* No action is replayed a millisecond or more before its offset in the log, also      *)
(* when the recorded clock stepped back; less than one it may be, as the sleep is cut  *)
(* to whole milliseconds, and late it may be, see ReplayAtOffsets.                     *)
ReplayNeverEarly == Acting => replay.slept + Milli > Offset

(* A replay repeats the recorded campaign: the same signals in the same order, none   *)
(* a millisecond before its time.                                                    *)
ReplayOK == ReplayFaithful /\ ReplayNeverEarly

(* The contract of replay_entries, to re-issue the log "at relative time offsets (ts -  *)
(* first action ts)": to the millisecond, nothing is late either.  The code sleeps the  *)
(* whole offset again before every entry, so that the third action is late already.     *)
ReplayAtOffsets == Acting => replay.slept <= Offset

(* ---- The inductive invariant of the harness ---- *)
(* What an invocation has delivered at each of its steps, and what it has recorded.      *)
Signalled ==
  \A a \in Invocations :
    LET me == actor[a] IN
    /\ me.pc \notin {"next", "refused"}
    /\ me.pc \in {"idle", "signal", "fallback"} => sent[a] = <<>>
    /\ me.pc = "fallback" => me.cat = "crash"
    /\ me.pc = "second" => me.cat = "double-fault" /\ sent[a] = <<<<me.cat, me.to>>>>
    /\ me.pc \in {"record", "log", "append", "exit0"} => sent[a] = Signals(me.cat, me.to, me.second)
Recorded ==
  /\ \A i \in DOMAIN out : out[i].by \in Invocations =>
       LET me == actor[out[i].by] IN
       /\ me.pc \in {"log", "append", "exit0"}
       /\ out[i].cat = me.cat /\ out[i].to = me.to /\ out[i].second = me.second
       /\ \A j \in DOMAIN out : out[j].by = out[i].by => i = j
  /\ \A a \in Invocations : actor[a].pc \in {"log", "append", "exit0"} =>
       "flush" \in hurt \/ \E i \in DOMAIN out : out[i].by = a

(* How far a replay is: what is left of the log, the action under way, and how many       *)
(* signals it has delivered.                                                              *)
Taken == Len(replay.log) - Len(replay.todo)
ReplayAt ==
  LET me == actor["replay"] IN
  /\ Taken \in Nat /\ \A j \in DOMAIN replay.todo : replay.todo[j] = replay.log[Taken + j]
  /\ me.pc \in {"idle", "refused"} => replay.log = <<>>
  /\ me.pc \notin {"log", "append"}
  /\ me.pc \in {"signal", "fallback", "second", "record"} =>
       /\ Taken > 0 /\ replay.log[Taken] # Header
       /\ me.cat = replay.log[Taken].cat /\ me.to = replay.remap[replay.log[Taken].to]
       /\ me.second = replay.remap[replay.log[Taken].second]
  /\ me.pc = "fallback" => me.cat = "crash"
  /\ me.pc = "second" => me.cat = "double-fault"
  /\ me.pc = "exit0" => replay.todo = <<>>
ReplaySent ==
  LET n == Len(sent["replay"])
      before == Cardinality(Planned(Taken - 1)) IN
  /\ actor["replay"].pc \in {"idle", "next", "refused", "record", "exit0"} => n = Cardinality(Planned(Taken))
  /\ actor["replay"].pc \in {"signal", "fallback"} => n = before
  /\ actor["replay"].pc = "second" => n = before + 1
PerturbInd == PTypeOK /\ Signalled /\ Recorded /\ ReplayAt /\ ReplaySent /\ ReplayFaithful /\ ReplayNeverEarly
=============================================================================
