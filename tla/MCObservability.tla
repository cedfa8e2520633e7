--------------------------- MODULE MCObservability ---------------------------
(* The event log, its writers and the daemon, with the scenarios below.       *)
EXTENDS Observability

Crash1 == {[pc |-> "signal", cat |-> "crash", to |-> "w1", second |-> "w1", logging |-> TRUE]}
Quiet == [starts |-> 0, events |-> 0, losses |-> 0, invocations |-> 0, requests |-> Crash1,
          wfaults |-> 0, flushes |-> 0, rfaults |-> 0, restarts |-> 0, replay |-> 0, daemon |-> TRUE]

(* A failing disk under a supervisor that restarts; the same with an invocation *)
(* in between; a read error and a restart of the daemon; two invocations of one *)
(* action; two of any with no daemon; a replay.                                 *)
AllScenarios ==
  {[Quiet EXCEPT !.starts = 2, !.events = 1, !.losses = 2, !.wfaults = 2],
   [Quiet EXCEPT !.starts = 2, !.losses = 2, !.invocations = 1, !.wfaults = 1],
   [Quiet EXCEPT !.starts = 1, !.events = 1, !.losses = 2, !.rfaults = 2, !.restarts = 1],
   [Quiet EXCEPT !.invocations = 2],
   [Quiet EXCEPT !.invocations = 2, !.requests = Requests, !.flushes = 1, !.daemon = FALSE],
   [Quiet EXCEPT !.replay = 1, !.daemon = FALSE]}
(* One loss and one read error; a replay.                                       *)
OneReadError == {[Quiet EXCEPT !.starts = 1, !.losses = 1, !.rfaults = 1]}
OneReplay == {[Quiet EXCEPT !.replay = 1, !.daemon = FALSE]}

Entry(cat, to, second, ts) ==
  [cat |-> cat, to |-> to, second |-> second, ts |-> ts, by |-> "none"]
(* Three entries less than a millisecond apart and more, the clock stepping back  *)
(* in one log; a double fault before an action on a dead target; a log without    *)
(* its header.                                                                    *)
SomeLogs ==
  {<<>>,
   <<Header, Entry("stall", "w1", "w1", 1), Header, Entry("stall", "w1", "w1", 3),
     Header, Entry("crash", "w1", "w1", 6)>>,
   <<Header, Entry("stall", "w1", "w1", 3), Entry("stall", "w2", "w2", 1), Entry("crash", "w2", "w2", 5)>>,
   <<Header, Entry("double-fault", "w1", "w2", 2), Entry("crash", "w2", "w2", 3)>>,
   <<Entry("stall", "w1", "w1", 1)>>}
(* Three actions, a whole number of milliseconds apart.                           *)
WholeMillis == {<<Header, Entry("stall", "w1", "w1", 1), Entry("stall", "w1", "w1", 3),
                  Entry("stall", "w1", "w1", 5)>>}
Swap == {[t \in {"w1", "w2"} |-> t], [t \in {"w1", "w2"} |-> IF t = "w1" THEN "w2" ELSE "w1"]}
=============================================================================
