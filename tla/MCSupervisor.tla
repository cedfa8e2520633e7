---------------------------- MODULE MCSupervisor ----------------------------
(* The supervisor, model-checked with the scenarios below.                   *)
EXTENDS Supervisor

About(p, n) == [q \in Physical |-> IF q = p THEN n ELSE 0]
NoFaults == [claims |-> 1, crashes |-> 0, stops |-> 0, alerts |-> About(0, 0),
             crashing |-> Physical, stopping |-> Physical, midpush |-> FALSE,
             finishes |-> FALSE, forkfails |-> FALSE, eof |-> FALSE, spurious |-> FALSE, prompt |-> FALSE]

(* A crash between two records; three crashes; two inside a push, with failing  *)
(* forks and a dying monitor; one and clean exits; a stop of a worker, a crash    *)
(* and an alert about it at any moment.                                         *)
Safety ==
  {[NoFaults EXCEPT !.claims = 2, !.crashes = 1],
   [NoFaults EXCEPT !.crashes = 3],
   [NoFaults EXCEPT !.crashes = 2, !.midpush = TRUE, !.forkfails = TRUE, !.eof = TRUE],
   [NoFaults EXCEPT !.crashes = 1, !.finishes = TRUE]}
  \union {[NoFaults EXCEPT !.crashes = 1, !.stops = 1, !.stopping = {p}, !.alerts = About(p, 1),
                       !.spurious = TRUE] :
            p \in Physical}

(* Worker p is stopped, with as many alerts as it takes, and worker A crashes,  *)
(* which opens a handoff window.                                                *)
StopAndCrash(p) ==
  [NoFaults EXCEPT !.claims = 0, !.crashes = 1, !.crashing = {0}, !.stops = 1, !.stopping = {p},
                   !.alerts = About(p, 2), !.prompt = TRUE]

(* A crash, also inside a push; a stop of a hot worker, without and with a crash. *)
Recovery ==
  {[NoFaults EXCEPT !.crashes = 1, !.midpush = TRUE, !.prompt = TRUE], StopAndCrash(1), StopAndCrash(2)}
  \union {[NoFaults EXCEPT !.stops = 1, !.stopping = {p}, !.alerts = About(p, 2), !.prompt = TRUE] :
            p \in HotRings}

TwoCrashes == {[NoFaults EXCEPT !.crashes = 2, !.prompt = TRUE]}
StopInWindow == {StopAndCrash(1)}
=============================================================================
