---------------------------- MODULE MCHttpServer ----------------------------
(* The HTTP server with two slots and heads of two pieces.                   *)
EXTENDS HttpServer

Calm == [conns |-> 2, pieces |-> 2, kinds |-> {"x", "keep"}, hangups |-> 0, faults |-> 0, stops |-> 0]

(* More clients than slots; a client that sends anything, hangs up and meets *)
(* failing calls; two pipelining clients; a stop.                            *)
AllScenarios ==
  {[Calm EXCEPT !.conns = 3],
   [Calm EXCEPT !.conns = 1, !.pieces = 4, !.kinds = Ends \cup {"x"}, !.hangups = 1, !.faults = 1],
   [Calm EXCEPT !.pieces = 3],
   [Calm EXCEPT !.kinds = {"keep", "bad"}, !.hangups = 1, !.faults = 1, !.stops = 1]}
=============================================================================
