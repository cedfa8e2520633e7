----------------------------- MODULE HttpServer -----------------------------
(* The daemon's single-threaded HTTP server: the poll loop of               *)
(* HttpServer::run with its fixed connection table, descriptors that the     *)
(* kernel hands out again as soon as they are free, readiness that is stale   *)
(* by the time it is used, request and idle timeouts, pipelined requests, and *)
(* clients that send, stall and hang up at any moment.                        *)
(* Bytes are pieces: "x" is a part of a head, the other kinds end one.        *)
EXTENDS Naturals, Sequences, FiniteSets, FiniteSetsExt, SequencesExt

CONSTANTS MaxConns,     \* clients that connect, in turn
          Cap,          \* kMaxConnections
          HeadCap,      \* kHeadCapacity, in pieces
          Scenarios     \* what clients and system may do in a behaviour
ASSUME HttpAssumption == MaxConns \in Nat \ {0} /\ Cap \in Nat \ {0} /\ HeadCap \in Nat \ {0}

VARIABLES conn,    \* client -> its socket, what it sent and what it got
          slot,    \* connections_: client behind the fd (0: none), fd, buffer, timer run out
          live,    \* live_connections_
          pfds,    \* descriptors poll reported and run has still to look at
          listenReady,
          pc, cur, \* step of run, slot it serves
          stop,    \* g_stop
          plan,    \* budgets that are left
          failed   \* a system call has failed (history)

hvars == <<conn, slot, live, pfds, listenReady, pc, cur, stop, plan, failed>>

Conns == 1 .. MaxConns
Slots == 1 .. Cap
Ends == {"keep", "close", "bad"}
Piece == [kind : Ends \cup {"x"}, of : Conns, n : Nat]
Response == [status : {"ok", "400", "408", "431", "cut"}, of : Conns, n : Nat]

HttpTypeOK ==
  /\ \A c \in Conns :
       /\ conn[c].st \in {"none", "queued", "refused", "open", "closed"}
       /\ \A i \in DOMAIN conn[c].inq : conn[c].inq[i] \in Piece
       /\ \A i \in DOMAIN conn[c].got : conn[c].got[i] \in Response
       /\ conn[c].asked \in Nat /\ conn[c].run \in Nat /\ conn[c].eof \in BOOLEAN /\ conn[c].tame \in BOOLEAN
  /\ \A s \in Slots : /\ slot[s].of \in Conns \cup {0} /\ slot[s].fd \in 0 .. Cap
                      /\ Len(slot[s].buf) <= HeadCap /\ slot[s].late \in BOOLEAN
  /\ live \in 0 .. Cap /\ cur \in Slots \cup {0}
  /\ pc \in {"poll", "polled", "accept", "read", "serve", "done", "closed"}

NoConn == [st |-> "none", inq |-> <<>>, eof |-> FALSE, asked |-> 0, run |-> 0, got |-> <<>>,
           tame |-> TRUE]
Free == [of |-> 0, fd |-> 0, buf |-> <<>>, late |-> FALSE]

HttpInit ==
  /\ conn = [c \in Conns |-> NoConn] /\ slot = [s \in Slots |-> Free]
  /\ live = 0 /\ pfds = <<>> /\ listenReady = FALSE /\ pc = "poll" /\ cur = 0
  /\ stop = FALSE /\ plan \in Scenarios /\ failed = FALSE

Spend(what) == plan[what] > 0 /\ plan' = [plan EXCEPT ![what] = @ - 1]
Fault == Spend("faults") /\ failed' = TRUE
NoFault == UNCHANGED <<plan, failed>>

(* ---- Clients, the clock and the signal handler ---- *)
Connect(c) ==
  /\ conn[c].st = "none" /\ \A b \in 1 .. c - 1 : conn[b].st # "none"
  /\ pc \notin {"done", "closed"} /\ Spend("conns")
  /\ conn' = [conn EXCEPT ![c].st = "queued"]
  /\ UNCHANGED <<slot, live, pfds, listenReady, pc, cur, stop, failed>>
Send(c, kind) ==
  /\ conn[c].st \in {"queued", "open"} /\ ~conn[c].eof
  /\ kind \in plan.kinds /\ Spend("pieces")
  /\ LET r == conn[c]
         run == IF kind = "x" THEN r.run + 1 ELSE 0
     IN conn' = [conn EXCEPT ![c] =
                   [r EXCEPT !.inq = Append(r.inq, [kind |-> kind, of |-> c, n |-> r.asked + 1]),
                             !.run = run, !.asked = IF kind = "x" THEN r.asked ELSE r.asked + 1,
                             !.tame = r.tame /\ kind \in {"x", "keep"} /\ run < HeadCap]]
  /\ UNCHANGED <<slot, live, pfds, listenReady, pc, cur, stop, failed>>
HangUp(c) ==
  /\ conn[c].st \in {"queued", "open"} /\ ~conn[c].eof
  /\ conn' = [conn EXCEPT ![c].eof = TRUE, ![c].tame = FALSE]
  /\ Spend("hangups")
  /\ UNCHANGED <<slot, live, pfds, listenReady, pc, cur, stop, failed>>
(* The timer that counts runs out: since last_activity_ns for an empty buffer, *)
(* since first_byte_ns for a request under way.                                *)
Elapse(s) ==
  /\ slot[s].of # 0 /\ ~slot[s].late
  /\ slot' = [slot EXCEPT ![s].late = TRUE]
  /\ conn' = [conn EXCEPT ![slot[s].of].tame = FALSE]
  /\ UNCHANGED <<live, pfds, listenReady, pc, cur, stop, plan, failed>>
RequestStop ==
  /\ ~stop /\ stop' = TRUE /\ Spend("stops")
  /\ UNCHANGED <<conn, slot, live, pfds, listenReady, pc, cur, failed>>

(* ---- Connection table ---- *)
(* Variant: the counter is left alone.                                           *)
LiveAfterLeaks(closing) == live
LiveAfter(closing) == live - Cardinality(closing)
(* close_connection on each of the slots, with what was sent just before.         *)
CloseSlots(closing, told) ==
  /\ slot' = [s \in Slots |-> IF s \in closing THEN Free ELSE slot[s]]
  /\ live' = LiveAfter(closing)
  /\ conn' = [c \in Conns |->
                IF \E s \in closing : slot[s].of = c
                THEN [conn[c] EXCEPT !.st = "closed", !.got = @ \o told[c], !.inq = <<>>, !.run = 0]
                ELSE conn[c]]
Silent == [c \in Conns |-> <<>>]
Status(st, p) == <<[status |-> st, of |-> p.of, n |-> p.n]>>

(* ---- HttpServer::run ---- *)
Ready(s) == slot[s].of # 0 /\ (conn[slot[s].of].inq # <<>> \/ conn[slot[s].of].eof)
(* poll, after the loop's check of the stop flag.  It returns on readiness or     *)
(* after kPollTickMs, so it may return with nothing ready.                        *)
Poll ==
  /\ pc = "poll"
  /\ \/ /\ stop /\ pc' = "done" /\ UNCHANGED <<pfds, listenReady>> /\ NoFault
     \/ /\ ~stop /\ pc' = "polled"
        /\ pfds' = [i \in 1 .. Cardinality({s \in Slots : Ready(s)}) |->
                      slot[CHOOSE s \in Slots : Ready(s) /\
                             Cardinality({t \in 1 .. s : Ready(t)}) = i].fd]
        /\ listenReady' = (\E c \in Conns : conn[c].st = "queued")
        /\ NoFault
     \/ /\ ~stop /\ Fault                                          \* a poll error ends run
        /\ pc' = "done" /\ UNCHANGED <<pfds, listenReady>>
  /\ UNCHANGED <<conn, slot, live, cur, stop>>

(* Variant: only connections without a request under way time out.                *)
TimedOutIdle == {s \in Slots : slot[s].of # 0 /\ slot[s].late /\ slot[s].buf = <<>>}
TimedOut == {s \in Slots : slot[s].of # 0 /\ slot[s].late}
(* apply_timeouts: 408 for a request under way, nothing for an idle connection;    *)
(* then the tick hook, which is the daemon's poll cycle.                           *)
Timeouts ==
  /\ pc = "polled"
  /\ \/ stop /\ pc' = "done" /\ UNCHANGED <<conn, slot, live>>
     \/ /\ ~stop /\ pc' = "accept"
        /\ CloseSlots(TimedOut, [c \in Conns |->
             IF \E s \in TimedOut : slot[s].of = c /\ slot[s].buf # <<>>
             THEN <<[status |-> "408", of |-> c, n |-> 0]>> ELSE <<>>])
  /\ UNCHANGED <<pfds, listenReady, cur, stop, plan, failed>>

Queued == {c \in Conns : conn[c].st = "queued"}
LowestFd == Min(Slots \ {slot[s].fd : s \in Slots})
MayAccept == live < Cap
(* accept_pending: over the cap a client is accepted and closed; else it gets the   *)
(* lowest free descriptor and the first free slot.                                 *)
Accept ==
  /\ pc = "accept"
  /\ \/ /\ ~listenReady \/ Queued = {}
        /\ pc' = "read" /\ UNCHANGED <<conn, slot, live>> /\ NoFault
     \/ /\ listenReady /\ Queued # {} /\ Fault
        /\ pc' = "read" /\ UNCHANGED <<conn, slot, live>>         \* accept4 fails
     \/ /\ listenReady /\ Queued # {} /\ ~MayAccept
        /\ conn' = [conn EXCEPT ![Min(Queued)].st = "refused", ![Min(Queued)].inq = <<>>]
        /\ UNCHANGED <<slot, live, pc>> /\ NoFault
     \/ /\ listenReady /\ Queued # {} /\ MayAccept
        /\ LET s == Min({t \in Slots : slot[t].of = 0}) IN
           slot' = [slot EXCEPT ![s] = [Free EXCEPT !.of = Min(Queued), !.fd = LowestFd]]
        /\ conn' = [conn EXCEPT ![Min(Queued)].st = "open"]
        /\ live' = live + 1
        /\ UNCHANGED pc /\ NoFault
  /\ UNCHANGED <<pfds, listenReady, cur, stop>>

(* Variant: no data on a descriptor that was reported ready means the peer is gone.  *)
PeerGoneStale(c, room) == conn[c].inq = <<>> \/ room = 0
(* recv returns 0: the peer closed, or there was no room to read into; a descriptor  *)
(* with nothing to read gives EAGAIN and is left alone.                              *)
PeerGone(c, room) == (conn[c].inq = <<>> /\ conn[c].eof) \/ room = 0
Restarts(s) == slot[s].buf = <<>>
(* One reported descriptor, mapped back to the connection that has it now.            *)
Read ==
  /\ pc = "read"
  /\ \/ pfds = <<>> /\ pc' = "poll" /\ UNCHANGED <<conn, slot, live, pfds, cur>>
     \/ /\ pfds # <<>> /\ pfds' = Tail(pfds)
        /\ LET at == {s \in Slots : slot[s].of # 0 /\ slot[s].fd = Head(pfds)} IN
           \/ at = {} /\ UNCHANGED <<conn, slot, live, pc, cur>>
           \/ \E s \in at :
                LET c == slot[s].of
                    room == HeadCap - Len(slot[s].buf)
                    n == Min({room, Len(conn[c].inq)})
                IN \/ /\ PeerGone(c, room)
                      /\ CloseSlots({s}, Silent) /\ UNCHANGED <<pc, cur>>
                   \/ /\ ~PeerGone(c, room) /\ n = 0
                      /\ UNCHANGED <<conn, slot, live, pc, cur>>
                   \/ /\ ~PeerGone(c, room) /\ n > 0
                      /\ slot' = [slot EXCEPT ![s].buf = @ \o SubSeq(conn[c].inq, 1, n),
                                              ![s].late = @ /\ ~Restarts(s)]
                      /\ conn' = [conn EXCEPT ![c].inq = SubSeq(@, n + 1, Len(@))]
                      /\ cur' = s /\ pc' = "serve" /\ UNCHANGED live
  /\ UNCHANGED <<listenReady, stop, plan, failed>>

EndsAt(buf) == {i \in DOMAIN buf : buf[i].kind # "x"}
TooLarge(buf) == EndsAt(buf) = {} /\ Len(buf) >= HeadCap
(* Variant: the remainder is kept where it was.                                       *)
RemainderStays(buf) == buf
Remainder(buf) == SubSeq(buf, Min(EndsAt(buf)) + 1, Len(buf))

(* Variant: the rest of a pipelined buffer waits for the next readiness.                *)
ServesOnNever(buf) == FALSE
ServesOn(buf) == Remainder(buf) # <<>>

(* send_response may fail on a peer that has gone or reads too slowly (the socket is    *)
(* non-blocking), and leaves a response cut short.                                      *)
SendFails(c) == IF conn[c].eof THEN NoFault ELSE Fault
(* One round of service_connection's loop.                                              *)
Serve ==
  LET buf == slot[cur].buf
      c == slot[cur].of
      e == buf[Min(EndsAt(buf))]
  IN
  /\ pc = "serve"
  /\ \/ /\ EndsAt(buf) = {} /\ ~TooLarge(buf)                       \* needs more bytes
        /\ pc' = "read" /\ cur' = 0 /\ UNCHANGED <<conn, slot, live>> /\ NoFault
     \/ /\ TooLarge(buf)
        /\ CloseSlots({cur}, [Silent EXCEPT ![c] = Status("431", Head(buf))])
        /\ pc' = "read" /\ cur' = 0 /\ NoFault
     \/ /\ EndsAt(buf) # {} /\ e.kind = "bad"
        /\ CloseSlots({cur}, [Silent EXCEPT ![c] = Status("400", e)])
        /\ pc' = "read" /\ cur' = 0 /\ NoFault
     \/ /\ EndsAt(buf) # {} /\ e.kind # "bad" /\ SendFails(c)
        /\ CloseSlots({cur}, [Silent EXCEPT ![c] = Status("cut", e)])
        /\ pc' = "read" /\ cur' = 0
     \/ /\ EndsAt(buf) # {} /\ e.kind = "close"
        /\ CloseSlots({cur}, [Silent EXCEPT ![c] = Status("ok", e)])
        /\ pc' = "read" /\ cur' = 0 /\ NoFault
     \/ /\ EndsAt(buf) # {} /\ e.kind = "keep"
        /\ conn' = [conn EXCEPT ![c].got = @ \o Status("ok", e)]
        /\ slot' = [slot EXCEPT ![cur].buf = Remainder(buf), ![cur].late = FALSE]
        /\ IF ServesOn(buf) THEN UNCHANGED <<pc, cur>> ELSE pc' = "read" /\ cur' = 0
        /\ UNCHANGED live /\ NoFault
  /\ UNCHANGED <<pfds, listenReady, stop>>

(* Variant: only the listener is closed.                                                *)
CloseAllNone == {}
CloseAll == {s \in Slots : slot[s].of # 0}
(* run has returned; HttpServer::close.                                                 *)
CloseServer ==
  /\ pc = "done" /\ pc' = "closed"
  /\ CloseSlots(CloseAll, Silent)
  /\ UNCHANGED <<pfds, listenReady, cur, stop, plan, failed>>

Run == Poll \/ Timeouts \/ Accept \/ Read \/ Serve \/ CloseServer
Clients ==
  \/ \E c \in Conns : Connect(c) \/ HangUp(c) \/ \E kind \in Ends \cup {"x"} : Send(c, kind)
  \/ \E s \in Slots : Elapse(s)
  \/ RequestStop
HttpNext == Run \/ Clients
HttpSpec == HttpInit /\ [][HttpNext]_hvars
(* The loop's thread runs, and time passes.                                              *)
HttpFairSpec == HttpSpec /\ WF_hvars(Run) /\ \A s \in Slots : WF_hvars(Elapse(s))

(* ---- What the server promises ---- *)
Open == {c \in Conns : conn[c].st = "open"}

(* No descriptor and no slot leaks: whatever order clients come, stall and go in,        *)
(* the counter that enforces the cap equals the slots in use, each open client has one    *)
(* slot and a descriptor of its own, and none is left once the server has closed.         *)
NoLeak ==
  /\ live = Cardinality({s \in Slots : slot[s].of # 0})
  /\ Open = {slot[s].of : s \in Slots} \ {0}
  /\ \A s, t \in Slots : slot[s].of # 0 /\ slot[t].of # 0 /\ s # t =>
                           slot[s].of # slot[t].of /\ slot[s].fd # slot[t].fd
  /\ pc = "closed" => Open = {}

(* The connection table: slots, descriptors and the counter agree with each other and     *)
(* with the clients.                                                                      *)
TableOK == HttpTypeOK /\ NoLeak

(* When the loop polls, each buffer has room: recv is never called with length 0, whose   *)
(* result 0 it would take for a closed peer.                                              *)
RoomToRead == pc \in {"poll", "polled", "accept", "read"} =>
                \A s \in Slots : Len(slot[s].buf) < HeadCap

(* A request that has been read in full is answered before the loop polls again: pipelined    *)
(* requests do not wait for more bytes to arrive, or time out with 408 in the buffer.         *)
NoneWaiting == pc = "poll" => \A s \in Slots : EndsAt(slot[s].buf) = {}

(* The loop polls only when every buffer has been worked off and has room.                    *)
BuffersServed == RoomToRead /\ NoneWaiting

(* A client gets the answers to its own requests, one each, in order, through pipelining    *)
(* and reuse of slots and descriptors; an error or a cut response is the last thing it gets. *)
ResponsesMatch ==
  \A c \in Conns : \A i \in DOMAIN conn[c].got :
    LET r == conn[c].got[i] IN
    /\ r.of = c /\ (r.status = "408" \/ r.n = i)
    /\ r.status # "ok" => i = Len(conn[c].got) /\ conn[c].st = "closed"

(* A client that only sends well-formed requests that fit, never hangs up and never lets a     *)
(* timer run out is not closed while the server runs undisturbed: not by a readiness report    *)
(* that belonged to the previous owner of its descriptor, nor by another client's errors.      *)
TameSpared ==
  \A c \in Conns : conn[c].st = "closed" /\ conn[c].tame => pc = "closed" \/ failed

(* No client holds a slot for ever: silent, trickling or stuck, its connection is closed.       *)
SlotsComeBack == \A c \in Conns : conn[c].st = "open" ~> conn[c].st = "closed"

(* SIGTERM ends the loop, with all connections closed.                                            *)
StopsClean == stop ~> (pc = "closed" /\ live = 0)
-----------------------------------------------------------------------------
(* The inductive invariant behind the safety properties.                         *)

ConnRecord == [st : {"none", "queued", "refused", "open", "closed"}, inq : Seq(Piece),
               eof : BOOLEAN, asked : Nat, run : Nat, got : Seq(Response), tame : BOOLEAN]
SlotRecord == [of : Conns \cup {0}, fd : 0 .. Cap, buf : Seq(Piece), late : BOOLEAN]
Used == {s \in Slots : slot[s].of # 0}

Types ==
  /\ conn \in [Conns -> ConnRecord]
  /\ slot \in [Slots -> SlotRecord]
  /\ pc \in {"poll", "polled", "accept", "read", "serve", "done", "closed"}
  /\ failed \in BOOLEAN

(* The table: a free slot is cleared, a used one has a client and a descriptor    *)
(* that no other slot has, and the slot being served is a used one.               *)
TableSound ==
  /\ \A s \in Slots : slot[s].of = 0 => slot[s].fd = 0 /\ slot[s].buf = <<>>
  /\ \A s \in Used : slot[s].fd \in Slots /\ conn[slot[s].of].st = "open"
  /\ \A s, t \in Used : s # t => slot[s].of # slot[t].of /\ slot[s].fd # slot[t].fd
  /\ \A c \in Conns : conn[c].st = "open" => \E s \in Used : slot[s].of = c
  /\ live = Cardinality(Used)
  /\ IF pc = "serve" THEN cur \in Used ELSE cur = 0
  /\ pc = "closed" => Used = {}

(* A buffer that is not being served holds part of one head, and has room.        *)
BuffersSettled ==
  \A s \in Slots : /\ Len(slot[s].buf) <= HeadCap
                   /\ s # cur => Len(slot[s].buf) < HeadCap /\ EndsAt(slot[s].buf) = {}

(* All the server has left of a client's bytes, answered requests excluded: they   *)
(* start with the next request, and go up by one after each end of a head.        *)
Numbered(q, c, answered, asked) ==
  /\ \A i \in 1 .. Len(q) : q[i].of = c
  /\ Len(q) > 0 => q[1].n = answered + 1
  /\ \A i, j \in 1 .. Len(q) :
       i <= j /\ (\A k \in i .. j - 1 : q[k].kind = "x") => q[j].n = q[i].n
  /\ \A i, j \in 1 .. Len(q) : j = i + 1 /\ q[i].kind # "x" => q[j].n = q[i].n + 1
  /\ asked = IF Len(q) = 0 THEN answered
             ELSE IF q[Len(q)].kind = "x" THEN q[Len(q)].n - 1 ELSE q[Len(q)].n

(* A tame client's heads are well-formed and fit; run counts what it has sent      *)
(* since the last end.                                                            *)
Fits(q, run, tame) ==
  /\ tame => \A i \in 1 .. Len(q) : q[i].kind \in {"x", "keep"}
  /\ \A i, j \in 1 .. Len(q) : i <= j /\ (\A k \in i .. j : q[k].kind = "x") =>
       /\ tame => (j - i) + 1 < HeadCap
       /\ j = Len(q) => (j - i) + 1 <= run

StreamOK(q, c) ==
  Numbered(q, c, Len(conn[c].got), conn[c].asked) /\ Fits(q, conn[c].run, conn[c].tame)

Streams ==
  /\ \A s \in Used : StreamOK(slot[s].buf \o conn[slot[s].of].inq, slot[s].of)
  /\ \A c \in Conns : conn[c].st \in {"none", "queued"} => StreamOK(conn[c].inq, c)

(* Whoever hung up or let a timer run out is no longer tame.                       *)
TameInTime ==
  /\ \A s \in Used : slot[s].late => ~conn[slot[s].of].tame
  /\ \A c \in Conns : conn[c].eof => ~conn[c].tame

HttpInd ==
  /\ Types /\ TableSound /\ BuffersSettled /\ Streams /\ TameInTime
  /\ ResponsesMatch /\ TameSpared
=============================================================================
