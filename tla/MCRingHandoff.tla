---------------------------- MODULE MCRingHandoff ----------------------------
(* RingHandoff on a small instance.                                           *)
EXTENDS RingHandoff

(* What is delivered is followed for the callers that move the ring of a dead   *)
(* owner; where the owner may be running only the fencing is, which does not    *)
(* look at payloads: there every push is a poisoned one.                       *)
PayloadsMatter == caller = "takeover" => \A i \in DOMAIN log : log[i] \in BadCrc
=============================================================================
