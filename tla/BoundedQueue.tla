---------------------------- MODULE BoundedQueue ----------------------------
(***************************************************************************)
(* What LockFreeRingBuffer promises its callers: a FIFO queue of at most    *)
(* Capacity items.  An item taken from the front is handed to its consumer, *)
(* or, when its checksum does not match, dropped and counted; it is never   *)
(* handed out twice, reordered, replaced or silently lost.                  *)
(***************************************************************************)
EXTENDS Naturals, Sequences

CONSTANTS Capacity, Consumers, Items, Corrupt, NoItem

VARIABLES
  queue,   \* the items pushed and not yet taken, oldest first
  taken,   \* the item each consumer took and has not finished with
  out,     \* the item each consumer was last given
  lost     \* corrupt items dropped so far

qvars == <<queue, taken, out, lost>>

Init ==
  /\ queue = <<>>
  /\ taken = [c \in Consumers |-> NoItem]
  /\ out = [c \in Consumers |-> NoItem]
  /\ lost = 0

Enqueue(v) ==
  /\ Len(queue) < Capacity
  /\ queue' = Append(queue, v)
  /\ UNCHANGED <<taken, out, lost>>

(* A consumer asks again: it gives up the previous result.                  *)
Ask(c) ==
  /\ out' = [out EXCEPT ![c] = NoItem]
  /\ UNCHANGED <<queue, taken, lost>>

Take(c) ==
  /\ taken[c] = NoItem
  /\ queue # <<>>
  /\ taken' = [taken EXCEPT ![c] = Head(queue)]
  /\ queue' = Tail(queue)
  /\ UNCHANGED <<out, lost>>

Deliver(c) ==
  /\ taken[c] \in Items \ Corrupt
  /\ out' = [out EXCEPT ![c] = taken[c]]
  /\ taken' = [taken EXCEPT ![c] = NoItem]
  /\ UNCHANGED <<queue, lost>>

Drop(c) ==
  /\ taken[c] \in Corrupt
  /\ lost' = lost + 1
  /\ taken' = [taken EXCEPT ![c] = NoItem]
  /\ UNCHANGED <<queue, out>>

Next ==
  \/ \E v \in Items : Enqueue(v)
  \/ \E c \in Consumers : Ask(c) \/ Take(c) \/ Deliver(c) \/ Drop(c)

Spec == Init /\ [][Next]_qvars
=============================================================================
