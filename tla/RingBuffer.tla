----------------------------- MODULE RingBuffer -----------------------------
(***************************************************************************)
(* LockFreeRingBuffer<SlotCount, SlotBytes>: the bounded multi-producer,   *)
(* multi-consumer ring every worker publishes through and the supervisor   *)
(* drains (shared-memory/include/.../ring_buffer.hpp).                      *)
(*                                                                         *)
(* One step is one atomic access of the code: a load of tail_ or head_, a   *)
(* load of a cell's sequence, a compare-exchange, one plain access to the   *)
(* payload and CRC, one release store.  Threads interleave at that grain.   *)
(* The acquire/release pairs on `sequence` order the plain accesses, so     *)
(* interleaving semantics is exact as long as no two threads are inside the *)
(* claim..release window of one slot; ExclusiveSlots states that.           *)
(***************************************************************************)
EXTENDS Integers, Sequences, FiniteSets

CONSTANTS
  SlotCount,   \* kSlotCount; the code asks for a power of two, >= 2
  Producers,   \* threads that call try_push / try_push_with_bad_crc
  Consumers,   \* threads that call try_pop
  Items,       \* payloads
  BadCrc,      \* the items pushed with try_push_with_bad_crc
  NoItem,      \* contents of a cell or of `out` that nobody wrote
  MaxPos       \* bound: positions claimed in one behaviour

ASSUME SlotCountAssumption == SlotCount \in Nat /\ SlotCount >= 2
ASSUME ThreadsAssumption == Producers \cap Consumers = {}
ASSUME ItemsAssumption == BadCrc \subseteq Items /\ NoItem \notin Items

VARIABLES
  tail,        \* tail_: first position no producer has claimed
  head,        \* head_: first position no consumer has claimed
  sequence,    \* cells_[i].sequence
  payload,     \* cells_[i].payload and crc; the CRC matches iff not in BadCrc
  corruption,  \* corruption_count_
  pc,          \* where each thread is inside try_push_impl / try_pop
  pos,         \* each thread's local `pos`
  arg,         \* each thread's `value` (producer) or `out` (consumer)
  log          \* history: log[p + 1] is the item whose producer claimed p

cells == <<sequence, payload>>
vars == <<tail, head, sequence, payload, corruption, pc, pos, arg, log>>

Slots == 0 .. SlotCount - 1
Threads == Producers \cup Consumers

(* pos & kMask, with kMask = SlotCount - 1 and SlotCount a power of two.   *)
Slot(p) == p % SlotCount

PushPcs == {"idle", "loadTail", "checkPush", "casTail", "write", "commit"}
PopPcs == {"idle", "loadHead", "checkPop", "casHead", "read", "release", "skip", "count"}

Init ==
  /\ tail = 0
  /\ head = 0
  /\ sequence = [i \in Slots |-> i]
  /\ payload = [i \in Slots |-> NoItem]
  /\ corruption = 0
  /\ pc = [t \in Threads |-> "idle"]
  /\ pos = [t \in Threads |-> 0]
  /\ arg = [t \in Threads |-> NoItem]
  /\ log = <<>>

Goto(t, label) == pc' = [pc EXCEPT ![t] = label]

-----------------------------------------------------------------------------
(* try_push_impl, for a producer w.                                        *)

(* Each push in flight may still claim one position: the bound counts them.*)
RoomToPush ==
  tail + Cardinality({w \in Producers : pc[w] \in {"loadTail", "checkPush", "casTail"}})
    < MaxPos

(* The call, with the value to publish.                                    *)
PushStart(w) ==
  /\ pc[w] = "idle"
  /\ RoomToPush
  /\ \E v \in Items : arg' = [arg EXCEPT ![w] = v]
  /\ Goto(w, "loadTail")
  /\ UNCHANGED <<tail, head, cells, corruption, pos, log>>

(* Variant: the view of pos runs ahead of tail_.                            *)
PushLoadTailAhead(w) ==
  /\ pc[w] = "loadTail"
  /\ pos' = [pos EXCEPT ![w] = tail + 1]
  /\ Goto(w, "checkPush")
  /\ UNCHANGED <<tail, head, cells, corruption, arg, log>>

(* pos = tail_.load(relaxed), on entry and when the view of pos is stale.  *)
PushLoadTail(w) ==
  /\ pc[w] = "loadTail"
  /\ pos' = [pos EXCEPT ![w] = tail]
  /\ Goto(w, "checkPush")
  /\ UNCHANGED <<tail, head, cells, corruption, arg, log>>

(* seq = sequence.load(acquire), and the branch on diff = seq - pos; a      *)
(* negative difference is the "full" return.                                *)
PushCheck(w) ==
  LET diff == sequence[Slot(pos[w])] - pos[w]
  IN /\ pc[w] = "checkPush"
     /\ \/ diff = 0 /\ Goto(w, "casTail") /\ UNCHANGED arg
        \/ diff < 0 /\ Goto(w, "idle") /\ arg' = [arg EXCEPT ![w] = NoItem]
        \/ diff > 0 /\ Goto(w, "loadTail") /\ UNCHANGED arg
     /\ UNCHANGED <<tail, head, cells, corruption, pos, log>>

(* compare_exchange_weak(tail_, pos, pos + 1) succeeds: pos is claimed.     *)
PushClaim(w) ==
  /\ pc[w] = "casTail"
  /\ tail = pos[w]
  /\ tail' = pos[w] + 1
  /\ log' = Append(log, arg[w])
  /\ Goto(w, "write")
  /\ UNCHANGED <<head, cells, corruption, pos, arg>>

(* It fails, because tail_ moved or spuriously; pos becomes the value seen. *)
PushClaimFails(w) ==
  /\ pc[w] = "casTail"
  /\ pos' = [pos EXCEPT ![w] = tail]
  /\ Goto(w, "checkPush")
  /\ UNCHANGED <<tail, head, cells, corruption, arg, log>>

(* memcpy of the value and the store of its CRC (xor-ed for a bad push).    *)
PushWrite(w) ==
  /\ pc[w] = "write"
  /\ payload' = [payload EXCEPT ![Slot(pos[w])] = arg[w]]
  /\ Goto(w, "commit")
  /\ UNCHANGED <<tail, head, sequence, corruption, pos, arg, log>>

(* Variant: the commit stores the ready marker, not pos + 1.                *)
PushCommitReady(w) ==
  /\ pc[w] = "commit"
  /\ sequence' = [sequence EXCEPT ![Slot(pos[w])] = pos[w]]
  /\ arg' = [arg EXCEPT ![w] = NoItem]
  /\ Goto(w, "idle")
  /\ UNCHANGED <<tail, head, payload, corruption, pos, log>>

(* sequence.store(pos + 1, release); return true.                           *)
PushCommit(w) ==
  /\ pc[w] = "commit"
  /\ sequence' = [sequence EXCEPT ![Slot(pos[w])] = pos[w] + 1]
  /\ arg' = [arg EXCEPT ![w] = NoItem]
  /\ Goto(w, "idle")
  /\ UNCHANGED <<tail, head, payload, corruption, pos, log>>

Push(w) ==
  \/ PushStart(w) \/ PushLoadTail(w) \/ PushCheck(w)
  \/ PushClaim(w) \/ PushClaimFails(w) \/ PushWrite(w) \/ PushCommit(w)

-----------------------------------------------------------------------------
(* try_pop, for a consumer c.                                              *)

PopStart(c) ==
  /\ pc[c] = "idle"
  /\ arg' = [arg EXCEPT ![c] = NoItem]
  /\ Goto(c, "loadHead")
  /\ UNCHANGED <<tail, head, cells, corruption, pos, log>>

PopLoadHead(c) ==
  /\ pc[c] = "loadHead"
  /\ pos' = [pos EXCEPT ![c] = head]
  /\ Goto(c, "checkPop")
  /\ UNCHANGED <<tail, head, cells, corruption, arg, log>>

(* Variant: the committed marker is taken for pos + 2.                      *)
PopCheckLate(c) ==
  LET diff == sequence[Slot(pos[c])] - (pos[c] + 2)
  IN /\ pc[c] = "checkPop"
     /\ \/ diff = 0 /\ Goto(c, "casHead")
        \/ diff < 0 /\ Goto(c, "idle")
        \/ diff > 0 /\ Goto(c, "loadHead")
     /\ UNCHANGED <<tail, head, cells, corruption, pos, arg, log>>

(* The branch on diff = seq - (pos + 1); negative is the "empty" return.    *)
PopCheck(c) ==
  LET diff == sequence[Slot(pos[c])] - (pos[c] + 1)
  IN /\ pc[c] = "checkPop"
     /\ \/ diff = 0 /\ Goto(c, "casHead")
        \/ diff < 0 /\ Goto(c, "idle")
        \/ diff > 0 /\ Goto(c, "loadHead")
     /\ UNCHANGED <<tail, head, cells, corruption, pos, arg, log>>

PopClaim(c) ==
  /\ pc[c] = "casHead"
  /\ head = pos[c]
  /\ head' = pos[c] + 1
  /\ Goto(c, "read")
  /\ UNCHANGED <<tail, cells, corruption, pos, arg, log>>

PopClaimFails(c) ==
  /\ pc[c] = "casHead"
  /\ pos' = [pos EXCEPT ![c] = head]
  /\ Goto(c, "checkPop")
  /\ UNCHANGED <<tail, head, cells, corruption, arg, log>>

(* Variant: no CRC gate.                                                    *)
PopReadUnchecked(c) ==
  /\ pc[c] = "read"
  /\ Goto(c, "release")
  /\ arg' = [arg EXCEPT ![c] = payload[Slot(pos[c])]]
  /\ UNCHANGED <<tail, head, cells, corruption, pos, log>>

(* The CRC gate: a mismatch is never copied out.                            *)
PopRead(c) ==
  LET v == payload[Slot(pos[c])]
  IN /\ pc[c] = "read"
     /\ \/ v \in BadCrc /\ Goto(c, "skip") /\ UNCHANGED arg
        \/ v \notin BadCrc /\ Goto(c, "release") /\ arg' = [arg EXCEPT ![c] = v]
     /\ UNCHANGED <<tail, head, cells, corruption, pos, log>>

(* Variant: the slot is released for the lap after the next one.            *)
PopReleaseTwoLaps(c) ==
  /\ \/ pc[c] = "release" /\ Goto(c, "idle")
     \/ pc[c] = "skip" /\ Goto(c, "count")
  /\ sequence' = [sequence EXCEPT ![Slot(pos[c])] = pos[c] + 2 * SlotCount]
  /\ UNCHANGED <<tail, head, payload, corruption, pos, arg, log>>

(* sequence.store(pos + n, release), with a value (return true) or without. *)
PopRelease(c) ==
  /\ \/ pc[c] = "release" /\ Goto(c, "idle")
     \/ pc[c] = "skip" /\ Goto(c, "count")
  /\ sequence' = [sequence EXCEPT ![Slot(pos[c])] = pos[c] + SlotCount]
  /\ UNCHANGED <<tail, head, payload, corruption, pos, arg, log>>

(* Variant: the corruption is not counted.                                  *)
PopCountForgets(c) ==
  /\ pc[c] = "count"
  /\ Goto(c, "idle")
  /\ UNCHANGED <<tail, head, cells, corruption, pos, arg, log>>

(* corruption_count_.fetch_add(1, relaxed); return false.                   *)
PopCount(c) ==
  /\ pc[c] = "count"
  /\ corruption' = corruption + 1
  /\ Goto(c, "idle")
  /\ UNCHANGED <<tail, head, cells, pos, arg, log>>

Pop(c) ==
  \/ PopStart(c) \/ PopLoadHead(c) \/ PopCheck(c) \/ PopClaim(c)
  \/ PopClaimFails(c) \/ PopRead(c) \/ PopRelease(c) \/ PopCount(c)

Next == (\E w \in Producers : Push(w)) \/ (\E c \in Consumers : Pop(c))

Spec == Init /\ [][Next]_vars

(* The operating system runs every live thread; a weak compare-exchange     *)
(* does not fail spuriously for ever; consumers keep polling.               *)
Fairness ==
  /\ \A w \in Producers :
       /\ WF_vars(PushLoadTail(w)) /\ WF_vars(PushCheck(w)) /\ SF_vars(PushClaim(w))
       /\ WF_vars(PushClaimFails(w)) /\ WF_vars(PushWrite(w)) /\ WF_vars(PushCommit(w))
  /\ \A c \in Consumers :
       /\ WF_vars(PopStart(c)) /\ WF_vars(PopLoadHead(c)) /\ WF_vars(PopCheck(c))
       /\ SF_vars(PopClaim(c)) /\ WF_vars(PopClaimFails(c)) /\ WF_vars(PopRead(c))
       /\ WF_vars(PopRelease(c)) /\ WF_vars(PopCount(c))

FairSpec == Spec /\ Fairness

-----------------------------------------------------------------------------
(* The attach-time checks, evaluated on one snapshot of the ring.           *)

(* The first position >= p served by slot i.                                *)
NextAt(i, p) == p + ((i - p) % SlotCount)

WellFormed(i) == sequence[i] >= i /\ (sequence[i] - i) % SlotCount <= 1

FirstUnconsumed(i) == sequence[i] - ((sequence[i] - i) % SlotCount)

FirstUncommitted(i) ==
  FirstUnconsumed(i) + SlotCount * ((sequence[i] - i) % SlotCount)

(* Variant: the slots are not compared with tail_.                          *)
verify_without_tail ==
  /\ head <= tail
  /\ tail - head <= SlotCount
  /\ \A i \in Slots : WellFormed(i) /\ FirstUnconsumed(i) = NextAt(i, head)

verify_consistent ==
  /\ head <= tail
  /\ tail - head <= SlotCount
  /\ \A i \in Slots :
       /\ WellFormed(i)
       /\ FirstUnconsumed(i) = NextAt(i, head)
       /\ FirstUncommitted(i) = NextAt(i, tail)

(* derive_state: head and tail reconstructed from the slot counters alone.  *)
Least(S) == CHOOSE x \in S : \A y \in S : x <= y
derive_state ==
  [head |-> Least({FirstUnconsumed(i) : i \in Slots}),
   tail |-> Least({FirstUncommitted(i) : i \in Slots})]

-----------------------------------------------------------------------------
(* Properties.                                                             *)

TypeOK ==
  /\ tail \in Nat
  /\ head \in Nat
  /\ sequence \in [Slots -> Nat]
  /\ payload \in [Slots -> Items \cup {NoItem}]
  /\ corruption \in Nat
  /\ pc \in [Threads -> PushPcs \cup PopPcs]
  /\ \A w \in Producers : pc[w] \in PushPcs
  /\ \A c \in Consumers : pc[c] \in PopPcs
  /\ pos \in [Threads -> Nat]
  /\ arg \in [Threads -> Items \cup {NoItem}]
  /\ log \in Seq(Items)

(* Threads between a successful claim and the store that ends its window.   *)
Writing(w) == w \in Producers /\ pc[w] \in {"write", "commit"}
Reading(c) == c \in Consumers /\ pc[c] \in {"read", "release", "skip"}
Holds(t) == Writing(t) \/ Reading(t)

(* "tail_ - head_ stays within [0, SlotCount]" (the comment in empty()):    *)
(* consumers never overtake producers and producers never lap consumers.    *)
WindowBounded == head <= tail /\ tail <= head + SlotCount

(* The protocol's core guarantee: no two threads are inside the             *)
(* claim..release window of one slot, so the plain payload accesses of       *)
(* try_push_impl and try_pop never race.                                     *)
ExclusiveSlots ==
  \A s, t \in Threads :
    (Holds(s) /\ Holds(t) /\ Slot(pos[s]) = Slot(pos[t])) => s = t

(* A consumer never reads an uncommitted slot and a producer never           *)
(* overwrites an unconsumed item: what try_pop hands out for a position is    *)
(* what the producer of that position pushed.                                *)
DeliveredAsPushed ==
  /\ \A c \in Consumers : pc[c] = "release" => arg[c] = log[pos[c] + 1]
  /\ \A c \in Consumers : pc[c] \in {"skip", "count"} => log[pos[c] + 1] \in BadCrc

(* Between two claims nothing committed is lost: an unconsumed position is    *)
(* either committed with its item in place or still being written.           *)
NothingLost ==
  \A p \in head .. tail - 1 :
    \/ sequence[Slot(p)] = p + 1 /\ payload[Slot(p)] = log[p + 1]
    \/ sequence[Slot(p)] = p /\ \E w \in Producers : Writing(w) /\ pos[w] = p

(* What every user of the ring relies on, in one formula: the window of       *)
(* empty() and full(), one thread per slot, delivery of what was pushed, and   *)
(* no committed record lost.                                                 *)
RingSafe == WindowBounded /\ ExclusiveSlots /\ DeliveredAsPushed /\ NothingLost

(* verify_consistent() on a snapshot answers "quiescent" exactly: it accepts *)
(* the ring iff no claim is in flight, and then derive_state() agrees with    *)
(* the stored counters.                                                      *)
VerifyExact ==
  /\ verify_consistent <=> \A t \in Threads : ~Holds(t)
  /\ verify_consistent => derive_state = [head |-> head, tail |-> tail]

(* Corruption accounting: every position a consumer took whose CRC does not   *)
(* match is counted exactly once, or its consumer is on the way to count it.  *)
CorruptionCounted ==
  corruption + Cardinality({c \in Consumers : pc[c] \in {"read", "skip", "count"}
                                               /\ log[pos[c] + 1] \in BadCrc})
    = Cardinality({p \in 0 .. head - 1 : log[p + 1] \in BadCrc})

(* The two refusals are sound at the instant they are decided, stale view or  *)
(* not.  try_push answers "full" only if the ring holds SlotCount positions    *)
(* or the slot that tail needs is still being read; try_pop answers "empty"    *)
(* only if nothing is claimed or the oldest claim is not committed yet.        *)
RefusalSound ==
  /\ \A w \in Producers : (pc[w] = "checkPush" /\ pc'[w] = "idle") =>
       \/ tail = head + SlotCount
       \/ \E c \in Consumers : Reading(c) /\ pos[c] + SlotCount = tail
  /\ \A c \in Consumers : (pc[c] = "checkPop" /\ pc'[c] = "idle") =>
       \/ head = tail
       \/ \E w \in Producers : Writing(w) /\ pos[w] = head

RefusalsAreSound == [][RefusalSound]_vars

(* Every claimed position is eventually taken by a consumer.                 *)
EveryClaimConsumed == \A k \in 1 .. MaxPos : tail >= k ~> head >= k

(* A push always returns: the claim loop of try_push_impl terminates.          *)
EveryPushReturns == \A w \in Producers : pc[w] # "idle" ~> pc[w] = "idle"

(* The retry loops of try_push_impl and try_pop starve nobody: every claimed  *)
(* position is consumed and every push comes back.                           *)
Progress == EveryClaimConsumed /\ EveryPushReturns

-----------------------------------------------------------------------------
(* The inductive invariant behind the safety properties.  The positions       *)
(* head .. head + SlotCount - 1 meet every slot exactly once; the part below   *)
(* tail is claimed by producers (NothingLost), the part from tail on is free.  *)

LogCoversClaims == Len(log) = tail

FreeSlots ==
  \A p \in tail .. head + SlotCount - 1 :
    \/ sequence[Slot(p)] = p
    \/ /\ sequence[Slot(p)] = p + 1 - SlotCount
       /\ \E c \in Consumers : Reading(c) /\ pos[c] = p - SlotCount

WritersHold ==
  \A w \in Producers : Writing(w) =>
    /\ head <= pos[w] /\ pos[w] < tail
    /\ sequence[Slot(pos[w])] = pos[w]
    /\ arg[w] = log[pos[w] + 1]
    /\ pc[w] = "commit" => payload[Slot(pos[w])] = arg[w]

ReadersHold ==
  \A c \in Consumers : Reading(c) =>
    /\ pos[c] < head /\ tail <= pos[c] + SlotCount
    /\ sequence[Slot(pos[c])] = pos[c] + 1
    /\ payload[Slot(pos[c])] = log[pos[c] + 1]

ClaimsUnique ==
  /\ \A v, w \in Producers : Writing(v) /\ Writing(w) /\ pos[v] = pos[w] => v = w
  /\ \A b, c \in Consumers : Reading(b) /\ Reading(c) /\ pos[b] = pos[c] => b = c

(* A checked sequence value is still valid if the counter has not moved.       *)
PushViews ==
  \A w \in Producers :
    /\ pc[w] # "idle" => arg[w] \in Items
    /\ pc[w] \in {"checkPush", "casTail"} => pos[w] <= tail
    /\ pc[w] = "casTail" /\ tail = pos[w] => sequence[Slot(pos[w])] = pos[w]

PopViews ==
  \A c \in Consumers :
    /\ pc[c] \in {"checkPop", "casHead"} => pos[c] <= head
    /\ pc[c] = "casHead" /\ head = pos[c] => sequence[Slot(pos[c])] = pos[c] + 1
    /\ pc[c] = "count" => pos[c] < head

IInv ==
  /\ TypeOK
  /\ WindowBounded
  /\ LogCoversClaims
  /\ NothingLost
  /\ FreeSlots
  /\ WritersHold
  /\ ReadersHold
  /\ ClaimsUnique
  /\ PushViews
  /\ PopViews
  /\ DeliveredAsPushed

-----------------------------------------------------------------------------
(* The promise: a bounded FIFO queue.  A push takes effect when its claim on  *)
(* tail_ succeeds, a pop when its claim on head_ does; a popped item is in     *)
(* the consumer's hands until it is copied out or counted as corrupt.          *)
Queue == INSTANCE BoundedQueue WITH
  Capacity <- SlotCount,
  Corrupt <- BadCrc,
  queue <- SubSeq(log, head + 1, tail),
  taken <- [c \in Consumers |-> IF pc[c] \in {"read", "skip", "count"}
                                THEN log[pos[c] + 1] ELSE NoItem],
  out <- [c \in Consumers |-> arg[c]],
  lost <- corruption

(* Every behaviour of the ring is a behaviour of the bounded queue.            *)
ImplementsQueue == Queue!Spec
=============================================================================
