----------------------------- MODULE RingHandoff ----------------------------
(***************************************************************************)
(* One logical ring, its ownership cell, and the handoff of the ring from a *)
(* crashed worker to the warm standby:                                     *)
(*   - workers validate their token before every push (run_hot), or poll    *)
(*     the cell until it names them (run_standby);                          *)
(*   - the supervisor drains the ring, reaps dead workers, and moves the     *)
(*     ring with transfer_ownership, which also rolls an abandoned claim     *)
(*     back (shared_region.cpp).                                             *)
(* The ring itself is RingBuffer, unchanged: the workers are its producers,  *)
(* the supervisor its consumer.  Loads and stores of the cell are separate   *)
(* steps, as in the code.                                                    *)
(***************************************************************************)
EXTENDS RingBuffer

CONSTANTS
  FirstOwner,  \* the process the ring starts with
  Sup,         \* the supervisor, the only consumer
  Callers      \* who may call transfer_ownership: the "supervisor", which runs
               \* verify_worker_ring on the dead owner's ring first; a caller
               \* that does not ("direct"); one that fences a live owner
               \* ("takeover")

ASSUME HandoffAssumption ==
  /\ FirstOwner \in Producers
  /\ Consumers = {Sup}
  /\ Callers \subseteq {"supervisor", "direct", "takeover"}

VARIABLES
  caller,      \* the one of Callers that calls it in this behaviour
  epoch,       \* ring_ownership.epoch: even = stable, odd = transfer under way
  owner,       \* ring_ownership.owner_word; a process stands for its
               \* (physical_owner, generation) pair
  loc,         \* where each worker is in run_standby / run_hot
  seen,        \* each worker's local copy of (epoch, owner_word)
  token,       \* epoch of the token a worker acknowledged, 0 for none
  tpc,         \* where the supervisor is in recovery
  heir,        \* new_physical_owner of the transfer under way
  view,        \* the supervisor's local `tail` in the rollback loop
  reaped,      \* workers whose death the supervisor has observed
  published,   \* history: (epoch, owner) pairs that were stable in the cell
  committed,   \* history: items whose commit store was executed
  delivered,   \* history: what each position gave the supervisor's drain: its
               \* item, or NoItem if the CRC gate refused it
  late         \* history: commits by a worker whose ring had moved on

cell == <<epoch, owner, published>>
worker == <<loc, seen, token>>
supv == <<tpc, heir, view, reaped>>
history == <<committed, delivered, late>>
ring == <<tail, head, cells, corruption, pc, pos, arg, log>>
hvars == <<ring, cell, worker, supv, history, caller>>

NoOwner == NoItem
Alive(w) == loc[w] \notin {"dead", "stopped"}
Pushing(w) == loc[w] = "push"

HInit ==
  /\ Init
  /\ caller \in Callers
  /\ epoch = 2
  /\ owner = FirstOwner
  /\ loc = [w \in Producers |-> IF w = FirstOwner THEN "tick" ELSE "poll"]
  /\ seen = [w \in Producers |-> [epoch |-> 0, owner |-> NoOwner]]
  /\ token = [w \in Producers |-> IF w = FirstOwner THEN 2 ELSE 0]
  /\ tpc = "idle"
  /\ heir = NoOwner
  /\ view = 0
  /\ reaped = {}
  /\ published = {<<2, FirstOwner>>}
  /\ committed = <<>>
  /\ delivered = <<>>
  /\ late = [w \in Producers |-> 0]

-----------------------------------------------------------------------------
(* read_ownership, one load per step, for run_standby's poll of the cell     *)
(* ("poll...") and for run_hot's ownership_valid before a push ("tick...").  *)

(* epoch.load: an odd epoch is a refusal.  A polling standby tries again; a   *)
(* hot worker takes it for the loss of its ring and stops.                    *)
LoadEpoch(w) ==
  /\ \/ /\ loc[w] = "poll" /\ epoch % 2 = 0
        /\ loc' = [loc EXCEPT ![w] = "pollOwner"]
     \/ /\ loc[w] = "tick"
        /\ loc' = [loc EXCEPT ![w] = IF epoch % 2 = 0 THEN "tickOwner" ELSE "stopped"]
  /\ seen' = [seen EXCEPT ![w].epoch = epoch]
  /\ UNCHANGED <<ring, cell, token, supv, history>>

LoadOwner(w) ==
  /\ \/ loc[w] = "pollOwner" /\ loc' = [loc EXCEPT ![w] = "pollEpoch"]
     \/ loc[w] = "tickOwner" /\ loc' = [loc EXCEPT ![w] = "tickEpoch"]
  /\ seen' = [seen EXCEPT ![w].owner = owner]
  /\ UNCHANGED <<ring, cell, token, supv, history>>

(* Variant: no second load of the epoch.                                    *)
UnchangedAssumed(w) == TRUE

(* The second epoch.load: a changed epoch means the pair may be torn.         *)
Unchanged(w) == seen[w].epoch = epoch

Retry(w) ==
  /\ ~Unchanged(w)
  /\ \/ loc[w] = "pollEpoch" /\ loc' = [loc EXCEPT ![w] = "poll"]
     \/ loc[w] = "tickEpoch" /\ loc' = [loc EXCEPT ![w] = "tick"]
  /\ UNCHANGED <<ring, cell, seen, token, supv, history>>

(* acknowledge_ownership in run_standby, then run_hot.                        *)
Acknowledge(w) ==
  /\ loc[w] = "pollEpoch" /\ Unchanged(w)
  /\ \/ /\ seen[w].owner = w
        /\ token' = [token EXCEPT ![w] = seen[w].epoch]
        /\ loc' = [loc EXCEPT ![w] = "tick"]
     \/ /\ seen[w].owner # w
        /\ loc' = [loc EXCEPT ![w] = "poll"]
        /\ UNCHANGED token
  /\ UNCHANGED <<ring, cell, seen, supv, history>>

(* Variant: the token is not compared with the cell.                        *)
ValidateAlways(w) ==
  /\ loc[w] = "tickEpoch" /\ Unchanged(w)
  /\ loc' = [loc EXCEPT ![w] = "push"]
  /\ UNCHANGED <<ring, cell, seen, token, supv, history>>

(* ownership_valid, then push; or the worker stops because it lost the ring.  *)
Validate(w) ==
  /\ loc[w] = "tickEpoch" /\ Unchanged(w)
  /\ loc' = [loc EXCEPT ![w] = IF seen[w] = [epoch |-> token[w], owner |-> w]
                               THEN "push" ELSE "stopped"]
  /\ UNCHANGED <<ring, cell, seen, token, supv, history>>

(* One step of region push(): the ring's try_push, back to the tick loop when *)
(* it returns (true, or false for a full ring).                               *)
PushStep(w) ==
  /\ Pushing(w)
  /\ Push(w)
  /\ loc' = [loc EXCEPT ![w] = IF pc'[w] = "idle" THEN "tick" ELSE "push"]
  /\ committed' = IF pc[w] = "commit" THEN Append(committed, arg[w]) ELSE committed
  /\ late' = IF pc[w] = "commit" /\ owner # w THEN [late EXCEPT ![w] = @ + 1] ELSE late
  /\ UNCHANGED <<cell, seen, token, supv, delivered>>

(* A worker dies wherever it is, inside its claim window included.            *)
Crash(w) ==
  /\ Alive(w)
  /\ loc' = [loc EXCEPT ![w] = "dead"]
  /\ UNCHANGED <<ring, cell, seen, token, supv, history>>

-----------------------------------------------------------------------------
(* The supervisor: drain, reap, recover; one thread.                          *)

Drain ==
  /\ tpc = "idle"
  /\ Pop(Sup)
  /\ delivered' = IF pc[Sup] \in {"release", "skip"} THEN Append(delivered, arg[Sup])
                                                   ELSE delivered
  /\ UNCHANGED <<cell, worker, supv, committed, late>>

(* A standby is promotable while its death, if any, has not been reaped.      *)
Promotable(n) == n # owner /\ n \notin reaped

(* Variant: recovery without waiting for the owner to be dead.              *)
ReapLive(w) ==
  /\ tpc = "idle" /\ pc[Sup] = "idle"
  /\ w \notin reaped /\ owner = w
  /\ reaped' = reaped \cup {w}
  /\ \E n \in Producers : Promotable(n) /\ heir' = n
  /\ tpc' = "casEpoch"
  /\ UNCHANGED <<ring, cell, worker, view, history>>

(* waitpid of a dead worker.  If it owned the ring, recovery starts: the      *)
(* supervisor verifies the ring first and gives up (failsafe) if it cannot;   *)
(* with nobody to promote, the ring stays with its dead owner (DEGRADED).     *)
Reap(w) ==
  /\ tpc = "idle" /\ pc[Sup] = "idle"
  /\ loc[w] = "dead" /\ w \notin reaped
  /\ reaped' = reaped \cup {w}
  /\ \/ owner # w /\ UNCHANGED <<tpc, heir>>
     \/ /\ owner = w
        /\ caller = "supervisor" /\ ~verify_consistent
        /\ tpc' = "failsafe"
        /\ UNCHANGED heir
     \/ /\ owner = w
        /\ caller # "supervisor" \/ verify_consistent
        /\ \/ \E n \in Producers : Promotable(n) /\ heir' = n /\ tpc' = "casEpoch"
           \/ ~(\E n \in Producers : Promotable(n)) /\ UNCHANGED <<tpc, heir>>
  /\ UNCHANGED <<ring, cell, worker, view, history>>

(* The cell is taken from an owner that may still be running.                 *)
Takeover ==
  /\ caller = "takeover"
  /\ tpc = "idle" /\ pc[Sup] = "idle"
  /\ \E n \in Producers : Promotable(n) /\ loc[n] = "poll" /\ heir' = n
  /\ tpc' = "casEpoch"
  /\ UNCHANGED <<ring, cell, worker, view, reaped, history>>

(* transfer_ownership: claim the cell by making the epoch odd,                *)
TransferBegin ==
  /\ tpc = "casEpoch"
  /\ epoch' = epoch + 1
  /\ tpc' = "casOwner"
  /\ UNCHANGED <<ring, owner, published, worker, heir, view, reaped, history>>

(* swap the owner word,                                                       *)
TransferOwner ==
  /\ tpc = "casOwner"
  /\ owner' = heir
  /\ tpc' = "publish"
  /\ UNCHANGED <<ring, epoch, published, worker, heir, view, reaped, history>>

(* and store the next even epoch: from here on the new owner may push.        *)
TransferPublish ==
  /\ tpc = "publish"
  /\ epoch' = epoch + 1
  /\ published' = published \cup {<<epoch + 1, owner>>}
  /\ tpc' = "loadTail"
  /\ UNCHANGED <<ring, owner, worker, heir, view, reaped, history>>

(* The rollback loop: tail.load, then head.load,                              *)
RollbackLoadTail ==
  /\ tpc = "loadTail"
  /\ view' = tail
  /\ tpc' = "loadHead"
  /\ UNCHANGED <<ring, cell, worker, heir, reaped, history>>

RollbackLoadHead ==
  /\ tpc = "loadHead"
  /\ tpc' = IF view <= head THEN "idle" ELSE "loadSeq"
  /\ UNCHANGED <<ring, cell, worker, heir, view, reaped, history>>

(* the sequence of the last claimed slot: anything but its ready marker means *)
(* that nothing is to be rolled back,                                         *)
RollbackCheck ==
  /\ tpc = "loadSeq"
  /\ tpc' = IF sequence[Slot(view - 1)] = view - 1 THEN "casTail" ELSE "idle"
  /\ UNCHANGED <<ring, cell, worker, heir, view, reaped, history>>

(* Variant: the abandoned slot is committed instead of taken back.          *)
RollbackForceCommit ==
  /\ tpc = "casTail"
  /\ tail = view
  /\ sequence' = [sequence EXCEPT ![Slot(view - 1)] = view]
  /\ tpc' = "idle"
  /\ UNCHANGED <<tail, head, payload, corruption, pc, pos, arg, log, cell, worker, heir, view,
                 reaped, history>>

(* and the compare-exchange of tail_.                                         *)
Rollback ==
  /\ tpc = "casTail"
  /\ tail = view
  /\ tail' = view - 1
  /\ log' = SubSeq(log, 1, view - 1)
  /\ tpc' = "idle"
  /\ UNCHANGED <<head, cells, corruption, pc, pos, arg, cell, worker, heir, view, reaped,
                 history>>

RollbackFails ==
  /\ tpc = "casTail"
  /\ tpc' = "loadTail"
  /\ UNCHANGED <<ring, cell, worker, heir, view, reaped, history>>

Supervise ==
  \/ Drain \/ (\E w \in Producers : Reap(w)) \/ Takeover
  \/ TransferBegin \/ TransferOwner \/ TransferPublish
  \/ RollbackLoadTail \/ RollbackLoadHead \/ RollbackCheck \/ Rollback \/ RollbackFails

Work ==
  \E w \in Producers :
    \/ LoadEpoch(w) \/ LoadOwner(w) \/ Retry(w) \/ Acknowledge(w) \/ Validate(w)
    \/ PushStep(w) \/ Crash(w)

HNext == (Work \/ Supervise) /\ UNCHANGED caller

HSpec == HInit /\ [][HNext]_hvars

-----------------------------------------------------------------------------
(* Properties.                                                               *)

HTypeOK ==
  /\ TypeOK
  /\ caller \in Callers
  /\ epoch \in Nat
  /\ owner \in Producers
  /\ loc \in [Producers -> {"poll", "pollOwner", "pollEpoch", "tick", "tickOwner", "tickEpoch",
                            "push", "stopped", "dead"}]
  /\ seen \in [Producers -> [epoch : Nat, owner : Producers \cup {NoOwner}]]
  /\ token \in [Producers -> Nat]
  /\ tpc \in {"idle", "casEpoch", "casOwner", "publish", "loadTail", "loadHead", "loadSeq",
              "casTail", "failsafe"}
  /\ heir \in Producers \cup {NoOwner}
  /\ view \in Nat
  /\ reaped \subseteq Producers

(* "Exactly one process may own a logical ring for an epoch": two live workers *)
(* are never inside push() of one ring at the same time, as long as the ring is *)
(* only taken from dead owners.                                                 *)
SingleProducer ==
  caller # "takeover" => \A v, w \in Producers : (Pushing(v) /\ Pushing(w)) => v = w

(* The words of the region and of the workers stay in their ranges, also when  *)
(* a transfer or a worker stops half way, and a ring has one producer.          *)
HandoffInv == HTypeOK /\ SingleProducer

(* The epoch brackets the owner word: a worker that acknowledged a token (an    *)
(* epoch and itself) got a pair that really was published, never the old epoch  *)
(* with the new owner or the other way round.                                   *)
TokensGenuine ==
  \A w \in Producers : token[w] # 0 => <<token[w], w>> \in published

(* What try_pop gets from a committed record: nothing if its CRC is bad.       *)
Got(v) == IF v \in BadCrc THEN NoItem ELSE v

(* What the supervisor's drain gets is a prefix of what the workers committed,  *)
(* in commit order, across a handoff, with the poisoned records left out: no    *)
(* committed record is lost, repeated or reordered, and an abandoned claim is   *)
(* never delivered.  A caller that does not verify the ring gets this for one   *)
(* handoff only: the rollback may take a live claim back, and a second transfer *)
(* would build on the ring that leaves.  Under a takeover two workers may hold  *)
(* claims at once and commit out of order.                                      *)
OneProducerRing == caller = "supervisor" \/ (caller = "direct" /\ epoch <= 4)

DeliveredPrefix ==
  OneProducerRing =>
    /\ Len(delivered) <= Len(committed)
    /\ \A i \in 1 .. Len(delivered) : delivered[i] = Got(committed[i])

(* Fencing, as far as the code gives it: the check before a push is not atomic   *)
(* with the push, so a worker whose ring is taken in between commits that one     *)
(* record late, and never another: its next check refuses.  The manual promises   *)
(* more, see FencedForever.                                                       *)
FencedAfterOne == \A w \in Producers : late[w] <= 1

(* The manual's fencing: a stale token holder "can never touch the ring after    *)
(* handoff", "its publish path refuses, forever, even if the process is alive".   *)
(* Not so for a live owner that passed ownership_valid before the transfer.       *)
FencedForever == \A w \in Producers : late[w] = 0
-----------------------------------------------------------------------------
(* The inductive invariant behind them.                                         *)

(* What the ring keeps, also when a claim is taken back.                        *)
RingShape ==
  /\ LogCoversClaims
  /\ \A w \in Producers : pc[w] # "idle" => arg[w] \in Items
  /\ tpc \in {"loadSeq", "casTail"} => view > 0

(* The epoch is odd exactly between its two increments, and a stable cell has   *)
(* been published.                                                              *)
CellStable ==
  /\ epoch >= 2
  /\ epoch % 2 = (IF tpc \in {"casOwner", "publish"} THEN 1 ELSE 0)
  /\ tpc \in {"casEpoch", "casOwner"} => heir \in Producers
  /\ tpc \notin {"casOwner", "publish"} => <<epoch, owner>> \in published

(* A pair read under one even epoch is the pair of that epoch.                  *)
ReadsBracketed ==
  \A w \in Producers :
    /\ loc[w] \in {"pollOwner", "pollEpoch", "tickOwner", "tickEpoch"} =>
         seen[w].epoch <= epoch /\ seen[w].epoch % 2 = 0
    /\ loc[w] \in {"pollEpoch", "tickEpoch"} /\ seen[w].epoch = epoch =>
         seen[w].owner = owner

(* A token is of the past, or of the cell as it is.                             *)
TokensBounded ==
  \A w \in Producers :
    token[w] <= epoch /\ token[w] % 2 = 0 /\ (token[w] = epoch => owner = w)

(* Recovery waits for the owner's death.                                        *)
OwnerPushes ==
  caller # "takeover" =>
    /\ \A w \in Producers : Pushing(w) => owner = w
    /\ tpc \in {"casEpoch", "casOwner"} => loc[owner] = "dead"

(* After a late record a worker holds an old token, and is not in push().       *)
LateFenced ==
  \A w \in Producers :
    \/ late[w] = 0
    \/ /\ late[w] = 1
       /\ loc[w] \in {"tick", "tickOwner", "tickEpoch", "stopped", "dead"}
       /\ token[w] < epoch

HInd ==
  /\ HTypeOK /\ RingShape /\ CellStable /\ ReadsBracketed
  /\ TokensBounded /\ TokensGenuine /\ OwnerPushes /\ LateFenced

-----------------------------------------------------------------------------
(* The inductive invariant behind DeliveredPrefix.  With one producer at a time  *)
(* the committed records, and not tail_, say where the ring ends: a rollback     *)
(* moves tail_ under a live claim, and may leave it one short for good.          *)

(* The new owner is in the cell and tail_ has not been put back yet.               *)
RollingBack == tpc \in {"publish", "loadTail", "loadHead", "loadSeq", "casTail"}

(* Only an owner has been inside push(), and recovery follows its death.         *)
OnlyOwnersPushed ==
  /\ \A w \in Producers : loc[w] \notin {"push", "dead"} => pc[w] = "idle"
  /\ \A w \in Producers : w # owner /\ w \notin reaped => pc[w] = "idle"
  /\ tpc \in {"casEpoch", "casOwner"} =>
       owner \in reaped /\ heir \notin reaped /\ heir # owner
  /\ RollingBack => epoch >= 3

(* The drain holds the position before head, and head is what it delivered.      *)
Taken == IF Reading(Sup) THEN head - 1 ELSE head

DrainExact ==
  /\ committed \in Seq(Items) /\ delivered \in Seq(Items \cup {NoItem})
  /\ head <= Len(committed)
  /\ Len(delivered) = Taken
  /\ \A i \in 1 .. Len(delivered) : delivered[i] = Got(committed[i])
  /\ pc[Sup] = "loadHead" => arg[Sup] = NoItem
  /\ pc[Sup] \in {"checkPop", "casHead"} => pos[Sup] = head /\ arg[Sup] = NoItem
  /\ pc[Sup] = "casHead" => sequence[Slot(head)] = head + 1
  /\ Reading(Sup) =>
       /\ pos[Sup] + 1 = head /\ sequence[Slot(pos[Sup])] = head
       /\ pc[Sup] = "read" => payload[Slot(pos[Sup])] = committed[head] /\ arg[Sup] = NoItem
       /\ pc[Sup] # "read" => arg[Sup] = Got(committed[head])

(* The owner found the slot it is about to claim, or has claimed, ready.         *)
OwnerReady ==
  /\ pc[owner] \in {"casTail", "write", "commit"} => sequence[Slot(pos[owner])] = pos[owner]
  /\ pc[owner] = "commit" => payload[Slot(pos[owner])] = arg[owner]

(* The positions from head up to c are committed and in place.                   *)
ReadyUpTo(c) ==
  /\ head <= c /\ c <= Len(committed) /\ c <= head + SlotCount
  /\ \A p \in head .. c - 1 :
       sequence[Slot(p)] = p + 1 /\ payload[Slot(p)] = committed[p + 1]

FreeSlot(p) ==
  \/ sequence[Slot(p)] = p
  \/ sequence[Slot(p)] = p + 1 - SlotCount /\ Reading(Sup) /\ pos[Sup] = p - SlotCount

InFlight == IF Writing(owner) THEN 1 ELSE 0

(* The committed records end the ring; only the owner's claim lies beyond.       *)
RingDense ==
  LET k == Len(committed) IN
  /\ ReadyUpTo(k)
  /\ \A p \in k .. head + SlotCount - 1 : FreeSlot(p)
  /\ Writing(owner) => pos[owner] = k
  /\ tail \in {k + InFlight - 1, k + InFlight}
  /\ RollingBack \/ (caller = "direct" /\ epoch <= 3) => tail = k + InFlight
  /\ caller = "supervisor" /\ tpc \in {"casEpoch", "casOwner"} => tail = k

(* The claim h of a dead owner that nobody took back: the drain waits there for  *)
(* ever, and the new owner pushes beyond it.                                     *)
HoleAt(h) ==
  LET k == Len(committed) IN
  /\ caller = "direct" /\ epoch >= 3 /\ tpc # "casOwner"
  /\ ReadyUpTo(h)
  /\ h < head + SlotCount /\ h < tail
  /\ sequence[Slot(h)] = h
  /\ \A p \in h + 1 .. head + SlotCount - 1 : FreeSlot(p) \/ sequence[Slot(p)] = p + 1
  /\ Writing(owner) => h < pos[owner] /\ pos[owner] < head + SlotCount
  /\ RollingBack =>
       /\ tail = k + 1 + InFlight
       /\ Writing(owner) => pos[owner] = k + 1
       /\ \A p \in k + 1 .. head + SlotCount - 1 : FreeSlot(p)

PrefixInd ==
  OneProducerRing =>
    /\ OnlyOwnersPushed /\ DrainExact /\ OwnerReady
    /\ RingDense \/ \E h \in 0 .. Len(committed) : HoleAt(h)
=============================================================================
