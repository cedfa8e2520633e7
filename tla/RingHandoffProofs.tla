-------------------------- MODULE RingHandoffProofs -------------------------
(***************************************************************************)
(* Ownership of a logical ring for every number of workers and slots: one   *)
(* producer at a time, genuine tokens, at most one record of a worker that  *)
(* has lost its ring, and delivery of what was committed, in order.         *)
(***************************************************************************)
EXTENDS RingHandoff, RingBufferProofs

(* Parity of an incremented epoch.                                          *)
LEMMA Parity ==
  ASSUME NEW e \in Nat
  PROVE  /\ e % 2 \in {0, 1}
         /\ e % 2 = 0 => (e + 1) % 2 = 1
         /\ e % 2 = 1 => (e + 1) % 2 = 0
OBVIOUS

-----------------------------------------------------------------------------
(* Steps of the ring itself.                                                *)

(* What stays in shape whatever the ring's threads do.                      *)
Shape == TypeOK /\ LogCoversClaims /\ \A w \in Producers : pc[w] # "idle" => arg[w] \in Items

LEMMA PushShape ==
  ASSUME Shape, NEW w \in Producers, Push(w)
  PROVE  Shape' /\ \A v \in Threads \ {w} : pc'[v] = pc[v]
<1> USE SlotCountAssumption, ThreadsAssumption, ItemsAssumption
        DEF Shape, TypeOK, Threads, Goto, cells, PushPcs, PopPcs
<1>1. CASE PushStart(w)
  <2>1. PICK v \in Items : arg' = [arg EXCEPT ![w] = v]
    BY <1>1 DEF PushStart
  <2> QED
    BY <1>1, <2>1 DEF PushStart, LogCoversClaims
<1>2. CASE PushLoadTail(w)
  BY <1>2 DEF PushLoadTail, LogCoversClaims
<1>3. CASE PushCheck(w)
  BY <1>3 DEF PushCheck, LogCoversClaims
<1>4. CASE PushClaim(w)
  <2>1. arg[w] \in Items
    BY <1>4 DEF PushClaim
  <2>2. log' = Append(log, arg[w]) /\ log' \in Seq(Items) /\ Len(log') = Len(log) + 1
    BY <1>4, <2>1 DEF PushClaim
  <2> QED
    BY <1>4, <2>1, <2>2 DEF PushClaim, LogCoversClaims
<1>5. CASE PushClaimFails(w)
  BY <1>5 DEF PushClaimFails, LogCoversClaims
<1>6. CASE PushWrite(w)
  <2>1. arg[w] \in Items /\ Slot(pos[w]) \in Slots
    BY <1>6, SlotType DEF PushWrite
  <2>2. payload' \in [Slots -> Items \cup {NoItem}]
    BY <1>6, <2>1 DEF PushWrite
  <2>3. UNCHANGED <<tail, head, sequence, corruption, pos, arg, log>>
        /\ pc' = [pc EXCEPT ![w] = "commit"] /\ pc[w] = "write"
    BY <1>6 DEF PushWrite
  <2> QED
    BY <2>2, <2>3 DEF LogCoversClaims
<1>7. CASE PushCommit(w)
  <2>1. sequence' \in [Slots -> Nat]
    BY <1>7, SlotType DEF PushCommit
  <2>2. UNCHANGED <<tail, head, payload, corruption, pos, log>>
        /\ pc' = [pc EXCEPT ![w] = "idle"] /\ arg' = [arg EXCEPT ![w] = NoItem]
    BY <1>7 DEF PushCommit
  <2> QED
    BY <2>1, <2>2 DEF LogCoversClaims
<1> QED
  BY <1>1, <1>2, <1>3, <1>4, <1>5, <1>6, <1>7 DEF Push

LEMMA PopShape ==
  ASSUME Shape, NEW c \in Consumers, Pop(c)
  PROVE  Shape' /\ \A v \in Threads \ {c} : pc'[v] = pc[v]
<1> USE SlotCountAssumption, ThreadsAssumption, ItemsAssumption
        DEF Shape, TypeOK, Threads, Goto, cells, PushPcs, PopPcs
<1>1. CASE PopStart(c)
  BY <1>1 DEF PopStart, LogCoversClaims
<1>2. CASE PopLoadHead(c)
  BY <1>2 DEF PopLoadHead, LogCoversClaims
<1>3. CASE PopCheck(c)
  BY <1>3 DEF PopCheck, LogCoversClaims
<1>4. CASE PopClaim(c)
  BY <1>4 DEF PopClaim, LogCoversClaims
<1>5. CASE PopClaimFails(c)
  BY <1>5 DEF PopClaimFails, LogCoversClaims
<1>6. CASE PopRead(c)
  <2>1. payload[Slot(pos[c])] \in Items \cup {NoItem}
    BY SlotType
  <2>2. arg' \in [Threads -> Items \cup {NoItem}] /\ \A v \in Threads \ {c} : arg'[v] = arg[v]
    BY <1>6, <2>1 DEF PopRead
  <2>3. UNCHANGED <<tail, head, sequence, payload, corruption, pos, log>>
        /\ pc[c] = "read"
        /\ \E l \in {"skip", "release"} : pc' = [pc EXCEPT ![c] = l]
    BY <1>6 DEF PopRead
  <2> QED
    BY <2>2, <2>3 DEF LogCoversClaims
<1>7. CASE PopRelease(c)
  <2>1. sequence' \in [Slots -> Nat]
    <3>1. sequence \in [Slots -> Nat] /\ pos[c] + SlotCount \in Nat /\ Slot(pos[c]) \in Slots
      BY SlotType
    <3>2. sequence' = [sequence EXCEPT ![Slot(pos[c])] = pos[c] + SlotCount]
      BY <1>7 DEF PopRelease
    <3> QED
      BY ONLY <3>1, <3>2
  <2>2. UNCHANGED <<tail, head, payload, corruption, pos, arg, log>>
        /\ \E l \in {"idle", "count"} : pc' = [pc EXCEPT ![c] = l]
    BY <1>7 DEF PopRelease
  <2> QED
    BY <2>1, <2>2 DEF LogCoversClaims
<1>8. CASE PopCount(c)
  BY <1>8 DEF PopCount, LogCoversClaims
<1> QED
  BY <1>1, <1>2, <1>3, <1>4, <1>5, <1>6, <1>7, <1>8 DEF Pop

(* A push that reaches its commit returns.                                  *)
LEMMA CommitReturns ==
  ASSUME Shape, NEW w \in Producers, Push(w), pc[w] = "commit"
  PROVE  pc'[w] = "idle"
BY DEF Shape, TypeOK, Threads, Push, PushStart, PushLoadTail, PushCheck, PushClaim, PushClaimFails,
       PushWrite, PushCommit, Goto

-----------------------------------------------------------------------------
LEMMA HandoffInit == HInit => HInd
<1> SUFFICES ASSUME HInit PROVE HInd
  OBVIOUS
<1> USE HandoffAssumption DEF HInit
<1>1. TypeOK /\ LogCoversClaims
  BY InitInv DEF IInv
<1>2. HTypeOK
  BY <1>1 DEF HTypeOK, NoOwner
<1>3. RingShape
  BY <1>1 DEF Init, RingShape, Threads
<1> QED
  BY <1>2, <1>3
  DEF HInd, CellStable, ReadsBracketed, TokensBounded, TokensGenuine, OwnerPushes, LateFenced, Pushing

(* The steps of a worker that leave ring, cell and supervisor alone.        *)
LEMMA WorkerStep ==
  ASSUME HInd, UNCHANGED caller, NEW w \in Producers,
         LoadEpoch(w) \/ LoadOwner(w) \/ Retry(w) \/ Acknowledge(w) \/ Validate(w) \/ Crash(w)
  PROVE  HInd'
<1> USE HandoffAssumption, Parity
        DEF HInd, HTypeOK, LoadEpoch, LoadOwner, Retry, Acknowledge, Validate, Crash, Unchanged,
            ring, cell, supv, history, cells
<1>1. UNCHANGED <<tail, head, sequence, payload, corruption, pc, pos, arg, log>>
      /\ UNCHANGED <<epoch, owner, published, tpc, heir, view, reaped, committed, delivered, late>>
  OBVIOUS
<1>2. TypeOK'
  BY <1>1 DEF TypeOK
<1>3. HTypeOK'
  BY <1>1, <1>2
<1>4. RingShape' /\ CellStable'
  BY <1>1 DEF RingShape, CellStable, LogCoversClaims
<1>5. ReadsBracketed'
  BY <1>1 DEF ReadsBracketed, CellStable
<1>6. TokensBounded' /\ TokensGenuine'
  <2>1. CASE token' = token
    BY <1>1, <2>1 DEF TokensBounded, TokensGenuine
  <2>2. CASE token' # token
    <3>1. /\ loc[w] = "pollEpoch" /\ seen[w].epoch = epoch /\ seen[w].owner = w
          /\ token' = [token EXCEPT ![w] = seen[w].epoch]
      BY <2>2
    <3>2. owner = w /\ epoch % 2 = 0
      BY <3>1 DEF ReadsBracketed
    <3>3. <<epoch, w>> \in published
      BY <3>2 DEF CellStable
    <3>4. token' = [token EXCEPT ![w] = epoch]
      BY <3>1
    <3> HIDE DEF LoadEpoch, LoadOwner, Retry, Acknowledge, Validate, Crash
    <3>5. TokensBounded'
      BY <1>1, <3>2, <3>4 DEF TokensBounded
    <3>6. TokensGenuine'
      BY <1>1, <3>3, <3>4 DEF TokensGenuine
    <3> QED
      BY <3>5, <3>6
  <2> QED
    BY <2>1, <2>2
<1>7. OwnerPushes'
  BY <1>1 DEF ReadsBracketed, OwnerPushes, Pushing, Alive
<1>8. LateFenced'
  BY <1>1 DEF ReadsBracketed, LateFenced, Alive
<1> QED
  BY <1>3, <1>4, <1>5, <1>6, <1>7, <1>8

LEMMA WorkerPushes ==
  ASSUME HInd, UNCHANGED caller, NEW w \in Producers, PushStep(w)
  PROVE  HInd'
<1> USE HandoffAssumption DEF HInd, PushStep, cell, supv
<1>1. Shape' /\ (\A v \in Threads \ {w} : pc'[v] = pc[v])
      /\ (pc[w] = "commit" => pc'[w] = "idle")
  BY PushShape, CommitReturns DEF HTypeOK, RingShape, Shape
<1>2. UNCHANGED <<epoch, owner, published, tpc, heir, view, reaped, seen, token>>
  OBVIOUS
<1>3. HTypeOK'
  BY <1>1, <1>2 DEF HTypeOK, Shape
<1>4. RingShape' /\ CellStable'
  BY <1>1, <1>2 DEF RingShape, CellStable, Shape
<1>5. ReadsBracketed' /\ TokensBounded' /\ TokensGenuine'
  BY <1>2 DEF HTypeOK, ReadsBracketed, TokensBounded, TokensGenuine, Pushing
<1>6. OwnerPushes'
  BY <1>2 DEF HTypeOK, OwnerPushes, Pushing
<1>7. LateFenced'
  <2>1. late[w] = 0
    BY DEF LateFenced, Pushing
  <2>2. CASE late' = late /\ late[w] = 0
    BY <1>2, <2>2 DEF HTypeOK, LateFenced
  <2>3. CASE pc[w] = "commit" /\ owner # w /\ late' = [late EXCEPT ![w] = @ + 1]
    <3>1. loc' = [loc EXCEPT ![w] = "tick"]
      BY <1>1, <2>3
    <3>2. token[w] < epoch
      BY <2>3 DEF HTypeOK, TokensBounded
    <3> QED
      BY <1>2, <2>1, <2>3, <3>1, <3>2 DEF HTypeOK, LateFenced
  <2> QED
    BY <2>1, <2>2, <2>3
<1> QED
  BY <1>3, <1>4, <1>5, <1>6, <1>7

LEMMA SupervisorStep ==
  ASSUME HInd, UNCHANGED caller, Supervise
  PROVE  HInd'
<1> USE HandoffAssumption, Parity DEF HInd
<1>1. CASE Drain
  <2> USE <1>1 DEF Drain, cell, worker, supv
  <2>1. Shape' /\ \A w \in Producers : pc'[w] = pc[w]
    BY PopShape, ThreadsAssumption DEF HTypeOK, RingShape, Shape, Threads
  <2>2. UNCHANGED <<epoch, owner, published, tpc, heir, view, reaped, loc, seen, token, late>>
    OBVIOUS
  <2>3. HTypeOK'
    BY <2>1, <2>2 DEF HTypeOK, Shape
  <2> QED
    BY <2>1, <2>2, <2>3 DEF RingShape, Shape, CellStable, ReadsBracketed, TokensBounded,
       TokensGenuine, OwnerPushes, LateFenced, Pushing
<1>2. ASSUME NEW w \in Producers, Reap(w)
      PROVE  HInd'
  <2> USE <1>2 DEF Reap, ring, cell, worker, history, cells
  <2>1. UNCHANGED <<epoch, owner, published, view, loc, seen, token, late>>
        /\ UNCHANGED <<tail, head, sequence, payload, corruption, pc, pos, arg, log>>
    OBVIOUS
  <2>2. reaped' \subseteq Producers /\ heir' \in Producers \cup {NoOwner}
        /\ tpc' \in {"idle", "casEpoch", "failsafe"}
        /\ (tpc' = "casEpoch" => heir' \in Producers /\ owner = w)
    BY DEF HTypeOK
  <2>3. HTypeOK'
    BY <2>1, <2>2 DEF HTypeOK, TypeOK
  <2> QED
    BY <2>1, <2>2, <2>3 DEF RingShape, LogCoversClaims, CellStable, ReadsBracketed, TokensBounded,
       TokensGenuine, OwnerPushes, LateFenced, Pushing
<1>3. CASE Takeover
  <2> USE <1>3 DEF Takeover, ring, cell, worker, history, cells
  <2>1. UNCHANGED <<epoch, owner, published, view, reaped, loc, seen, token, late>>
        /\ UNCHANGED <<tail, head, sequence, payload, corruption, pc, pos, arg, log>>
        /\ heir' \in Producers
    OBVIOUS
  <2>2. HTypeOK'
    BY <2>1 DEF HTypeOK, TypeOK
  <2> QED
    BY <2>1, <2>2 DEF RingShape, LogCoversClaims, CellStable, ReadsBracketed, TokensBounded,
       TokensGenuine, OwnerPushes, LateFenced, Pushing
<1>4. CASE TransferBegin
  <2> USE <1>4 DEF TransferBegin, ring, worker, history, cells
  <2>1. HTypeOK'
    BY DEF HTypeOK, TypeOK
  <2>2. RingShape' /\ CellStable'
    BY DEF HTypeOK, RingShape, LogCoversClaims, CellStable
  <2>3. ReadsBracketed' /\ TokensBounded' /\ TokensGenuine'
    BY DEF HTypeOK, ReadsBracketed, TokensBounded, TokensGenuine
  <2>4. OwnerPushes' /\ LateFenced'
    BY DEF HTypeOK, OwnerPushes, LateFenced, Pushing, TokensBounded
  <2> QED
    BY <2>1, <2>2, <2>3, <2>4
<1>5. CASE TransferOwner
  <2> USE <1>5 DEF TransferOwner, ring, worker, history, cells
  <2>1. heir \in Producers /\ epoch % 2 = 1
    BY DEF CellStable
  <2>2. HTypeOK'
    BY <2>1 DEF HTypeOK, TypeOK
  <2>3. RingShape' /\ CellStable'
    BY DEF HTypeOK, RingShape, LogCoversClaims, CellStable
  <2>4. ReadsBracketed' /\ TokensBounded' /\ TokensGenuine'
    BY <2>1 DEF HTypeOK, ReadsBracketed, TokensBounded, TokensGenuine
  <2>5. OwnerPushes' /\ LateFenced'
    BY <2>1 DEF HTypeOK, OwnerPushes, LateFenced, Pushing
  <2> QED
    BY <2>2, <2>3, <2>4, <2>5
<1>6. CASE TransferPublish
  <2> USE <1>6 DEF TransferPublish, ring, worker, history, cells
  <2>1. HTypeOK'
    BY DEF HTypeOK, TypeOK
  <2>2. RingShape' /\ CellStable'
    BY DEF HTypeOK, RingShape, LogCoversClaims, CellStable
  <2>3. ReadsBracketed' /\ TokensBounded' /\ TokensGenuine'
    BY DEF HTypeOK, ReadsBracketed, TokensBounded, TokensGenuine
  <2>4. OwnerPushes' /\ LateFenced'
    BY DEF HTypeOK, OwnerPushes, LateFenced, Pushing
  <2> QED
    BY <2>1, <2>2, <2>3, <2>4
<1>7. CASE RollbackLoadTail \/ RollbackLoadHead \/ RollbackCheck \/ RollbackFails
  <2> USE <1>7 DEF RollbackLoadTail, RollbackLoadHead, RollbackCheck, RollbackFails,
                   ring, cell, worker, history, cells
  <2>1. UNCHANGED <<epoch, owner, published, heir, reaped, loc, seen, token, late>>
        /\ UNCHANGED <<tail, head, sequence, payload, corruption, pc, pos, arg, log>>
    OBVIOUS
  <2>2. view' \in Nat /\ tpc' \in {"idle", "loadTail", "loadHead", "loadSeq", "casTail"}
        /\ tpc \notin {"casOwner", "publish"}
        /\ (tpc' \in {"loadSeq", "casTail"} => view' > 0)
    BY DEF HTypeOK, TypeOK, RingShape
  <2>3. HTypeOK'
    BY <2>1, <2>2 DEF HTypeOK, TypeOK
  <2> QED
    BY <2>1, <2>2, <2>3 DEF RingShape, LogCoversClaims, CellStable, ReadsBracketed, TokensBounded,
       TokensGenuine, OwnerPushes, LateFenced, Pushing
<1>8. CASE Rollback
  <2> USE <1>8 DEF Rollback, cell, worker, history, cells
  <2>1. UNCHANGED <<epoch, owner, published, heir, view, reaped, loc, seen, token, late>>
        /\ UNCHANGED <<head, sequence, payload, corruption, pc, pos, arg>>
    OBVIOUS
  <2>2. view > 0 /\ view \in Nat /\ tail = view /\ Len(log) = view /\ log \in Seq(Items)
    BY DEF HTypeOK, TypeOK, RingShape, LogCoversClaims
  <2>3. view - 1 \in Nat /\ log' = SubSeq(log, 1, view - 1)
        /\ log' \in Seq(Items) /\ Len(log') = view - 1
    BY <2>2
  <2>4. HTypeOK'
    BY <2>1, <2>2, <2>3 DEF HTypeOK, TypeOK
  <2> QED
    BY <2>1, <2>2, <2>3, <2>4 DEF RingShape, LogCoversClaims, CellStable, ReadsBracketed,
       TokensBounded, TokensGenuine, OwnerPushes, LateFenced, Pushing
<1> QED
  BY <1>1, <1>2, <1>3, <1>4, <1>5, <1>6, <1>7, <1>8 DEF Supervise

(* Every step of every worker, and of a supervisor that crashes nowhere but    *)
(* may stop in failsafe, keeps the invariant.                                  *)
LEMMA HandoffStep == HInd /\ [HNext]_hvars => HInd'
<1> SUFFICES ASSUME HInd, [HNext]_hvars PROVE HInd'
  OBVIOUS
<1>1. CASE UNCHANGED hvars
  BY <1>1 DEF hvars, ring, cell, worker, supv, history, cells, HInd, HTypeOK, TypeOK, RingShape,
     LogCoversClaims, CellStable, ReadsBracketed, TokensBounded, TokensGenuine, OwnerPushes,
     LateFenced, Pushing
<1>2. CASE HNext
  BY <1>2, WorkerStep, WorkerPushes, SupervisorStep DEF HNext, Work
<1> QED
  BY <1>1, <1>2

(* The ownership protocol's invariant, for any number of workers.              *)
THEOREM HandoffInvariant == HSpec => []HInd
BY HandoffInit, HandoffStep, PTL DEF HSpec

(* The words of the region keep their types through crashes and rollbacks, and  *)
(* two workers are never inside push() of one ring as long as rings are only    *)
(* taken from dead owners.                                                      *)
THEOREM HandoffSafety == HSpec => []HandoffInv
<1>1. HInd => HandoffInv
  BY DEF HInd, OwnerPushes, HandoffInv, SingleProducer
<1> QED
  BY <1>1, HandoffInvariant, PTL

(* read_ownership never hands out a torn pair of epoch and owner.               *)
THEOREM HandoffTokens == HSpec => []TokensGenuine
<1>1. HInd => TokensGenuine
  BY DEF HInd
<1> QED
  BY <1>1, HandoffInvariant, PTL

(* A worker whose ring was taken away, dead or alive, commits at most the one    *)
(* record it was already pushing.                                               *)
THEOREM HandoffFenced == HSpec => []FencedAfterOne
<1>1. HInd => FencedAfterOne
  BY DEF HInd, LateFenced, FencedAfterOne
<1> QED
  BY <1>1, HandoffInvariant, PTL

-----------------------------------------------------------------------------
(* Delivery across handoffs: with one producer at a time, the drain gets what *)
(* was committed, in order, whatever a rollback does to tail_.                *)

(* A slot that says "p committed" is not one that says "ready for q".         *)
LEMMA SlotDiffers ==
  ASSUME NEW p \in Nat, NEW q \in Nat, sequence[Slot(p)] = p + 1, sequence[Slot(q)] = q
  PROVE  Slot(p) # Slot(q)
<1> SUFFICES ASSUME Slot(p) = Slot(q) PROVE FALSE
  OBVIOUS
<1>1. q = p + 1
  OBVIOUS
<1> QED
  BY <1>1, SlotDistinct, SlotCountAssumption

(* The words the delivery invariant reads, besides loc and reaped.            *)
prefixWords == <<tail, head, sequence, payload, pc, pos, arg, committed, delivered>>

(* The delivery invariant, inside its scope.                                  *)
Core ==
  /\ OnlyOwnersPushed /\ DrainExact /\ OwnerReady
  /\ RingDense \/ \E h \in 0 .. Len(committed) : HoleAt(h)

(* Types of the words the arguments below compute with.                       *)
LEMMA CoreTypes ==
  ASSUME HInd, Core
  PROVE  /\ tail \in Nat /\ head \in Nat /\ epoch \in Nat /\ owner \in Producers
         /\ Sup \in Threads /\ Sup \notin Producers /\ Sup \in Consumers
         /\ SlotCount \in Nat /\ SlotCount >= 2
         /\ sequence \in [Slots -> Nat]
         /\ \A t \in Threads : pos[t] \in Nat
         /\ Len(committed) \in Nat /\ Len(delivered) \in Nat
BY SlotCountAssumption, ThreadsAssumption, HandoffAssumption
   DEF HInd, HTypeOK, TypeOK, Core, DrainExact, Threads

(* No slot is ready for a position a lap or more ahead of head.               *)
LEMMA ReadyInWindow ==
  ASSUME HInd, Core, NEW q \in Nat, sequence[Slot(q)] = q
  PROVE  q < head + SlotCount
<1> SUFFICES ASSUME q >= head + SlotCount PROVE FALSE
  BY CoreTypes
<1> DEFINE p == NextAt(Slot(q), head)
<1>t. head \in Nat /\ SlotCount \in Nat /\ SlotCount >= 2 /\ Len(committed) \in Nat
      /\ sequence \in [Slots -> Nat]
  BY CoreTypes
<1>1. p \in head .. head + SlotCount - 1 /\ p \in Nat /\ Slot(p) = Slot(q) /\ p < q
  <2>1. Slot(q) \in Slots
    BY SlotType
  <2>2. p \in head .. head + SlotCount - 1 /\ Slot(p) = Slot(q)
    BY <1>t, <2>1, NextAtType
  <2> QED
    BY <1>t, <2>2
<1> HIDE DEF p
<1>2. p + SlotCount <= q
  BY <1>1, SlotApart
<1>3. sequence[Slot(p)] <= p + 1
  <2>1. CASE RingDense
    <3>1. p < Len(committed) => sequence[Slot(p)] = p + 1
      BY <1>t, <1>1, <2>1 DEF RingDense, ReadyUpTo
    <3>2. p >= Len(committed) => FreeSlot(p)
      BY <1>t, <1>1, <2>1 DEF RingDense
    <3> QED
      BY <1>t, <1>1, <3>1, <3>2 DEF FreeSlot
  <2>2. ASSUME NEW h \in 0 .. Len(committed), HoleAt(h)
        PROVE  sequence[Slot(p)] <= p + 1
    <3>1. p < h => sequence[Slot(p)] = p + 1
      BY <1>t, <1>1, <2>2 DEF HoleAt, ReadyUpTo
    <3>2. p = h => sequence[Slot(p)] = p
      BY <2>2 DEF HoleAt
    <3>3. p > h => FreeSlot(p) \/ sequence[Slot(p)] = p + 1
      BY <1>t, <1>1, <2>2 DEF HoleAt
    <3> QED
      BY <1>t, <1>1, <3>1, <3>2, <3>3 DEF FreeSlot
  <2> QED
    BY <2>1, <2>2 DEF Core
<1> QED
  BY <1>1, <1>2, <1>3, CoreTypes

(* The drain holds nothing but the position before head.                      *)
LEMMA SupIsReader ==
  ASSUME HInd, Core, Reading(Sup)
  PROVE  /\ pos[Sup] \in Nat /\ pos[Sup] + 1 = head
         /\ sequence[Slot(pos[Sup])] = pos[Sup] + 1
BY CoreTypes DEF Core, DrainExact

(* A step that changes none of the words.                                     *)
LEMMA CoreFrame ==
  ASSUME DrainExact, OwnerReady, RingDense \/ \E h \in 0 .. Len(committed) : HoleAt(h),
         UNCHANGED prefixWords, UNCHANGED <<owner, epoch, caller, tpc>>
  PROVE  /\ DrainExact' /\ OwnerReady'
         /\ (RingDense \/ \E h \in 0 .. Len(committed) : HoleAt(h))'
<1> USE DEF prefixWords
<1>1. DrainExact' /\ OwnerReady'
  BY DEF DrainExact, OwnerReady, Taken, Reading
<1>2. RingDense' = RingDense
  BY DEF RingDense, ReadyUpTo, FreeSlot, RollingBack, InFlight, Reading, Writing
<1>3. ASSUME NEW h \in 0 .. Len(committed), HoleAt(h)
      PROVE  HoleAt(h)'
  BY <1>3 DEF HoleAt, ReadyUpTo, FreeSlot, RollingBack, InFlight, Reading, Writing
<1> QED
  BY <1>1, <1>2, <1>3

LEMMA PrefixInit == HInit => PrefixInd
<1> SUFFICES ASSUME HInit PROVE Core
  BY DEF PrefixInd, Core
<1> USE HandoffAssumption, SlotCountAssumption DEF HInit, Init, Threads
<1>1. ASSUME NEW p \in 0 .. SlotCount - 1
      PROVE  sequence[Slot(p)] = p
  <2>1. p % SlotCount = p
    BY RemainderUnique
  <2> QED
    BY <2>1 DEF Slot, Slots
<1>2. pc[Sup] = "idle" /\ \A w \in Producers : pc[w] = "idle"
  OBVIOUS
<1>3. OnlyOwnersPushed /\ OwnerReady
  BY <1>2 DEF OnlyOwnersPushed, OwnerReady, RollingBack
<1>4. DrainExact
  BY <1>2 DEF DrainExact, Taken, Reading
<1>5. RingDense
  BY <1>1, <1>2 DEF RingDense, ReadyUpTo, FreeSlot, RollingBack, InFlight, Reading, Writing
<1> QED
  BY <1>3, <1>4, <1>5 DEF Core

(* A worker outside push(), or dying.                                         *)
LEMMA WorkerPrefix ==
  ASSUME HInd, Core, UNCHANGED caller, NEW w \in Producers,
         LoadEpoch(w) \/ LoadOwner(w) \/ Retry(w) \/ Acknowledge(w) \/ Validate(w) \/ Crash(w)
  PROVE  Core'
<1> USE DEF LoadEpoch, LoadOwner, Retry, Acknowledge, Validate, Crash, ring, cell, supv, history,
            cells
<1>1. UNCHANGED prefixWords /\ UNCHANGED <<owner, epoch, caller, tpc, heir, reaped>>
  BY DEF prefixWords
<1>2. OnlyOwnersPushed'
  <2>1. \A v \in Producers : loc'[v] \notin {"push", "dead"} => loc[v] \notin {"push", "dead"}
    BY DEF HInd, HTypeOK, Alive
  <2> HIDE DEF LoadEpoch, LoadOwner, Retry, Acknowledge, Validate, Crash
  <2> QED
    BY <1>1, <2>1 DEF Core, OnlyOwnersPushed, prefixWords, RollingBack
<1> QED
  BY <1>1, <1>2, CoreFrame DEF Core

-----------------------------------------------------------------------------
(* The owner's push.                                                          *)

(* What a step of push() leaves alone, and who takes it.                      *)
PushFrame(w) ==
  /\ w \in Producers /\ w = owner /\ w # Sup
  /\ tpc \notin {"casEpoch", "casOwner"}
  /\ UNCHANGED <<head, owner, epoch, caller, tpc, delivered>>
  /\ pc'[Sup] = pc[Sup] /\ pos'[Sup] = pos[Sup] /\ arg'[Sup] = arg[Sup]

(* The ring part of the invariant.                                            *)
RingPart == RingDense \/ \E h \in 0 .. Len(committed) : HoleAt(h)

(* A step that leaves the shared words and the owner's window alone.          *)
LEMMA PushPrivate ==
  ASSUME HInd, Core, NEW w, PushFrame(w),
         UNCHANGED <<tail, sequence, payload, committed>>,
         ~Writing(w), ~Writing(w)',
         pc'[w] = "casTail" => sequence[Slot(pos'[w])] = pos'[w]
  PROVE  DrainExact' /\ OwnerReady' /\ RingPart'
<1> USE DEF PushFrame
<1>1. DrainExact'
  BY DEF Core, DrainExact, Taken, Reading
<1>2. OwnerReady'
  BY DEF OwnerReady, Writing
<1>3. InFlight' = 0 /\ InFlight = 0 /\ ~Writing(owner) /\ ~Writing(owner)'
      /\ (Reading(Sup)' <=> Reading(Sup)) /\ (RollingBack' <=> RollingBack)
  BY DEF InFlight, Reading, Writing, RollingBack
<1>4. ASSUME RingDense PROVE RingDense'
  BY <1>3, <1>4 DEF RingDense, ReadyUpTo, FreeSlot
<1>5. ASSUME NEW h \in 0 .. Len(committed), HoleAt(h)
      PROVE  HoleAt(h)'
  BY <1>3, <1>5 DEF HoleAt, ReadyUpTo, FreeSlot
<1> QED
  BY <1>1, <1>2, <1>4, <1>5 DEF Core, RingPart

LEMMA ClaimPrefix ==
  ASSUME HInd, Core, NEW w, PushFrame(w), PushClaim(w), UNCHANGED committed
  PROVE  DrainExact' /\ OwnerReady' /\ RingPart'
<1> USE DEF PushFrame
<1> DEFINE k == Len(committed)
           n == SlotCount
<1>1. /\ tail \in Nat /\ head \in Nat /\ n \in Nat /\ n >= 2 /\ k \in Nat
      /\ tail = pos[w] /\ tail' = tail + 1 /\ pc[w] = "casTail"
      /\ sequence[Slot(tail)] = tail
      /\ UNCHANGED <<sequence, payload, pos, arg, committed>>
      /\ pc'[w] = "write" /\ w \in Threads
  BY CoreTypes DEF PushClaim, Goto, cells, Core, OwnerReady, HInd, HTypeOK, TypeOK, Threads
<1>2. DrainExact' /\ OwnerReady'
  BY <1>1 DEF Core, DrainExact, OwnerReady, Taken, Reading
<1>3. InFlight = 0 /\ InFlight' = 1 /\ ~Writing(owner) /\ Writing(owner)' /\ pos'[owner] = tail
      /\ (Reading(Sup)' <=> Reading(Sup)) /\ (RollingBack' <=> RollingBack)
  BY <1>1 DEF InFlight, Reading, Writing, RollingBack
<1>4. tail < head + n
  BY <1>1, ReadyInWindow
<1> HIDE DEF k, n
<1>5. ASSUME RingDense PROVE RingDense'
  <2>1. tail = k
    <3> SUFFICES ASSUME tail = k - 1 PROVE FALSE
      BY <1>1, <1>3, <1>5 DEF RingDense, k
    <3>1. CASE head < k
      BY <1>1, <1>5, <3>1 DEF RingDense, ReadyUpTo, k
    <3>2. CASE head = k
      <4>1. Slot(tail + n) = Slot(tail)
        BY <1>1, SlotNextLap DEF n
      <4>2. FreeSlot(tail + n)
        BY <1>1, <1>5, <3>2 DEF RingDense, k, n
      <4> QED
        BY <1>1, <4>1, <4>2 DEF FreeSlot, n
    <3> QED
      BY <1>1, <1>5, <3>1, <3>2 DEF RingDense, ReadyUpTo, k
  <2> QED
    BY <1>1, <1>3, <1>5, <2>1 DEF RingDense, ReadyUpTo, FreeSlot, k
<1>6. ASSUME NEW h \in 0 .. Len(committed), HoleAt(h)
      PROVE  HoleAt(h)'
  BY <1>1, <1>3, <1>4, <1>6 DEF HoleAt, ReadyUpTo, FreeSlot, k, n
<1> QED
  BY <1>1, <1>2, <1>5, <1>6 DEF Core, RingPart

LEMMA WritePrefix ==
  ASSUME HInd, Core, NEW w, PushFrame(w), PushWrite(w), UNCHANGED committed
  PROVE  DrainExact' /\ OwnerReady' /\ RingPart'
<1> USE DEF PushFrame
<1> DEFINE q == pos[w]
           s == Slot(q)
<1>1. /\ tail \in Nat /\ head \in Nat /\ SlotCount \in Nat /\ Len(committed) \in Nat
      /\ q \in Nat /\ sequence[s] = q /\ pc[w] = "write" /\ s \in Slots
      /\ UNCHANGED <<tail, sequence, pos, arg, committed>>
      /\ payload' = [payload EXCEPT ![s] = arg[w]] /\ payload \in [Slots -> Items \cup {NoItem}]
      /\ pc'[w] = "commit" /\ w \in Threads
  BY CoreTypes, SlotType
  DEF PushWrite, Goto, Core, OwnerReady, HInd, HTypeOK, TypeOK, Threads
<1> HIDE DEF q, s
<1>2. \A p \in Nat : sequence[Slot(p)] = p + 1 =>
                       payload'[Slot(p)] = payload[Slot(p)]
  BY <1>1, SlotDiffers, SlotType DEF s
<1>3. DrainExact'
  BY <1>1, <1>2, SupIsReader DEF Core, DrainExact, Taken, Reading
<1>4. OwnerReady'
  BY <1>1 DEF Core, OwnerReady, q, s
<1>5. InFlight' = InFlight /\ (Writing(owner)' <=> Writing(owner))
      /\ (Reading(Sup)' <=> Reading(Sup)) /\ (RollingBack' <=> RollingBack)
  BY <1>1 DEF InFlight, Reading, Writing, RollingBack
<1>6. ASSUME NEW c \in 0 .. Len(committed), ReadyUpTo(c) PROVE ReadyUpTo(c)'
  BY <1>1, <1>2, <1>6 DEF ReadyUpTo
<1>7. ASSUME RingDense PROVE RingDense'
  BY <1>1, <1>5, <1>6, <1>7 DEF RingDense, FreeSlot
<1>8. ASSUME NEW h \in 0 .. Len(committed), HoleAt(h)
      PROVE  HoleAt(h)'
  BY <1>1, <1>5, <1>6, <1>8 DEF HoleAt, FreeSlot
<1> QED
  BY <1>1, <1>3, <1>4, <1>7, <1>8 DEF Core, RingPart

LEMMA CommitPrefix ==
  ASSUME HInd, Core, NEW w, PushFrame(w), PushCommit(w), committed' = Append(committed, arg[w])
  PROVE  DrainExact' /\ OwnerReady' /\ RingPart'
<1> USE DEF PushFrame
<1> DEFINE q == pos[w]
           v == arg[w]
<1>k. PICK k \in Nat : k = Len(committed)
  BY CoreTypes
<1>1. /\ tail \in Nat /\ head \in Nat /\ SlotCount \in Nat /\ SlotCount >= 2 /\ k \in Nat
      /\ q \in Nat /\ sequence[Slot(q)] = q /\ payload[Slot(q)] = v /\ pc[w] = "commit"
      /\ UNCHANGED <<tail, payload, pos>>
      /\ sequence' = [sequence EXCEPT ![Slot(q)] = q + 1] /\ sequence \in [Slots -> Nat]
      /\ pc'[w] = "idle" /\ w \in Threads /\ v \in Items
      /\ Slot(q) \in Slots
  BY CoreTypes, SlotType
  DEF PushCommit, Goto, Core, OwnerReady, HInd, HTypeOK, RingShape, TypeOK, Threads
<1>2. /\ committed' \in Seq(Items) /\ Len(committed') = k + 1 /\ committed'[k + 1] = v
      /\ \A i \in 1 .. k : committed'[i] = committed[i]
  BY <1>k, <1>1 DEF Core, DrainExact
<1>3. q < head + SlotCount
  BY <1>1, ReadyInWindow
<1> HIDE DEF q, v
<1>4. \A p \in Nat : sequence[Slot(p)] = p + 1 => sequence'[Slot(p)] = p + 1
  BY <1>1, SlotDiffers, SlotType
<1>5. DrainExact'
  <2>1. head <= k /\ Len(delivered) <= k /\ Len(delivered) \in Nat
    BY <1>k, <1>1, CoreTypes DEF Core, DrainExact, Taken
  <2>2. /\ committed' \in Seq(Items) /\ delivered' \in Seq(Items \cup {NoItem})
        /\ head' <= Len(committed') /\ Len(delivered') = Taken'
    BY <1>1, <1>2, <2>1 DEF Core, DrainExact, Taken, Reading
  <2>3. (\A i \in 1 .. Len(delivered) : delivered[i] = Got(committed[i]))'
    BY <1>1, <1>2, <2>1 DEF Core, DrainExact, Got
  <2>4. pc[Sup] = "casHead" => sequence'[Slot(head)] = head + 1
    BY <1>1, <1>4 DEF Core, DrainExact
  <2>5. Reading(Sup) => sequence'[Slot(pos[Sup])] = head /\ pos[Sup] + 1 = head
                        /\ committed'[head] = committed[head]
    <3> SUFFICES ASSUME Reading(Sup)
                 PROVE  sequence'[Slot(pos[Sup])] = head /\ pos[Sup] + 1 = head
                        /\ committed'[head] = committed[head]
      OBVIOUS
    <3>1. pos[Sup] \in Nat /\ pos[Sup] + 1 = head /\ sequence[Slot(pos[Sup])] = pos[Sup] + 1
      BY SupIsReader
    <3>2. sequence'[Slot(pos[Sup])] = pos[Sup] + 1
      BY <1>4, <3>1
    <3>3. head \in 1 .. k
      BY <1>1, <2>1, <3>1
    <3> QED
      BY <1>2, <3>1, <3>2, <3>3
  <2> QED
    BY <1>1, <2>2, <2>3, <2>4, <2>5 DEF Core, DrainExact, Reading, Got
<1>6. OwnerReady'
  BY <1>1 DEF OwnerReady
<1>7. InFlight = 1 /\ InFlight' = 0 /\ Writing(owner) /\ ~Writing(owner)'
      /\ (Reading(Sup)' <=> Reading(Sup)) /\ (RollingBack' <=> RollingBack)
  BY <1>1 DEF InFlight, Reading, Writing, RollingBack
<1>8. ASSUME NEW c \in 0 .. k, ReadyUpTo(c) PROVE ReadyUpTo(c)'
  BY <1>k, <1>1, <1>2, <1>4, <1>8 DEF ReadyUpTo
<1>9. ASSUME NEW p \in Nat, head <= p, p < head + SlotCount, head <= q, p # q
      PROVE  /\ sequence'[Slot(p)] = sequence[Slot(p)]
             /\ FreeSlot(p) => FreeSlot(p)'
  <2>1. Slot(p) # Slot(q) /\ Slot(p) \in Slots
    <3>1. p < q + SlotCount /\ q < p + SlotCount
      BY <1>1, <1>3, <1>9
    <3> QED
      BY <1>1, <1>9, <3>1, SlotDistinct, SlotType
  <2> QED
    BY <1>1, <1>7, <2>1 DEF FreeSlot
<1>10. ASSUME RingDense PROVE RingDense'
  <2>1. q = k /\ ReadyUpTo(k) /\ head <= k
    BY <1>k, <1>7, <1>10 DEF RingDense, ReadyUpTo, q
  <2>2. ReadyUpTo(k + 1)'
    <3>1. ReadyUpTo(k)'
      BY <1>1, <1>8, <2>1
    <3>2. sequence'[Slot(k)] = k + 1 /\ payload'[Slot(k)] = committed'[k + 1]
      BY <1>1, <1>2, <2>1
    <3>3. k + 1 <= head + SlotCount
      BY <1>1, <1>3, <2>1
    <3>4. ASSUME NEW p \in head .. k
          PROVE  sequence'[Slot(p)] = p + 1 /\ payload'[Slot(p)] = committed'[p + 1]
      <4>1. p \in head .. k - 1 \/ p = k
        BY <1>k, <1>1, <3>4
      <4>2. \A r \in head .. k - 1 :
              sequence'[Slot(r)] = r + 1 /\ payload'[Slot(r)] = committed'[r + 1]
        BY <1>1, <3>1 DEF ReadyUpTo
      <4> QED
        BY <3>2, <4>1, <4>2
    <3> QED
      BY <1>1, <1>2, <2>1, <3>3, <3>4 DEF ReadyUpTo
  <2>3. ASSUME NEW p \in k + 1 .. head + SlotCount - 1 PROVE FreeSlot(p)'
    <3>1. p \in Nat /\ head <= p /\ p < head + SlotCount /\ head <= q /\ p # q
      BY <1>1, <2>1, <2>3
    <3>2. FreeSlot(p)
      BY <1>k, <1>1, <1>10, <2>1, <2>3 DEF RingDense
    <3> QED
      BY <1>9, <3>1, <3>2
  <2>4. tail \in {k, k + 1} /\ (RollingBack \/ (caller = "direct" /\ epoch <= 3) => tail = k + 1)
    BY <1>k, <1>1, <1>7, <1>10 DEF RingDense
  <2> HIDE DEF PushFrame
  <2>5. UNCHANGED <<head, owner, epoch, caller, tpc, tail>> /\ tpc \notin {"casEpoch", "casOwner"}
    BY <1>1 DEF PushFrame
  <2> QED
    BY <1>1, <1>2, <1>7, <2>2, <2>3, <2>4, <2>5 DEF RingDense
<1>11. ASSUME NEW h \in 0 .. Len(committed), HoleAt(h)
      PROVE  HoleAt(h)'
  <2>1. h < q /\ ReadyUpTo(h) /\ head <= h /\ h < head + SlotCount /\ h \in Nat /\ h <= k
    <3>1. h < q /\ ReadyUpTo(h) /\ h < head + SlotCount
      BY <1>7, <1>11 DEF HoleAt, q
    <3>2. h \in Nat /\ h <= k
      BY <1>k, <1>11
    <3> QED
      BY <3>1, <3>2 DEF ReadyUpTo
  <2>2. ReadyUpTo(h)' /\ sequence'[Slot(h)] = h
    BY <1>1, <1>8, <1>9, <1>11, <2>1 DEF HoleAt
  <2>3. ASSUME NEW p \in h + 1 .. head + SlotCount - 1
        PROVE  (FreeSlot(p) \/ sequence[Slot(p)] = p + 1)'
    <3>1. CASE p = q
      BY <1>1, <3>1
    <3>2. CASE p # q
      <4>1. p \in Nat /\ head <= p /\ p < head + SlotCount /\ head <= q
        BY <1>1, <2>1, <2>3
      <4>2. FreeSlot(p) \/ sequence[Slot(p)] = p + 1
        BY <1>11, <2>3 DEF HoleAt
      <4> QED
        BY <1>9, <3>2, <4>1, <4>2
    <3> QED
      BY <3>1, <3>2
  <2>4. ASSUME RollingBack
        PROVE  tail = k + 2 /\ q = k + 1 /\ \A p \in k + 2 .. head + SlotCount - 1 : FreeSlot(p)'
    <3>1. tail = k + 2 /\ q = k + 1 /\ \A p \in k + 1 .. head + SlotCount - 1 : FreeSlot(p)
      BY <1>k, <1>1, <1>7, <1>11, <2>4 DEF HoleAt, q
    <3>2. ASSUME NEW p \in k + 2 .. head + SlotCount - 1 PROVE FreeSlot(p)'
      <4>1. p \in Nat /\ head <= p /\ p < head + SlotCount /\ head <= q /\ p # q
        BY <1>1, <2>1, <3>1, <3>2
      <4> QED
        BY <1>1, <1>9, <3>1, <4>1
    <3> QED
      BY <3>1, <3>2
  <2> QED
    BY <1>k, <1>1, <1>2, <1>7, <1>11, <2>1, <2>2, <2>3, <2>4 DEF HoleAt
<1> QED
  BY <1>k, <1>1, <1>2, <1>5, <1>6, <1>10, <1>11 DEF Core, RingPart

(* A step of push(), whole.                                                   *)
LEMMA PushPrefix ==
  ASSUME HInd, Core, UNCHANGED caller, caller # "takeover", NEW w \in Producers, PushStep(w)
  PROVE  Core'
<1> USE DEF PushStep
<1>1. w = owner /\ loc[w] = "push" /\ tpc \notin {"casEpoch", "casOwner"} /\ w # Sup
      /\ w \in Threads /\ Sup \in Threads
  BY CoreTypes DEF HInd, OwnerPushes, Pushing, Threads
<1>2. \A t \in Threads \ {w} : pc'[t] = pc[t] /\ pos'[t] = pos[t] /\ arg'[t] = arg[t]
  BY <1>1 DEF HInd, HTypeOK, TypeOK, Push, PushStart, PushLoadTail, PushCheck, PushClaim,
     PushClaimFails, PushWrite, PushCommit, Goto
<1>3. UNCHANGED <<owner, epoch, tpc, heir, reaped, delivered, head>>
  BY DEF cell, supv, Push, PushStart, PushLoadTail, PushCheck, PushClaim, PushClaimFails,
     PushWrite, PushCommit
<1>4. PushFrame(w)
  BY <1>1, <1>2, <1>3 DEF PushFrame
<1>5. OnlyOwnersPushed'
  <2>1. \A v \in Producers \ {w} : loc'[v] = loc[v] /\ pc'[v] = pc[v]
    BY <1>1, <1>2 DEF HInd, HTypeOK, Threads
  <2>2. loc'[w] \notin {"push", "dead"} => pc'[w] = "idle"
    BY DEF HInd, HTypeOK
  <2> QED
    BY <1>1, <1>3, <2>1, <2>2 DEF Core, OnlyOwnersPushed, RollingBack
<1>6. DrainExact' /\ OwnerReady' /\ RingPart'
  <2>1. CASE PushStart(w) \/ PushLoadTail(w) \/ PushCheck(w) \/ PushClaimFails(w)
    <3> USE <1>1 DEF Goto, cells
    <3>t. pc \in [Threads -> PushPcs \cup PopPcs] /\ pos \in [Threads -> Nat]
          /\ sequence[Slot(pos[w])] \in Nat
      BY SlotType DEF HInd, HTypeOK, TypeOK
    <3>1. /\ UNCHANGED <<tail, sequence, payload, committed>>
          /\ pc[w] \notin {"write", "commit"} /\ pc'[w] \notin {"write", "commit"}
          /\ pc'[w] = "casTail" => sequence[Slot(pos'[w])] = pos'[w]
      <4>1. CASE PushStart(w)
        BY <3>t, <4>1 DEF PushStart
      <4>2. CASE PushLoadTail(w)
        BY <3>t, <4>2 DEF PushLoadTail
      <4>3. CASE PushCheck(w)
        BY <3>t, <4>3 DEF PushCheck
      <4>4. CASE PushClaimFails(w)
        BY <3>t, <4>4 DEF PushClaimFails
      <4> QED
        BY <2>1, <4>1, <4>2, <4>3, <4>4
    <3> QED
      BY <1>4, <3>1, PushPrivate DEF Writing
  <2>2. CASE PushClaim(w)
    BY <1>4, <2>2, ClaimPrefix DEF PushClaim
  <2>3. CASE PushWrite(w)
    BY <1>4, <2>3, WritePrefix DEF PushWrite
  <2>4. CASE PushCommit(w)
    BY <1>4, <2>4, CommitPrefix DEF PushCommit
  <2> QED
    BY <2>1, <2>2, <2>3, <2>4 DEF Push
<1> QED
  BY <1>5, <1>6 DEF Core, RingPart

-----------------------------------------------------------------------------
(* The supervisor's drain.                                                    *)

(* What a step of the drain leaves alone.                                     *)
PopFrame ==
  /\ tpc = "idle"
  /\ UNCHANGED <<tail, payload, committed, owner, epoch, caller, tpc>>
  /\ pc'[owner] = pc[owner] /\ pos'[owner] = pos[owner] /\ arg'[owner] = arg[owner]

LEMMA PopFrameKeeps ==
  ASSUME PopFrame
  PROVE  /\ InFlight' = InFlight /\ (Writing(owner)' <=> Writing(owner))
         /\ ~RollingBack /\ ~RollingBack'
BY DEF PopFrame, InFlight, Writing, RollingBack

(* A step that leaves the shared words and the drain's window alone.          *)
LEMMA PopPrivate ==
  ASSUME HInd, Core, PopFrame, UNCHANGED <<head, sequence>>,
         Reading(Sup)' <=> Reading(Sup), Reading(Sup) => pos'[Sup] = pos[Sup]
  PROVE  OwnerReady' /\ RingPart'
<1>1. OwnerReady'
  BY DEF Core, PopFrame, OwnerReady
<1>2. ASSUME NEW p PROVE FreeSlot(p)' = FreeSlot(p)
  BY DEF FreeSlot
<1>3. ASSUME NEW c PROVE ReadyUpTo(c)' = ReadyUpTo(c)
  BY DEF ReadyUpTo, PopFrame
<1>4. ASSUME RingDense PROVE RingDense'
  BY <1>2, <1>3, <1>4, PopFrameKeeps DEF PopFrame, RingDense
<1>5. ASSUME NEW h \in 0 .. Len(committed), HoleAt(h)
      PROVE  HoleAt(h)'
  BY <1>2, <1>3, <1>5, PopFrameKeeps DEF PopFrame, HoleAt
<1> QED
  BY <1>1, <1>4, <1>5 DEF Core, RingPart, PopFrame

(* The claim of head_: the slot it found committed is the next record.        *)
LEMMA TakePrefix ==
  ASSUME HInd, Core, PopFrame, PopClaim(Sup), UNCHANGED delivered
  PROVE  DrainExact' /\ OwnerReady' /\ RingPart'
<1>1. /\ head \in Nat /\ SlotCount \in Nat /\ SlotCount >= 2 /\ Sup \in Threads
      /\ Sup \in Consumers /\ pc \in [Threads -> PushPcs \cup PopPcs]
      /\ Len(committed) \in Nat
      /\ Slot(head + SlotCount) = Slot(head)
  BY CoreTypes, SlotNextLap DEF HInd, HTypeOK, TypeOK
<1>2. /\ pc[Sup] = "casHead" /\ pos[Sup] = head /\ head' = head + 1 /\ pc'[Sup] = "read"
      /\ UNCHANGED <<sequence, payload, pos, arg, committed, delivered>>
      /\ sequence[Slot(head)] = head + 1 /\ arg[Sup] = NoItem
      /\ ~Reading(Sup) /\ Reading(Sup)' /\ pos'[Sup] = head
  BY <1>1 DEF PopClaim, Goto, cells, Core, DrainExact, Reading, PopFrame
<1>3. ASSUME NEW c \in 0 .. Len(committed), ReadyUpTo(c), head < c
      PROVE  ReadyUpTo(c)' /\ payload[Slot(head)] = committed[head + 1]
  BY <1>1, <1>2, <1>3 DEF ReadyUpTo, PopFrame
<1>4. ASSUME NEW p \in Nat, FreeSlot(p) PROVE sequence[Slot(p)] = p /\ FreeSlot(p)'
  BY <1>2, <1>4 DEF FreeSlot
<1>5. ASSUME NEW p \in Nat, p = head + SlotCount PROVE FreeSlot(p)'
  BY <1>1, <1>2, <1>5 DEF FreeSlot
<1>6. OwnerReady'
  BY <1>2 DEF Core, PopFrame, OwnerReady
<1>7. ASSUME RingDense
      PROVE  RingDense' /\ head < Len(committed) /\ payload[Slot(head)] = committed[head + 1]
  <2>1. ReadyUpTo(Len(committed)) /\ head <= Len(committed)
    BY <1>7 DEF RingDense, ReadyUpTo
  <2>2. head # Len(committed)
    <3> SUFFICES ASSUME head = Len(committed) PROVE FALSE
      OBVIOUS
    <3>1. FreeSlot(head)
      BY <1>1, <1>7 DEF RingDense
    <3> QED
      BY <1>1, <1>2, <1>4, <3>1
  <2>3. ReadyUpTo(Len(committed))' /\ payload[Slot(head)] = committed[head + 1]
    <3>1. PICK c \in 0 .. Len(committed) : c = Len(committed)
      BY <1>1
    <3>2. ReadyUpTo(c)' /\ payload[Slot(head)] = committed[head + 1]
      BY <1>1, <1>3, <2>1, <2>2, <3>1
    <3>3. c = Len(committed')
      BY <1>2, <3>1
    <3> QED
      BY <3>2, <3>3
  <2>4. ASSUME NEW p \in Len(committed) .. head + SlotCount
        PROVE  FreeSlot(p)'
    <3>1. CASE p = head + SlotCount
      BY <1>1, <1>5, <3>1
    <3>2. CASE p # head + SlotCount
      <4>1. p \in Nat /\ p \in Len(committed) .. head + SlotCount - 1
        BY <1>1, <2>4, <3>2
      <4> QED
        BY <1>4, <1>7, <4>1 DEF RingDense
    <3> QED
      BY <3>1, <3>2
  <2>5. head' + SlotCount - 1 = head + SlotCount
    BY <1>1, <1>2
  <2> QED
    BY <1>1, <1>2, <1>7, <2>1, <2>2, <2>3, <2>4, <2>5, PopFrameKeeps DEF RingDense, PopFrame
<1>8. ASSUME NEW h \in 0 .. Len(committed), HoleAt(h)
      PROVE  HoleAt(h)' /\ head < Len(committed) /\ payload[Slot(head)] = committed[head + 1]
  <2>1. ReadyUpTo(h) /\ head <= h /\ h # head
    <3>1. ReadyUpTo(h) /\ sequence[Slot(h)] = h
      BY <1>8 DEF HoleAt
    <3>2. head <= h
      BY <3>1 DEF ReadyUpTo
    <3>3. h # head
      BY <1>1, <1>2, <3>1
    <3> QED
      BY <3>1, <3>2, <3>3
  <2>2. ReadyUpTo(h)' /\ payload[Slot(head)] = committed[head + 1] /\ head < h /\ head < Len(committed)
    BY <1>1, <1>3, <2>1
  <2>3. ASSUME NEW p \in h + 1 .. head + SlotCount
        PROVE  (FreeSlot(p) \/ sequence[Slot(p)] = p + 1)'
    <3>1. CASE p = head + SlotCount
      BY <1>1, <1>5, <3>1
    <3>2. CASE p # head + SlotCount
      <4>1. p \in Nat /\ p \in h + 1 .. head + SlotCount - 1
        BY <1>1, <2>3, <3>2
      <4> QED
        BY <1>2, <1>4, <1>8, <4>1 DEF HoleAt
    <3> QED
      BY <3>1, <3>2
  <2>4. head' + SlotCount - 1 = head + SlotCount
    BY <1>1, <1>2
  <2>5. h < head' + SlotCount /\ (Writing(owner) => pos[owner] < head' + SlotCount)
    BY <1>1, <1>2, <1>8, CoreTypes DEF HoleAt, Threads
  <2> QED
    BY <1>1, <1>2, <1>8, <2>2, <2>3, <2>4, <2>5, PopFrameKeeps DEF HoleAt, PopFrame
<1>9. RingPart' /\ head < Len(committed) /\ payload[Slot(head)] = committed[head + 1]
  BY <1>2, <1>7, <1>8 DEF Core, RingPart
<1>10. DrainExact'
  BY <1>1, <1>2, <1>9 DEF Core, DrainExact, Taken, Reading
<1> QED
  BY <1>6, <1>9, <1>10

(* The release of the slot for the next lap, after a delivery or a refusal.    *)
LEMMA ReleasePrefix ==
  ASSUME HInd, Core, PopFrame, PopRelease(Sup), delivered' = Append(delivered, arg[Sup])
  PROVE  DrainExact' /\ OwnerReady' /\ RingPart'
<1> DEFINE s == pos[Sup]
<1>1. /\ head \in Nat /\ SlotCount \in Nat /\ SlotCount >= 2 /\ Sup \in Threads
      /\ Sup \in Consumers /\ pc \in [Threads -> PushPcs \cup PopPcs]
      /\ Len(committed) \in Nat /\ sequence \in [Slots -> Nat] /\ arg[Sup] \in Items \cup {NoItem}
  BY CoreTypes DEF HInd, HTypeOK, TypeOK
<1>2. /\ Reading(Sup) /\ ~Reading(Sup)' /\ pc[Sup] \in {"release", "skip"}
      /\ pc'[Sup] \in {"idle", "count"}
      /\ UNCHANGED <<head, payload, pos, arg, committed>>
      /\ sequence' = [sequence EXCEPT ![Slot(s)] = s + SlotCount]
  BY <1>1 DEF PopRelease, Goto, Reading, PopFrame
<1>3. s \in Nat /\ s + 1 = head /\ sequence[Slot(s)] = s + 1 /\ Slot(s) \in Slots
      /\ Slot(s + SlotCount) = Slot(s) /\ s' = s
  BY <1>2, SupIsReader, SlotType, SlotNextLap
<1> HIDE DEF s
<1>4. DrainExact'
  <2>1. /\ Len(delivered) = s /\ delivered \in Seq(Items \cup {NoItem})
        /\ arg[Sup] = Got(committed[head]) /\ head <= Len(committed)
        /\ \A i \in 1 .. Len(delivered) : delivered[i] = Got(committed[i])
    BY <1>1, <1>2, <1>3 DEF Core, DrainExact, Taken
  <2>2. /\ delivered' \in Seq(Items \cup {NoItem}) /\ Len(delivered') = head
        /\ delivered'[head] = arg[Sup] /\ \A i \in 1 .. s : delivered'[i] = delivered[i]
    BY <1>1, <1>3, <2>1
  <2>3. ASSUME NEW i \in 1 .. head PROVE delivered'[i] = Got(committed[i])
    <3>1. i \in 1 .. s \/ i = head
      BY <1>1, <1>3, <2>3
    <3> QED
      BY <2>1, <2>2, <3>1
  <2>4. (\A i \in 1 .. Len(delivered) : delivered[i] = Got(committed[i]))'
    BY <1>2, <2>2, <2>3 DEF Got
  <2> QED
    BY <1>1, <1>2, <2>1, <2>2, <2>4 DEF Core, DrainExact, Taken
<1>5. \A q \in Nat : sequence[Slot(q)] = q => sequence'[Slot(q)] = q
  BY <1>1, <1>2, <1>3, SlotDiffers, SlotType
<1>6. OwnerReady'
  BY <1>2, <1>5, CoreTypes DEF Core, OwnerReady, PopFrame, Threads
<1>7. ASSUME NEW p \in Nat, head <= p
      PROVE  sequence[Slot(p)] = p + 1 => sequence'[Slot(p)] = p + 1
  BY <1>1, <1>2, <1>3, <1>7, SlotType
<1>8. ASSUME NEW c \in 0 .. Len(committed), ReadyUpTo(c) PROVE ReadyUpTo(c)'
  BY <1>1, <1>2, <1>7, <1>8 DEF ReadyUpTo
<1>9. ASSUME NEW p \in Nat, FreeSlot(p) PROVE FreeSlot(p)'
  <2>1. CASE sequence[Slot(p)] = p
    BY <1>5, <2>1 DEF FreeSlot
  <2>2. CASE s = p - SlotCount
    <3>1. p = s + SlotCount
      BY <1>1, <1>3, <2>2
    <3>2. Slot(p) = Slot(s)
      BY <1>3, <3>1
    <3>3. sequence'[Slot(p)] = s + SlotCount
      BY <1>1, <1>2, <1>3, <3>2
    <3> QED
      BY <3>1, <3>3 DEF FreeSlot
  <2> QED
    BY <1>9, <2>1, <2>2 DEF FreeSlot, s
<1>10. ASSUME RingDense PROVE RingDense'
  <2>1. ReadyUpTo(Len(committed))'
    <3>1. PICK c \in 0 .. Len(committed) : c = Len(committed)
      BY <1>1
    <3>2. ReadyUpTo(c)'
      BY <1>8, <1>10, <3>1 DEF RingDense
    <3>3. c = Len(committed')
      BY <1>2, <3>1
    <3> QED
      BY <3>2, <3>3
  <2>2. \A p \in Len(committed) .. head + SlotCount - 1 : FreeSlot(p)'
    BY <1>1, <1>9, <1>10 DEF RingDense
  <2> QED
    BY <1>2, <1>10, <2>1, <2>2, PopFrameKeeps DEF RingDense, PopFrame
<1>11. ASSUME NEW h \in 0 .. Len(committed), HoleAt(h)
      PROVE  HoleAt(h)'
  <2>1. ReadyUpTo(h)' /\ head <= h /\ sequence'[Slot(h)] = h
    <3>1. ReadyUpTo(h) /\ sequence[Slot(h)] = h /\ h \in Nat
      BY <1>1, <1>11 DEF HoleAt
    <3> QED
      BY <1>5, <1>8, <3>1 DEF ReadyUpTo
  <2>2. ASSUME NEW p \in h + 1 .. head + SlotCount - 1
        PROVE  (FreeSlot(p) \/ sequence[Slot(p)] = p + 1)'
    <3>1. p \in Nat /\ head <= p
      BY <1>1, <2>1, <2>2
    <3> QED
      BY <1>7, <1>9, <1>11, <2>2, <3>1 DEF HoleAt
  <2> QED
    BY <1>2, <1>11, <2>1, <2>2, PopFrameKeeps DEF HoleAt, PopFrame
<1> QED
  BY <1>2, <1>4, <1>6, <1>10, <1>11 DEF Core, RingPart

(* A step of the drain, whole.                                                *)
LEMMA DrainPrefix ==
  ASSUME HInd, Core, UNCHANGED caller, Drain
  PROVE  Core'
<1> USE DEF Drain
<1>t. /\ Sup \in Consumers /\ Sup \in Threads /\ Sup \notin Producers /\ owner \in Producers
      /\ pc \in [Threads -> PushPcs \cup PopPcs] /\ pos \in [Threads -> Nat]
      /\ arg \in [Threads -> Items \cup {NoItem}]
      /\ sequence[Slot(pos[Sup])] \in Nat /\ payload[Slot(pos[Sup])] \in Items \cup {NoItem}
      /\ head \in Nat
  BY CoreTypes, SlotType DEF HInd, HTypeOK, TypeOK
<1>1. \A t \in Threads \ {Sup} : pc'[t] = pc[t] /\ pos'[t] = pos[t] /\ arg'[t] = arg[t]
  BY <1>t DEF Pop, PopStart, PopLoadHead, PopCheck, PopClaim, PopClaimFails, PopRead,
     PopRelease, PopCount, Goto
<1>2. UNCHANGED <<tail, payload, committed, owner, epoch, tpc, heir, reaped, loc>>
  BY DEF cell, worker, supv, cells, Pop, PopStart, PopLoadHead, PopCheck, PopClaim, PopClaimFails,
     PopRead, PopRelease, PopCount
<1>3. PopFrame
  BY <1>t, <1>1, <1>2 DEF PopFrame, Threads
<1>4. OnlyOwnersPushed'
  BY <1>t, <1>1, <1>2 DEF Core, OnlyOwnersPushed, RollingBack, Threads
<1>5. DrainExact' /\ OwnerReady' /\ RingPart'
  <2> USE <1>t DEF Goto, cells
  <2>1. CASE PopClaim(Sup)
    BY <1>3, <2>1, TakePrefix DEF PopClaim
  <2>2. CASE PopRelease(Sup)
    BY <1>3, <2>2, ReleasePrefix DEF PopRelease
  <2>3. ASSUME UNCHANGED <<head, sequence>>, Reading(Sup)' <=> Reading(Sup),
               Reading(Sup) => pos'[Sup] = pos[Sup], DrainExact'
        PROVE  DrainExact' /\ OwnerReady' /\ RingPart'
    BY <1>3, <2>3, PopPrivate
  <2>4. CASE PopStart(Sup)
    <3>1. UNCHANGED <<head, sequence, delivered>> /\ pc'[Sup] = "loadHead" /\ pc[Sup] = "idle"
          /\ arg'[Sup] = NoItem
      BY <2>4 DEF PopStart
    <3> QED
      BY <1>2, <2>3, <3>1 DEF Core, DrainExact, Taken, Reading
  <2>5. CASE PopLoadHead(Sup)
    <3>1. UNCHANGED <<head, sequence, delivered, arg>> /\ pc'[Sup] = "checkPop"
          /\ pc[Sup] = "loadHead" /\ pos'[Sup] = head
      BY <2>5 DEF PopLoadHead
    <3> QED
      BY <1>2, <2>3, <3>1 DEF Core, DrainExact, Taken, Reading
  <2>6. CASE PopCheck(Sup)
    <3>1. UNCHANGED <<head, sequence, delivered, arg, pos>> /\ pc[Sup] = "checkPop"
          /\ pc'[Sup] \in {"casHead", "idle", "loadHead"}
          /\ (pc'[Sup] = "casHead" => sequence[Slot(pos[Sup])] = pos[Sup] + 1)
      BY <2>6 DEF PopCheck
    <3> QED
      BY <1>2, <2>3, <3>1 DEF Core, DrainExact, Taken, Reading
  <2>7. CASE PopClaimFails(Sup)
    <3>1. UNCHANGED <<head, sequence, delivered, arg>> /\ pc'[Sup] = "checkPop"
          /\ pc[Sup] = "casHead" /\ pos'[Sup] = head
      BY <2>7 DEF PopClaimFails
    <3> QED
      BY <1>2, <2>3, <3>1 DEF Core, DrainExact, Taken, Reading
  <2>8. CASE PopRead(Sup)
    <3>1. UNCHANGED <<head, sequence, delivered, pos>> /\ pc[Sup] = "read"
          /\ pc'[Sup] \in {"skip", "release"} /\ payload[Slot(pos[Sup])] = committed[head]
          /\ arg[Sup] = NoItem
      BY <2>8 DEF PopRead, Core, DrainExact, Reading
    <3>2. arg'[Sup] = Got(committed[head])
      BY <2>8, <3>1 DEF PopRead, Got
    <3> QED
      BY <1>2, <2>3, <3>1, <3>2 DEF Core, DrainExact, Taken, Reading, Got
  <2>9. CASE PopCount(Sup)
    <3>1. UNCHANGED <<head, sequence, delivered, pos, arg>> /\ pc[Sup] = "count"
          /\ pc'[Sup] = "idle"
      BY <2>9 DEF PopCount
    <3> QED
      BY <1>2, <2>3, <3>1 DEF Core, DrainExact, Taken, Reading
  <2> QED
    BY <2>1, <2>2, <2>4, <2>5, <2>6, <2>7, <2>8, <2>9 DEF Pop
<1> QED
  BY <1>4, <1>5 DEF Core, RingPart

-----------------------------------------------------------------------------
(* Recovery.                                                                  *)

(* verify_consistent refuses a ring whose tail_ is not where its records end.  *)
LEMMA VerifiedTail ==
  ASSUME HInd, Core, RingDense, verify_consistent
  PROVE  tail = Len(committed)
<1> DEFINE k == Len(committed)
<1>1. /\ tail \in Nat /\ head \in Nat /\ SlotCount \in Nat /\ SlotCount >= 2 /\ k \in Nat
      /\ sequence \in [Slots -> Nat] /\ head <= tail
  BY CoreTypes DEF verify_consistent
<1>2. /\ head <= k /\ tail \in {k + InFlight - 1, k + InFlight} /\ InFlight \in {0, 1}
      /\ (InFlight = 1 => sequence[Slot(k)] = k)
  BY DEF RingDense, ReadyUpTo, InFlight, Core, OwnerReady, Writing
<1>3. ASSUME tail = k + 1, sequence[Slot(k)] = k PROVE FALSE
  <2>1. FirstUncommitted(Slot(k)) = k /\ Slot(k) \in Slots
    BY <1>1, <1>3, SlotSays, SlotType
  <2>2. NextAt(Slot(k), tail) >= tail
    BY <1>1, <2>1, NextAtType
  <2> QED
    BY <1>1, <1>3, <2>1, <2>2 DEF verify_consistent
<1>4. ASSUME tail = k - 1 PROVE FALSE
  <2>1. tail \in head .. k - 1
    BY <1>1, <1>4
  <2>2. sequence[Slot(tail)] = tail + 1
    BY <1>1, <2>1 DEF RingDense, ReadyUpTo
  <2>3. FirstUncommitted(Slot(tail)) = tail + SlotCount /\ Slot(tail) \in Slots
    BY <1>1, <2>2, SlotSays, SlotType
  <2>4. NextAt(Slot(tail), tail) = tail
    BY <1>1, NextAtIs
  <2> QED
    BY <1>1, <2>3, <2>4 DEF verify_consistent
<1> HIDE DEF k
<1>5. tail = k
  BY <1>1, <1>2, <1>3, <1>4
<1> QED
  BY <1>5 DEF k

(* The supervisor observes a death, and may start to recover the ring.         *)
LEMMA ReapPrefix ==
  ASSUME HInd, Core, UNCHANGED caller, NEW w \in Producers, Reap(w)
  PROVE  Core'
<1>1. /\ UNCHANGED <<tail, head, sequence, payload, pc, pos, arg, committed, delivered>>
      /\ UNCHANGED <<owner, epoch, caller, loc>>
      /\ tpc = "idle" /\ reaped' = reaped \cup {w}
      /\ tpc' \in {"idle", "failsafe", "casEpoch"}
      /\ tpc' = "casEpoch" => /\ owner = w /\ heir' # owner /\ heir' \notin reaped
                              /\ caller = "supervisor" => verify_consistent
  BY DEF Reap, Promotable, ring, cell, worker, history, cells
<1>2. OnlyOwnersPushed'
  BY <1>1 DEF Core, OnlyOwnersPushed, RollingBack
<1>3. DrainExact' /\ OwnerReady'
  BY <1>1 DEF Core, DrainExact, OwnerReady, Taken, Reading
<1>4. ~RollingBack /\ ~RollingBack' /\ InFlight' = InFlight
      /\ (Writing(owner)' <=> Writing(owner)) /\ (Reading(Sup)' <=> Reading(Sup))
  BY <1>1 DEF RollingBack, InFlight, Writing, Reading
<1>5. ASSUME RingDense PROVE RingDense'
  <2>1. caller = "supervisor" /\ tpc' = "casEpoch" => tail = Len(committed)
    BY <1>1, <1>5, VerifiedTail
  <2> QED
    BY <1>1, <1>4, <1>5, <2>1 DEF RingDense, ReadyUpTo, FreeSlot
<1>6. ASSUME NEW h \in 0 .. Len(committed), HoleAt(h)
      PROVE  HoleAt(h)'
  BY <1>1, <1>4, <1>6 DEF HoleAt, ReadyUpTo, FreeSlot
<1> QED
  BY <1>1, <1>2, <1>3, <1>5, <1>6 DEF Core

(* The words that every step of transfer_ownership up to the rollback keeps.   *)
TransferFrame ==
  /\ UNCHANGED <<tail, head, sequence, payload, pc, pos, arg, committed, delivered>>
  /\ UNCHANGED <<caller, loc, heir, reaped>>

LEMMA TransferBeginPrefix ==
  ASSUME HInd, Core, UNCHANGED caller, TransferBegin, OneProducerRing'
  PROVE  Core'
<1>1. /\ TransferFrame /\ UNCHANGED owner
      /\ tpc = "casEpoch" /\ tpc' = "casOwner" /\ epoch' = epoch + 1
  BY DEF TransferBegin, TransferFrame, ring, worker, history, cells
<1>2. epoch \in Nat /\ epoch >= 2 /\ epoch % 2 = 0
  BY <1>1 DEF HInd, HTypeOK, CellStable
<1>3. caller = "supervisor" \/ (caller = "direct" /\ epoch = 2)
  BY <1>1, <1>2 DEF OneProducerRing, TransferFrame
<1>4. OnlyOwnersPushed' /\ DrainExact' /\ OwnerReady'
  BY <1>1 DEF Core, OnlyOwnersPushed, RollingBack, DrainExact, OwnerReady, Taken, Reading,
     TransferFrame
<1>5. RingDense
  BY <1>2, <1>3 DEF Core, HoleAt
<1>6. RingDense'
  BY <1>1, <1>2, <1>3, <1>5
  DEF RingDense, ReadyUpTo, FreeSlot, RollingBack, InFlight, Writing, Reading, TransferFrame
<1> QED
  BY <1>4, <1>6 DEF Core

(* The owner word changes hands: a dead owner's claim becomes a hole.          *)
LEMMA TransferOwnerPrefix ==
  ASSUME HInd, Core, UNCHANGED caller, TransferOwner, OneProducerRing
  PROVE  Core'
<1>1. /\ TransferFrame /\ UNCHANGED epoch
      /\ tpc = "casOwner" /\ tpc' = "publish" /\ owner' = heir
  BY DEF TransferOwner, TransferFrame, ring, worker, history, cells
<1>2. /\ epoch \in Nat /\ epoch >= 3 /\ heir \in Producers
      /\ (caller = "direct" => epoch = 3)
      /\ caller = "supervisor" \/ caller = "direct"
  BY <1>1 DEF HInd, HTypeOK, CellStable, OneProducerRing
<1>3. pc[heir] = "idle" /\ owner \in reaped
  BY <1>1, <1>2 DEF Core, OnlyOwnersPushed
<1>4. OnlyOwnersPushed'
  BY <1>1, <1>2, <1>3 DEF Core, OnlyOwnersPushed, RollingBack, TransferFrame
<1>5. DrainExact' /\ OwnerReady'
  BY <1>1, <1>3 DEF Core, DrainExact, OwnerReady, Taken, Reading, TransferFrame
<1>6. InFlight' = 0 /\ ~Writing(owner)' /\ (Reading(Sup)' <=> Reading(Sup)) /\ RollingBack'
  BY <1>1, <1>3 DEF InFlight, Writing, Reading, RollingBack, TransferFrame
<1>7. RingDense
  BY <1>1 DEF Core, HoleAt
<1>8. CASE tail = Len(committed)
  <2>1. RingDense'
    BY <1>1, <1>6, <1>7, <1>8, CoreTypes DEF RingDense, ReadyUpTo, FreeSlot, Reading, TransferFrame
  <2> QED
    BY <1>4, <1>5, <2>1 DEF Core
<1>9. CASE tail # Len(committed)
  <2>t. /\ tail \in Nat /\ head \in Nat /\ SlotCount \in Nat /\ SlotCount >= 2
        /\ Len(committed) \in Nat
    BY CoreTypes
  <2>1. caller = "direct" /\ epoch = 3
    BY <1>1, <1>2, <1>7, <1>9 DEF RingDense
  <2>2. Writing(owner) /\ tail = Len(committed) + 1 /\ pos[owner] = Len(committed)
    BY <1>7, <1>9, <2>t, <2>1 DEF RingDense, InFlight
  <2>3. PICK h \in 0 .. Len(committed) : h = Len(committed)
    BY <2>t
  <2>4. sequence[Slot(h)] = h /\ h < head + SlotCount
    <3>1. sequence[Slot(h)] = h
      BY <2>2, <2>3 DEF Core, OwnerReady, Writing
    <3> QED
      BY <2>t, <3>1, ReadyInWindow
  <2>5. ReadyUpTo(h)'
    BY <1>1, <1>7, <2>3 DEF RingDense, ReadyUpTo, TransferFrame
  <2>6. \A p \in h .. head + SlotCount - 1 : FreeSlot(p)'
    BY <1>1, <1>6, <1>7, <2>3 DEF RingDense, FreeSlot, TransferFrame
  <2>7. HoleAt(h)'
    <3>1. h < tail /\ tail = h + 1
      BY <2>t, <2>2, <2>3
    <3> QED
      BY <1>1, <1>6, <2>t, <2>1, <2>3, <2>4, <2>5, <2>6, <3>1 DEF HoleAt, TransferFrame
  <2>8. h \in 0 .. Len(committed')
    BY <1>1, <2>3 DEF TransferFrame
  <2> QED
    BY <1>4, <1>5, <2>7, <2>8 DEF Core
<1> QED
  BY <1>8, <1>9

(* The steps that only move the supervisor on, with the new owner in the cell. *)
LEMMA RecoveryPrefix ==
  ASSUME HInd, Core, UNCHANGED caller,
         TransferPublish \/ RollbackLoadTail \/ RollbackLoadHead \/ RollbackCheck \/ RollbackFails
  PROVE  Core'
<1>1. /\ TransferFrame /\ UNCHANGED owner
      /\ RollingBack /\ tpc' \in {"loadTail", "loadHead", "loadSeq", "casTail", "idle"}
      /\ epoch' = epoch \/ epoch' = epoch + 1
      /\ epoch \in Nat
  BY DEF TransferPublish, RollbackLoadTail, RollbackLoadHead, RollbackCheck, RollbackFails,
     TransferFrame, RollingBack, ring, cell, worker, history, cells, HInd, HTypeOK
<1>2. OnlyOwnersPushed' /\ DrainExact' /\ OwnerReady'
  BY <1>1 DEF Core, OnlyOwnersPushed, RollingBack, DrainExact, OwnerReady, Taken, Reading,
     TransferFrame
<1>3. /\ InFlight' = InFlight /\ (Writing(owner)' <=> Writing(owner))
      /\ (Reading(Sup)' <=> Reading(Sup))
  BY <1>1 DEF InFlight, Writing, Reading, TransferFrame
<1>4. ASSUME RingDense PROVE RingDense'
  BY <1>1, <1>3, <1>4 DEF RingDense, ReadyUpTo, FreeSlot, TransferFrame
<1>5. ASSUME NEW h \in 0 .. Len(committed), HoleAt(h)
      PROVE  HoleAt(h)'
  BY <1>1, <1>3, <1>5 DEF HoleAt, ReadyUpTo, FreeSlot, TransferFrame
<1> QED
  BY <1>1, <1>2, <1>4, <1>5 DEF Core, TransferFrame

(* The rollback: it takes back a hole, or the owner's last claim.              *)
LEMMA RollbackPrefix ==
  ASSUME HInd, Core, UNCHANGED caller, Rollback
  PROVE  Core'
<1> DEFINE k == Len(committed)
<1>1. /\ UNCHANGED <<head, sequence, payload, pc, pos, arg, committed, delivered>>
      /\ UNCHANGED <<owner, epoch, caller, loc, heir, reaped>>
      /\ tpc = "casTail" /\ tpc' = "idle" /\ tail' = tail - 1
  BY DEF Rollback, cell, worker, history, cells
<1>2. /\ tail \in Nat /\ head \in Nat /\ k \in Nat /\ epoch \in Nat /\ epoch >= 4
      /\ RollingBack /\ ~RollingBack'
  BY <1>1, CoreTypes DEF Core, OnlyOwnersPushed, RollingBack, HInd, CellStable
<1>3. OnlyOwnersPushed' /\ DrainExact' /\ OwnerReady'
  BY <1>1, <1>2 DEF Core, OnlyOwnersPushed, DrainExact, OwnerReady, Taken, Reading
<1>4. /\ InFlight' = InFlight /\ (Writing(owner)' <=> Writing(owner)) /\ InFlight \in {0, 1}
      /\ (Reading(Sup)' <=> Reading(Sup)) /\ (InFlight = 0 <=> ~Writing(owner))
  BY <1>1 DEF InFlight, Writing, Reading
<1>5. ASSUME RingDense PROVE RingDense'
  BY <1>1, <1>2, <1>4, <1>5 DEF RingDense, ReadyUpTo, FreeSlot
<1>6. ASSUME NEW h \in 0 .. Len(committed), HoleAt(h)
      PROVE  HoleAt(h)' \/ RingDense'
  <2>1. tail = k + 1 + InFlight
    BY <1>2, <1>6 DEF HoleAt
  <2>2. CASE h < k + InFlight
    BY <1>1, <1>2, <1>4, <1>6, <2>1, <2>2 DEF HoleAt, ReadyUpTo, FreeSlot
  <2>3. CASE h >= k + InFlight
    <3>1. h = k /\ InFlight = 0 /\ tail = k + 1 /\ tail' = k /\ ~Writing(owner)
      BY <1>1, <1>2, <1>4, <1>6, <2>1, <2>3
    <3>2. ReadyUpTo(k) /\ sequence[Slot(k)] = k
          /\ \A p \in k + 1 .. head + SlotCount - 1 : FreeSlot(p)
      BY <1>2, <1>6, <3>1 DEF HoleAt
    <3>3. ASSUME NEW p \in k .. head + SlotCount - 1 PROVE FreeSlot(p)'
      <4>1. p = k \/ p \in k + 1 .. head + SlotCount - 1
        BY <1>2, <3>3, CoreTypes
      <4> QED
        BY <1>1, <1>4, <3>2, <4>1 DEF FreeSlot
    <3> QED
      BY <1>1, <1>2, <1>4, <3>1, <3>2, <3>3 DEF RingDense, ReadyUpTo
  <2> QED
    BY <1>2, <1>4, <2>2, <2>3
<1> QED
  BY <1>1, <1>3, <1>5, <1>6 DEF Core

-----------------------------------------------------------------------------
LEMMA PrefixStep == HInd /\ PrefixInd /\ [HNext]_hvars => PrefixInd'
<1> SUFFICES ASSUME HInd, PrefixInd, [HNext]_hvars, OneProducerRing' PROVE Core'
  BY DEF PrefixInd, Core
<1>1. CASE UNCHANGED hvars
  <2>1. UNCHANGED prefixWords /\ UNCHANGED <<owner, epoch, caller, tpc, heir, reaped, loc>>
    BY <1>1 DEF hvars, ring, cell, worker, supv, history, cells, prefixWords
  <2>2. Core
    BY <2>1 DEF PrefixInd, Core, OneProducerRing
  <2>3. OnlyOwnersPushed'
    BY <2>1, <2>2 DEF Core, OnlyOwnersPushed, RollingBack, prefixWords
  <2> QED
    BY <2>1, <2>2, <2>3, CoreFrame DEF Core
<1>2. CASE HNext
  <2>1. UNCHANGED caller /\ epoch \in Nat /\ epoch' \in {epoch, epoch + 1}
    BY <1>2 DEF HNext, Work, Supervise, LoadEpoch, LoadOwner, Retry, Acknowledge, Validate, PushStep,
       Crash, Drain, Reap, Takeover, TransferBegin, TransferOwner, TransferPublish,
       RollbackLoadTail, RollbackLoadHead, RollbackCheck, Rollback, RollbackFails, cell, HInd,
       HTypeOK
  <2>2. OneProducerRing /\ caller # "takeover"
    BY <2>1 DEF OneProducerRing
  <2>3. Core
    BY <2>2 DEF PrefixInd, Core
  <2>4. CASE Work
    BY <2>1, <2>2, <2>3, <2>4, WorkerPrefix, PushPrefix DEF Work
  <2>5. CASE Supervise
    <3>1. ~Takeover
      BY <2>2 DEF Takeover
    <3> QED
      BY <2>1, <2>2, <2>3, <2>5, <3>1, DrainPrefix, ReapPrefix, TransferBeginPrefix,
         TransferOwnerPrefix, RecoveryPrefix, RollbackPrefix DEF Supervise
  <2> QED
    BY <1>2, <2>4, <2>5 DEF HNext
<1> QED
  BY <1>1, <1>2

(* Delivery's inductive invariant, on top of the ownership protocol's.           *)
THEOREM PrefixInvariant == HSpec => []PrefixInd
BY PrefixInit, PrefixStep, HandoffInvariant, PTL DEF HSpec

(* Across any number of handoffs by a supervisor that verifies the ring first,   *)
(* and across one by a caller that does not, the drain gets the records the      *)
(* workers committed, each once and in commit order, with only the poisoned ones *)
(* refused; also where the rollback of transfer_ownership races the new owner.   *)
THEOREM HandoffDelivers == HSpec => []DeliveredPrefix
<1>1. HInd /\ PrefixInd => DeliveredPrefix
  <2> SUFFICES ASSUME HInd, PrefixInd, OneProducerRing
               PROVE  /\ Len(delivered) <= Len(committed)
                      /\ \A i \in 1 .. Len(delivered) : delivered[i] = Got(committed[i])
    BY DEF DeliveredPrefix
  <2>1. Core
    BY DEF PrefixInd, Core
  <2> QED
    BY <2>1, CoreTypes DEF Core, DrainExact, Taken
<1> QED
  BY <1>1, HandoffInvariant, PrefixInvariant, PTL
=============================================================================
