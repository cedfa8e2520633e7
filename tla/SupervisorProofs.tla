-------------------------- MODULE SupervisorProofs --------------------------
(* Proofs about the supervisor: for every number of crashes, stops, alerts,    *)
(* records and restarts, rings have one producer with a valid token, the        *)
(* standby gets at most one hot ring, DEGRADED is announced once, terminal and   *)
(* decides the exit code, a ring nobody serves is never silent, the first         *)
(* post-failover record is genuine, and the promoted worker is spared.            *)
EXTENDS Supervisor, FiniteSetTheorems, SequenceTheorems, TLAPS

-----------------------------------------------------------------------------
(* Small sets and the searches over them.                                        *)
LEMMA Small ==
  /\ Physical = {0, 1, 2} /\ Rings = {0, 1, 2} /\ HotRings = {0, 1}
  /\ HotRings \subseteq Rings /\ kStandbyPhysical = 2 /\ NoRing = 3 /\ NoRing \notin Rings
BY DEF Physical, Rings, HotRings, kStandbyPhysical, NoRing

LEMMA MinOne == ASSUME NEW x \in Int PROVE Min({x}) = x
BY DEF Min

LEMMA MinTwo ==
  /\ Min({0, 1}) = 0 /\ Min({0, 2}) = 0 /\ Min({1, 2}) = 1 /\ Min({0, 1, 2}) = 0
<1>1. \A S \in SUBSET {0, 1, 2} : \A x \in S : (\A y \in S : x <= y) => Min(S) = x
  <2> SUFFICES ASSUME NEW S \in SUBSET {0, 1, 2}, NEW x \in S, \A y \in S : x <= y
               PROVE  Min(S) = x
    OBVIOUS
  <2>1. \E z \in S : \A y \in S : z <= y
    OBVIOUS
  <2>2. Min(S) \in S /\ \A y \in S : Min(S) <= y
    BY <2>1 DEF Min
  <2>3. PICK m \in S : m = Min(S) /\ m <= x
    BY <2>2
  <2>4. m \in Int /\ x \in Int /\ x <= m
    OBVIOUS
  <2> QED
    BY <2>3, <2>4
<1> QED
  BY <1>1

(* The children, as a function on their indices.                                  *)
LEMMA Indices ==
  ASSUME Types
  PROVE  /\ Idx = 1 .. Len(children) /\ Len(children) \in Nat /\ Len(children) >= 3
         /\ \A i \in Idx : children[i] \in ChildRecord
         /\ 1 \in Idx /\ 2 \in Idx /\ 3 \in Idx
         /\ \A i \in Idx : i \in Nat
<1>1. children \in Seq(ChildRecord) /\ Len(children) >= 3
  BY DEF Types
<1>2. Len(children) \in Nat /\ DOMAIN children = 1 .. Len(children)
  BY <1>1, LenProperties
<1> QED
  BY <1>1, <1>2, ElementOfSeq DEF Idx

(* One entry of the table replaced.                                               *)
LEMMA OneEntry ==
  ASSUME NEW s \in Seq(ChildRecord), NEW i \in 1 .. Len(s), NEW c \in ChildRecord
  PROVE  /\ [s EXCEPT ![i] = c] \in Seq(ChildRecord)
         /\ Len([s EXCEPT ![i] = c]) = Len(s)
         /\ DOMAIN [s EXCEPT ![i] = c] = DOMAIN s
         /\ \A j \in DOMAIN s : [s EXCEPT ![i] = c][j] = IF j = i THEN c ELSE s[j]
<1>1. DOMAIN s = 1 .. Len(s)
  BY LenProperties
<1>2. [s EXCEPT ![i] = c] \in Seq(ChildRecord) /\ Len([s EXCEPT ![i] = c]) = Len(s)
  BY ExceptSeq
<1> QED
  BY <1>1, <1>2, ExceptSeq, LenProperties

LEMMA HotEntry ==
  ASSUME NEW s \in Seq(ChildRecord), NEW i \in DOMAIN s, NEW r, NEW t
  PROVE  [s EXCEPT ![i].life = "hot", ![i].ring = r, ![i].token = t]
           = [s EXCEPT ![i] = [s[i] EXCEPT !.life = "hot", !.ring = r, !.token = t]]
<1>1. s \in [1 .. Len(s) -> ChildRecord] /\ DOMAIN s = 1 .. Len(s)
  BY LenProperties
<1> QED
  BY <1>1

(* The cells name only first processes.                                            *)
LEMMA CellFacts ==
  ASSUME Types, Cells
  PROVE  /\ \A r \in Rings : owner[r] \in [phys : Physical, gen : Nat] /\ owner[r].gen = 1
         /\ \A r \in HotRings : owner[r].phys = r \/ owner[r].phys = 2
         /\ owner[2].phys = 2
         /\ \A r \in HotRings : (owner[r].phys = r => epoch[r] = 2) /\ (owner[r].phys = 2 => epoch[r] = 4)
BY Small DEF Types, Cells

(* A hot worker is the first process of the worker its ring's cell names.           *)
LEMMA HotFacts ==
  ASSUME Types, Cells, Slots, HotWorkers, NEW i \in Idx, children[i].life = "hot"
  PROVE  /\ i \in 1 .. 3 /\ children[i].ring \in HotRings
         /\ owner[children[i].ring].phys = children[i].phys /\ children[i].phys = i - 1
         /\ children[i].token = epoch[children[i].ring]
<1>1. i <= 3 /\ children[i].ring \in HotRings /\ Valid(children[i])
  BY DEF HotWorkers
<1>2. i \in Nat /\ i \in 1 .. Len(children)
  BY Indices
<1> QED
  BY <1>1, <1>2 DEF Valid, acknowledge_ownership, Slots

-----------------------------------------------------------------------------
(* The search for the process of a worker, and for its ring.                        *)
LEMMA FindWorker ==
  ASSUME Types, Slots, NEW p \in Physical, NEW i \in Idx, children[i].phys = p, ~children[i].handled
  PROVE  find_worker(children, p) = i
<1>1. PICK found : found = {k \in DOMAIN children : children[k].phys = p /\ ~children[k].handled}
  OBVIOUS
<1>2. found = {i}
  BY <1>1 DEF Slots, Idx
<1>3. Min(found) = i
  BY <1>2, MinOne, Indices
<1> QED
  BY <1>1, <1>2, <1>3 DEF find_worker

LEMMA FoundWorker ==
  ASSUME Types, Slots, NEW p \in Physical, NEW i, i = find_worker(children, p), i # NoChild
  PROVE  i \in Idx /\ children[i].phys = p /\ ~children[i].handled
<1>1. PICK k \in Idx : children[k].phys = p /\ ~children[k].handled
  BY DEF find_worker, Idx
<1>2. i = k
  BY <1>1, FindWorker
<1> QED
  BY <1>1, <1>2

LEMMA OwnedRing ==
  ASSUME Types, Cells
  PROVE  /\ \A p \in HotRings : owned_logical_ring(p) = IF owner[p].phys = p THEN p ELSE NoRing
         /\ owned_logical_ring(2) =
              IF owner[0].phys = 2 THEN 0 ELSE IF owner[1].phys = 2 THEN 1 ELSE 2
<1>1. ASSUME NEW p \in HotRings
      PROVE  owned_logical_ring(p) = IF owner[p].phys = p THEN p ELSE NoRing
  <2>1. PICK S : S = {r \in Rings : owner[r].phys = p}
    OBVIOUS
  <2>2. S = IF owner[p].phys = p THEN {p} ELSE {}
    BY <2>1, CellFacts, Small
  <2> QED
    BY <2>1, <2>2, MinOne, Small DEF owned_logical_ring
<1>2. owned_logical_ring(2) =
        IF owner[0].phys = 2 THEN 0 ELSE IF owner[1].phys = 2 THEN 1 ELSE 2
  <2>1. PICK S : S = {r \in Rings : owner[r].phys = 2}
    OBVIOUS
  <2>2. owner[0].phys # 2 \/ owner[1].phys # 2
    BY DEF Cells
  <2>3. /\ owner[0].phys = 2 => S = {0, 2}
        /\ owner[0].phys # 2 /\ owner[1].phys = 2 => S = {1, 2}
        /\ owner[0].phys # 2 /\ owner[1].phys # 2 => S = {2}
    BY <2>1, <2>2, CellFacts, Small
  <2>4. Min({2}) = 2
    BY MinOne
  <2> QED
    BY <2>1, <2>3, <2>4, MinTwo DEF owned_logical_ring
<1> QED
  BY <1>1, <1>2

-----------------------------------------------------------------------------
(* Steps that leave the cells alone.                                                *)
SupKept ==
  /\ UNCHANGED <<owner, epoch>>
  /\ sup'.next_generation = sup.next_generation
  /\ sup.state = "Failsafe" => sup'.state = "Failsafe"
  /\ Going' => Going
  /\ \A p \in Physical : sup.degraded[p] => sup'.degraded[p]
  /\ hist'.announced = hist.announced

LEMMA TableKept ==
  ASSUME SInd, UNCHANGED children, SupKept
  PROVE  Cells' /\ Slots' /\ HotWorkers' /\ Announced'
<1> USE DEF SupKept
<1>1. Cells' /\ (StandbyBusy' <=> StandbyBusy)
  BY DEF SInd, Cells, StandbyBusy
<1>2. Slots'
  BY <1>1 DEF SInd, Slots, Idx, Live
<1>3. HotWorkers'
  BY <1>1 DEF SInd, HotWorkers, Idx, Valid, acknowledge_ownership
<1>4. Announced'
  <2>1. \A r \in Rings : owner[r].phys \in Physical
    BY CellFacts DEF SInd
  <2> QED
    BY <1>1, <2>1 DEF SInd, Announced
<1> QED
  BY <1>1, <1>2, <1>3, <1>4

(* One process changes its state.                                                   *)
Becomes(i, c) ==
  /\ children' = [children EXCEPT ![i] = c]
  /\ c.phys = children[i].phys /\ c.gen = children[i].gen /\ c.role = children[i].role
  /\ (c.pid <=> children[i].pid) /\ (c.handled <=> children[i].handled)
  /\ Live(children[i]) \/ c.life = children[i].life
  /\ c.life = "hot" => i <= 3 /\ c.ring \in HotRings /\ Valid(c)
  /\ c.life = "exited" => children[i].life \in {"hot", "exited"}

LEMMA ChildKept ==
  ASSUME SInd, NEW i \in Idx, NEW c \in ChildRecord, Becomes(i, c), SupKept
  PROVE  /\ children' \in Seq(ChildRecord) /\ Len(children') = Len(children) /\ Idx' = Idx
         /\ \A j \in Idx : children'[j] = IF j = i THEN c ELSE children[j]
         /\ Cells' /\ Slots' /\ HotWorkers' /\ Announced'
<1> USE DEF SupKept
<1>0. Types /\ Cells /\ Slots /\ HotWorkers /\ Announced
  BY DEF SInd
<1>1. /\ children \in Seq(ChildRecord) /\ Idx = 1 .. Len(children)
      /\ \A j \in Idx : children[j] \in ChildRecord /\ j \in Nat
      /\ 1 \in Idx /\ 2 \in Idx /\ 3 \in Idx
  BY <1>0, Indices DEF Types
<1>2. /\ children' \in Seq(ChildRecord) /\ Len(children') = Len(children) /\ Idx' = Idx
      /\ \A j \in Idx : children'[j] = IF j = i THEN c ELSE children[j]
  BY <1>1, OneEntry DEF Idx, Becomes
<1>3. Cells' /\ (StandbyBusy' <=> StandbyBusy)
  BY <1>0 DEF Cells, StandbyBusy
<1>4. \A j \in Idx : /\ children'[j].phys = children[j].phys /\ children'[j].gen = children[j].gen
                     /\ children'[j].role = children[j].role
                     /\ (children'[j].pid <=> children[j].pid)
                     /\ (children'[j].handled <=> children[j].handled)
                     /\ Live(children[j]) \/ children'[j].life = children[j].life
  BY <1>2 DEF Becomes
<1>5. Slots'
  <2>1. \A j \in Idx : children'[j].handled => ~Live(children'[j])
    BY <1>0, <1>4 DEF Slots, Live
  <2>2. \A j \in Idx : children'[j].pid <=> ~children'[j].handled
    BY <1>0, <1>4 DEF Slots
  <2>3. \A j \in Idx : IF j <= 3 THEN children'[j].phys = j - 1 /\ children'[j].gen = 1
                       ELSE children'[j].gen > 1
    BY <1>0, <1>4 DEF Slots
  <2>4. \A j \in Idx : children'[j].role = IF j <= 2 THEN "hot" ELSE "standby"
    BY <1>0, <1>4 DEF Slots
  <2>5. \A j, k \in Idx : j # k /\ children'[j].phys = children'[k].phys
                            => children'[j].handled \/ children'[k].handled
    BY <1>0, <1>4 DEF Slots
  <2>6. sup'.next_generation = Len(children') - 2 \/ sup'.state = "Failsafe"
    BY <1>0, <1>2 DEF Slots
  <2>7. Going' => StandbyBusy \/ \E j \in Idx : children'[j].phys = 2 /\ ~children'[j].handled
    BY <1>0, <1>4 DEF Slots
  <2> QED
    BY <1>2, <1>3, <2>1, <2>2, <2>3, <2>4, <2>5, <2>6, <2>7 DEF Slots
<1>6. HotWorkers'
  <2>1. ASSUME NEW j \in Idx, children'[j].life = "hot"
        PROVE  j <= 3 /\ children'[j].ring \in HotRings /\ Valid(children[j])'
    <3>1. CASE j = i
      BY <1>2, <2>1, <3>1 DEF Becomes, Valid, acknowledge_ownership
    <3>2. CASE j # i
      BY <1>0, <1>2, <2>1, <3>2 DEF HotWorkers, Valid, acknowledge_ownership
    <3> QED
      BY <3>1, <3>2
  <2>2. Going' /\ children'[3].life \in {"hot", "exited"} => StandbyBusy
    <3>1. CASE i = 3 /\ c.life = "hot"
      <4>1. owner[c.ring].phys = c.phys /\ c.ring \in HotRings /\ children[3].phys = 2
        BY <1>0, <1>1, <3>1 DEF Becomes, Valid, acknowledge_ownership, Slots
      <4> QED
        BY <3>1, <4>1, Small DEF StandbyBusy, Becomes
    <3>2. CASE i # 3 \/ c.life # "hot"
      BY <1>0, <1>1, <1>2, <3>2 DEF Becomes, HotWorkers
    <3> QED
      BY <3>1, <3>2
  <2>3. \A j \in Idx : Going' /\ j > 3 => children'[j].life # "exited"
    BY <1>0, <1>1, <1>2 DEF Becomes, HotWorkers
  <2>4. \A r \in HotRings : owner[r].phys = 2 => children'[r + 1].handled
    BY <1>0, <1>1, <1>4, Small DEF HotWorkers
  <2> QED
    BY <1>2, <1>3, <2>1, <2>2, <2>3, <2>4 DEF HotWorkers
<1>7. Announced'
  <2>1. \A r \in Rings : owner[r].phys \in Physical
    BY <1>0, CellFacts
  <2>2. \A p \in Physical : p + 1 \in Idx
    BY <1>1, Small
  <2>3. \A p \in Physical : children'[p + 1].handled => children'[p + 1].life = children[p + 1].life
    BY <1>0, <1>4, <2>2 DEF Slots
  <2>4. \A r \in Rings : hist'.announced[r] <= 1 /\
                         (hist'.announced[r] > 0 => sup'.degraded[owner[r].phys])
    BY <1>0, <2>1 DEF Announced
  <2>5. \A r \in HotRings : hist'.announced[r] > 0 =>
           StandbyBusy /\ children'[owner[r].phys + 1].handled
    BY <1>0, <1>4, <2>1, <2>2, Small DEF Announced
  <2>6. Going' => \A p \in Physical :
          children'[p + 1].life = "crashed" /\ children'[p + 1].handled /\ owner[p].phys = p
            => sup'.degraded[p]
    BY <1>0, <1>4, <2>2, <2>3 DEF Announced
  <2> QED
    BY <1>3, <2>4, <2>5, <2>6 DEF Announced
<1> QED
  BY <1>2, <1>3, <1>5, <1>6, <1>7

-----------------------------------------------------------------------------
(* Worker processes: the supervisor's own state is left alone.                       *)
HistKept ==
  /\ hist' \in HistRecord /\ hist'.may = hist.may /\ (hist'.escalated <=> hist.escalated)
  /\ hist'.announced = hist.announced /\ hist'.handover = hist.handover

LEMMA ExitKept ==
  ASSUME SInd, UNCHANGED <<pc, sup>>, hist'.escalated <=> hist.escalated
  PROVE  ExitState'
BY DEF SInd, ExitState, Going, Degraded, DegradedExit

Works(i, c) ==
  /\ Becomes(i, c) /\ UNCHANGED <<owner, epoch, pc, sup, pipe>> /\ HistKept
  /\ tail' \in [Rings -> Nat] /\ abandoned' \in [Rings -> BOOLEAN]
  /\ status' \in [Physical -> SUBSET {"RUNNING", "IDLE", "DEGRADED"}]
  /\ \A r \in Rings : tail'[r] <= hist.may.claims
  /\ \A r \in HotRings : Drained[r] <= Drained'[r]
  /\ \A r \in HotRings : abandoned'[r] => tail'[r] > 0 /\ children'[owner[r].phys + 1].life = "crashed"
  /\ "RUNNING" \in status'[2] => "RUNNING" \in status[2] \/ StandbyBusy

LEMMA DrainedType ==
  ASSUME Types
  PROVE  \A r \in HotRings : Drained[r] \in Int /\ Drained[r] = IF abandoned[r] THEN tail[r] - 1 ELSE tail[r]
BY Small DEF Types, Drained

LEMMA WorkStep ==
  ASSUME SInd, NEW i \in Idx, NEW c \in ChildRecord, Works(i, c)
  PROVE  SInd'
<1> USE DEF Works
<1>0. Types /\ Cells /\ Slots /\ HotWorkers /\ Announced /\ ExitState /\ Counts /\ Shielded
  BY DEF SInd
<1>1. SupKept
  BY DEF SupKept, HistKept, Going
<1>2. /\ children' \in Seq(ChildRecord) /\ Len(children') = Len(children) /\ Idx' = Idx
      /\ \A j \in Idx : children'[j] = IF j = i THEN c ELSE children[j]
      /\ Cells' /\ Slots' /\ HotWorkers' /\ Announced'
  BY <1>1, ChildKept
<1>3. Types'
  BY <1>0, <1>2 DEF Types, HistKept
<1>4. ExitState'
  BY ExitKept DEF HistKept
<1>5. Counts'
  <2>1. Len(children) > 3 => children'[4].phys = children[4].phys
    <3>1. Len(children) > 3 => 4 \in Idx
      BY <1>0, Indices
    <3> QED
      BY <1>2, <3>1 DEF Becomes
  <2>2. \A r \in HotRings : Drained[r] \in Int /\ Drained'[r] \in Int
    <3>1. Drained' = [r \in HotRings |-> IF abandoned'[r] THEN tail'[r] - 1 ELSE tail'[r]]
      BY DEF Drained
    <3> QED
      BY <1>0, <3>1, DrainedType, Small
  <2>3. \A r \in HotRings : sup'.records[r] <= Drained'[r]
    <3>1. \A r \in HotRings : sup.records[r] \in Int
      BY <1>0 DEF Types, SupRecord
    <3> QED
      BY <1>0, <2>2, <3>1 DEF Counts
  <2>4. owner'[0].phys = 2 => hist'.handover[0] <= Drained'[0]
    <3>1. hist.handover[0] \in Int
      BY <1>0, Small DEF Types, HistRecord
    <3> QED
      BY <1>0, <2>2, <3>1, Small DEF Counts, HistKept
  <2>5. (StandbyBusy' <=> StandbyBusy) /\ (Going' <=> Going)
    BY DEF StandbyBusy, Going
  <2>6. \A r \in Rings : tail'[r] <= hist'.may.claims
    BY DEF HistKept
  <2>7. \A r \in HotRings :
          abandoned'[r] => tail'[r] > 0 /\ children'[owner'[r].phys + 1].life = "crashed"
    OBVIOUS
  <2>8. /\ Going' => (StandbyBusy' \/ sup'.detected => Len(children') > 3)
        /\ ~sup'.detected => sup'.before = 0
        /\ sup'.prev => sup'.detected
        /\ pc' = "reap" /\ ~sup'.prev => sup'.before = 0
    BY <1>0, <1>2, <2>5 DEF Counts
  <2>9. Len(children') > 3 => /\ sup'.detected
                              /\ children'[4].phys = 2 \/ owner'[children'[4].phys].phys = 2
    BY <1>0, <1>2, <2>1 DEF Counts
  <2>10. /\ Going' /\ Len(children') > 3 /\ children'[4].phys = 0 =>
              (pc' = "reap" /\ ~sup'.prev) \/ sup'.before >= hist'.handover[0]
         /\ sup'.first_post => /\ Len(children') > 3 /\ owner'[0].phys = 2
                               /\ children'[4].phys = 0 => sup'.records[0] > hist'.handover[0]
    BY <1>0, <1>2, <2>1, <2>5 DEF Counts, HistKept
  <2> QED
    BY <2>3, <2>4, <2>6, <2>7, <2>8, <2>9, <2>10 DEF Counts
<1>6. Shielded'
  <2>1. Going /\ Len(children) = 3 => ~StandbyBusy
    BY <1>0 DEF Counts
  <2> QED
    BY <1>0, <1>2, <2>1 DEF Shielded, Going
<1> QED
  BY <1>2, <1>3, <1>4, <1>5, <1>6 DEF SInd

(* A process that pushes nothing in this step.                                        *)
Rests(i, c) ==
  /\ Becomes(i, c) /\ UNCHANGED <<owner, epoch, tail, abandoned, pc, sup, pipe>> /\ HistKept
  /\ status' \in [Physical -> SUBSET {"RUNNING", "IDLE", "DEGRADED"}]
  /\ "RUNNING" \in status'[2] => "RUNNING" \in status[2] \/ StandbyBusy

(* A crashed process stays crashed.                                                   *)
LEMMA CrashedStays ==
  ASSUME SInd, NEW i \in Idx, NEW c \in ChildRecord, Becomes(i, c)
  PROVE  \A r \in HotRings : /\ owner[r].phys + 1 \in Idx
                             /\ children[owner[r].phys + 1].life = "crashed" =>
                                  children'[owner[r].phys + 1].life = "crashed"
<1>0. Types /\ Cells
  BY DEF SInd
<1>1. /\ children \in Seq(ChildRecord) /\ Idx = 1 .. Len(children)
      /\ 1 \in Idx /\ 2 \in Idx /\ 3 \in Idx
  BY <1>0, Indices DEF Types
<1>2. \A j \in Idx : children'[j] = IF j = i THEN c ELSE children[j]
  BY <1>1, OneEntry DEF Idx, Becomes
<1>3. \A r \in HotRings : owner[r].phys + 1 \in Idx
  BY <1>0, <1>1, CellFacts, Small
<1>4. \A j \in Idx : children[j].life = "crashed" => children'[j].life = "crashed"
  BY <1>2 DEF Becomes, Live
<1> QED
  BY <1>3, <1>4

LEMMA RestStep ==
  ASSUME SInd, NEW i \in Idx, NEW c \in ChildRecord, Rests(i, c)
  PROVE  SInd'
<1>0. Types /\ Counts
  BY DEF SInd
<1>1. tail' \in [Rings -> Nat] /\ abandoned' \in [Rings -> BOOLEAN] /\ Drained' = Drained
  BY <1>0 DEF Rests, Types, Drained
<1>2. \A r \in HotRings : Drained[r] <= Drained'[r]
  BY <1>0, <1>1, DrainedType
<1>3. \A r \in HotRings : abandoned'[r] => tail'[r] > 0 /\ children'[owner[r].phys + 1].life = "crashed"
  <2>1. Becomes(i, c)
    BY DEF Rests
  <2> QED
    BY <1>0, <2>1, CrashedStays DEF Rests, Counts
<1>4. \A r \in Rings : tail'[r] <= hist.may.claims
  BY <1>0 DEF Rests, Counts
<1>5. Works(i, c)
  BY <1>1, <1>2, <1>3, <1>4 DEF Rests, Works
<1> QED
  BY <1>5, WorkStep

LEMMA HistSame ==
  ASSUME SInd, UNCHANGED hist
  PROVE  HistKept
BY DEF SInd, Types, HistKept

LEMMA HistCounts ==
  ASSUME SInd, \/ hist' = [hist EXCEPT !.crashes = @ + 1]
               \/ hist' = [hist EXCEPT !.stops = @ + 1]
               \/ \E p \in Physical : hist' = [hist EXCEPT !.alerts[p] = @ + 1]
  PROVE  HistKept
<1>1. PICK h \in HistRecord : h = hist
  BY DEF SInd, Types
<1>a. ASSUME NEW p \in Physical
      PROVE  [h.alerts EXCEPT ![p] = @ + 1] \in [Physical -> Nat]
  BY DEF HistRecord
<1>b. ASSUME NEW c \in Nat, NEW s \in Nat, NEW a \in [Physical -> Nat],
             hist' = [h EXCEPT !.crashes = c, !.stops = s, !.alerts = a]
      PROVE  HistKept
  <2>1. /\ hist' \in HistRecord /\ hist'.may = h.may
        /\ hist'.announced = h.announced /\ hist'.handover = h.handover
    BY <1>b DEF HistRecord
  <2>2. hist'.escalated <=> h.escalated
    BY <1>b DEF HistRecord
  <2> QED
    BY <1>1, <2>1, <2>2 DEF HistKept
<1>c. /\ h.crashes \in Nat /\ h.stops \in Nat /\ h.alerts \in [Physical -> Nat]
      /\ h.crashes + 1 \in Nat /\ h.stops + 1 \in Nat
  BY DEF HistRecord
<1>2. CASE hist' = [hist EXCEPT !.crashes = @ + 1]
  <2>1. hist' = [h EXCEPT !.crashes = h.crashes + 1, !.stops = h.stops, !.alerts = h.alerts]
    BY <1>1, <1>2 DEF HistRecord
  <2> QED
    BY <1>b, <1>c, <2>1
<1>3. CASE hist' = [hist EXCEPT !.stops = @ + 1]
  <2>1. hist' = [h EXCEPT !.crashes = h.crashes, !.stops = h.stops + 1, !.alerts = h.alerts]
    BY <1>1, <1>3 DEF HistRecord
  <2> QED
    BY <1>b, <1>c, <2>1
<1>4. ASSUME NEW p \in Physical, hist' = [hist EXCEPT !.alerts[p] = @ + 1]
      PROVE  HistKept
  <2>1. hist' = [h EXCEPT !.crashes = h.crashes, !.stops = h.stops,
                          !.alerts = [h.alerts EXCEPT ![p] = @ + 1]]
    BY <1>1, <1>4 DEF HistRecord
  <2> QED
    BY <1>a, <1>b, <1>c, <2>1
<1> QED
  BY <1>2, <1>3, <1>4

(* The flags of a worker's status word, stored.                                       *)
LEMMA StatusStored ==
  ASSUME SInd, NEW p \in Physical, NEW S \in SUBSET {"RUNNING", "IDLE", "DEGRADED"},
         status' = [status EXCEPT ![p] = S], p = 2 /\ "RUNNING" \in S => StandbyBusy
  PROVE  /\ status' \in [Physical -> SUBSET {"RUNNING", "IDLE", "DEGRADED"}]
         /\ "RUNNING" \in status'[2] => "RUNNING" \in status[2] \/ StandbyBusy
BY Small DEF SInd, Types

LEMMA StartStep ==
  ASSUME SInd, NEW i \in Idx, Start(i)
  PROVE  SInd'
<1>0. Types /\ Cells /\ Slots
  BY DEF SInd
<1>1. children[i] \in ChildRecord /\ i \in Nat /\ i >= 1
  BY <1>0, Indices
<1>d. PICK d \in ChildRecord : d = children[i]
  BY <1>1
<1>2. /\ d.phys \in Physical /\ d.life = "starting" /\ Live(d)
      /\ d.role = IF i <= 2 THEN "hot" ELSE "standby"
      /\ i <= 3 => d.phys = i - 1 /\ d.gen = 1
  BY <1>0, <1>d DEF Start, Slots, ChildRecord, Live
<1>3. HistKept /\ UNCHANGED <<owner, epoch, tail, abandoned, pc, sup, pipe>>
  BY HistSame DEF Start
<1>4. CASE /\ children' = [children EXCEPT ![i].life = "standby"]
           /\ status' = [status EXCEPT ![d.phys] = {"IDLE"}]
  <2>1. PICK c : c = [d EXCEPT !.life = "standby"]
    OBVIOUS
  <2>2. /\ c \in ChildRecord /\ c.phys = d.phys /\ c.gen = d.gen /\ c.role = d.role
        /\ (c.pid <=> d.pid) /\ (c.handled <=> d.handled) /\ c.life = "standby"
    BY <2>1 DEF ChildRecord, Lives
  <2>3. Becomes(i, c)
    BY <1>2, <1>4, <1>d, <2>1, <2>2 DEF Becomes
  <2>4. Rests(i, c)
    BY <1>2, <1>3, <1>4, <2>3, StatusStored DEF Rests
  <2> QED
    BY <2>2, <2>4, RestStep
<1>5. CASE /\ d.role = "hot" /\ acknowledge_ownership(d, d.phys)
           /\ children' = [children EXCEPT ![i].life = "hot", ![i].ring = d.phys,
                                           ![i].token = epoch[d.phys]]
           /\ status' = [status EXCEPT ![d.phys] = {"RUNNING"}]
  <2>1. PICK c : c = [d EXCEPT !.life = "hot", !.ring = d.phys, !.token = epoch[d.phys]]
    OBVIOUS
  <2>2. epoch[d.phys] \in Nat /\ d.phys \in Rings
    BY <1>0, <1>2, Small DEF Types
  <2>3. /\ c \in ChildRecord /\ c.phys = d.phys /\ c.gen = d.gen /\ c.role = d.role
        /\ (c.pid <=> d.pid) /\ (c.handled <=> d.handled) /\ c.life = "hot"
        /\ c.ring = d.phys /\ c.token = epoch[d.phys]
    BY <2>1, <2>2 DEF ChildRecord, Lives
  <2>4. i <= 2 /\ d.phys \in HotRings
    BY <1>1, <1>2, <1>5, Small
  <2>5. Valid(c)
    BY <1>5, <2>3 DEF Valid, acknowledge_ownership
  <2>6. Becomes(i, c)
    <3>1. children' = [children EXCEPT ![i] = c]
      BY <1>0, <1>5, <1>d, <2>1, HotEntry DEF Types, Idx
    <3> QED
      BY <1>1, <1>2, <1>d, <2>3, <2>4, <2>5, <3>1 DEF Becomes
  <2>7. Rests(i, c)
    BY <1>2, <1>3, <1>5, <2>4, <2>6, StatusStored, Small DEF Rests
  <2> QED
    BY <2>3, <2>7, RestStep
<1>6. CASE /\ children' = [children EXCEPT ![i].life = "crashed"] /\ UNCHANGED status
  <2>1. PICK c : c = [d EXCEPT !.life = "crashed"]
    OBVIOUS
  <2>2. /\ c \in ChildRecord /\ c.phys = d.phys /\ c.gen = d.gen /\ c.role = d.role
        /\ (c.pid <=> d.pid) /\ (c.handled <=> d.handled) /\ c.life = "crashed"
    BY <2>1 DEF ChildRecord, Lives
  <2>3. Becomes(i, c)
    BY <1>2, <1>6, <1>d, <2>1, <2>2 DEF Becomes
  <2>4. Rests(i, c)
    BY <1>0, <1>3, <1>6, <2>3 DEF Rests, Types
  <2> QED
    BY <2>2, <2>4, RestStep
<1> QED
  BY <1>4, <1>5, <1>6, <1>d DEF Start

(* Only the first process of the standby is ever promoted, on the one ring it has.      *)
LEMMA PromoteStep ==
  ASSUME SInd, NEW i \in Idx, Promote(i)
  PROVE  SInd'
<1>0. Types /\ Cells /\ Slots
  BY DEF SInd
<1>1. children[i] \in ChildRecord /\ i \in Nat /\ i >= 1
  BY <1>0, Indices
<1>d. PICK d \in ChildRecord : d = children[i]
  BY <1>1
<1>m. PICK mine : mine = {r \in Rings \ {d.phys} : acknowledge_ownership(d, r)}
  OBVIOUS
<1>2. /\ d.phys \in Physical /\ d.life = "standby" /\ Live(d) /\ d.gen \in Nat
      /\ IF i <= 3 THEN d.phys = i - 1 /\ d.gen = 1 ELSE d.gen > 1
      /\ mine # {}
  BY <1>0, <1>d, <1>m DEF Promote, Slots, ChildRecord, Live
<1>3. /\ HistKept /\ UNCHANGED <<owner, epoch, tail, abandoned, pc, sup, pipe>>
      /\ children' = [children EXCEPT ![i].life = "hot", ![i].ring = Min(mine),
                                      ![i].token = epoch[Min(mine)]]
      /\ status' = [status EXCEPT ![d.phys] = {"RUNNING"}]
  BY <1>d, <1>m, HistSame DEF Promote
<1>4. PICK r \in HotRings : mine = {r} /\ d.phys = 2 /\ owner[r].phys = 2 /\ i <= 3
  <2>1. PICK r \in mine : TRUE
    BY <1>2
  <2>2. r \in Rings /\ r # d.phys /\ owner[r] = [phys |-> d.phys, gen |-> d.gen]
    BY <1>m, <2>1 DEF acknowledge_ownership
  <2>3. d.gen = 1 /\ owner[r].phys = d.phys
    BY <1>0, <2>2, CellFacts
  <2>4. d.phys = 2 /\ r \in HotRings /\ i <= 3
    BY <1>0, <1>2, <2>2, <2>3, CellFacts, Small
  <2>5. \A q \in mine : q \in HotRings /\ owner[q].phys = 2
    BY <1>0, <1>m, <2>4, CellFacts, Small DEF acknowledge_ownership
  <2>6. mine = {r}
    BY <1>0, <2>1, <2>5, Small DEF Cells
  <2> QED
    BY <2>3, <2>4, <2>6
<1>5. Min(mine) = r /\ r \in Rings /\ epoch[r] \in Nat
  <2>1. r \in Int /\ r \in Rings
    BY Small
  <2>2. Min({r}) = r
    BY <2>1, MinOne
  <2> QED
    BY <1>0, <1>4, <2>1, <2>2 DEF Types
<1>c. PICK c : c = [d EXCEPT !.life = "hot", !.ring = r, !.token = epoch[r]]
  OBVIOUS
<1>6. /\ c \in ChildRecord /\ c.phys = d.phys /\ c.gen = d.gen /\ c.role = d.role
      /\ (c.pid <=> d.pid) /\ (c.handled <=> d.handled) /\ c.life = "hot"
      /\ c.ring = r /\ c.token = epoch[r]
  BY <1>5, <1>c DEF ChildRecord, Lives
<1>7. Valid(c)
  <2>1. acknowledge_ownership(d, r)
    BY <1>4, <1>m
  <2> QED
    BY <1>6, <2>1 DEF Valid, acknowledge_ownership
<1>8. Becomes(i, c)
  <2>1. children' = [children EXCEPT ![i] = c]
    BY <1>0, <1>3, <1>5, <1>c, <1>d, HotEntry DEF Types, Idx
  <2> QED
    BY <1>2, <1>4, <1>6, <1>7, <1>d, <2>1 DEF Becomes
<1>9. StandbyBusy
  BY <1>4, Small DEF StandbyBusy
<1>10. Rests(i, c)
  BY <1>2, <1>3, <1>8, <1>9, StatusStored DEF Rests
<1> QED
  BY <1>6, <1>10, RestStep

(* A hot worker's ring ends in no abandoned claim.                                        *)
LEMMA HotRingSound ==
  ASSUME SInd, NEW i \in Idx, children[i].life = "hot"
  PROVE  /\ children[i].ring \in HotRings /\ ~abandoned[children[i].ring]
         /\ owner[children[i].ring].phys + 1 = i
<1>1. /\ i \in 1 .. 3 /\ children[i].ring \in HotRings
      /\ owner[children[i].ring].phys = i - 1
  BY HotFacts DEF SInd
<1> QED
  BY <1>1 DEF SInd, Counts

LEMMA TickStep ==
  ASSUME SInd, NEW i \in Idx, Tick(i)
  PROVE  SInd'
<1>0. Types /\ Counts /\ Slots /\ HotWorkers
  BY DEF SInd
<1>1. children[i] \in ChildRecord /\ i \in Nat /\ children[i].life = "hot"
  BY <1>0, Indices DEF Tick
<1>c. PICK c \in ChildRecord : c = children[i]
  BY <1>1
<1>2. Valid(c)
  BY <1>0, <1>1, <1>c DEF HotWorkers
<1>r. PICK r \in HotRings : r = c.ring
  BY <1>1, <1>c, HotRingSound
<1>3. /\ tail[r] < hist.may.claims /\ tail' = [tail EXCEPT ![r] = @ + 1]
      /\ UNCHANGED <<children, status, owner, epoch, abandoned, pc, sup, pipe, hist>>
  BY <1>2, <1>c, <1>r DEF Tick
<1>4. ~abandoned[r]
  BY <1>1, <1>c, <1>r, HotRingSound
<1>5. Becomes(i, c)
  <2>1. children' = [children EXCEPT ![i] = c]
    BY <1>0, <1>3, <1>c, LenProperties DEF Types, Idx
  <2>2. i <= 3 /\ c.ring \in HotRings
    BY <1>0, <1>1, <1>c DEF HotWorkers
  <2> QED
    BY <1>1, <1>2, <1>c, <2>1, <2>2 DEF Becomes
<1>6. /\ tail \in [Rings -> Nat] /\ r \in Rings /\ abandoned \in [Rings -> BOOLEAN]
      /\ hist.may.claims \in Nat
  BY <1>0, <1>r, Small, ScenariosAssumption DEF Types, HistRecord
<1>7. /\ tail' \in [Rings -> Nat] /\ tail'[r] = tail[r] + 1
      /\ \A q \in Rings : q # r => tail'[q] = tail[q]
  BY <1>3, <1>6
<1>8. \A q \in HotRings : Drained[q] <= Drained'[q]
  <2>1. \A q \in HotRings : Drained'[q] = IF abandoned[q] THEN tail'[q] - 1 ELSE tail'[q]
    BY <1>3 DEF Drained
  <2> QED
    BY <1>0, <1>4, <1>6, <1>7, <2>1, DrainedType, Small
<1>9. \A q \in Rings : tail'[q] <= hist.may.claims
  BY <1>0, <1>3, <1>6, <1>7 DEF Counts
<1>10. \A q \in HotRings : abandoned'[q] => tail'[q] > 0 /\ children'[owner[q].phys + 1].life = "crashed"
  <2>1. \A q \in HotRings : tail'[q] >= tail[q] /\ tail[q] \in Nat /\ tail'[q] \in Nat
    BY <1>6, <1>7, Small
  <2> QED
    BY <1>0, <1>3, <1>5, <2>1, CrashedStays DEF Counts
<1>11. Works(i, c)
  BY <1>0, <1>3, <1>5, <1>6, <1>7, <1>8, <1>9, <1>10, HistSame DEF Works, Types
<1> QED
  BY <1>11, WorkStep

LEMMA FinishStep ==
  ASSUME SInd, NEW i \in Idx, Finish(i)
  PROVE  SInd'
<1>0. Types /\ Cells /\ Slots
  BY DEF SInd
<1>1. children[i] \in ChildRecord /\ i \in Nat
  BY <1>0, Indices
<1>d. PICK d \in ChildRecord : d = children[i]
  BY <1>1
<1>2. /\ d.phys \in Physical /\ d.life = "hot" /\ Live(d) /\ HistKept
      /\ UNCHANGED <<owner, epoch, tail, abandoned, pc, sup, pipe>>
      /\ children' = [children EXCEPT ![i].life = "exited"]
      /\ status' = [status EXCEPT ![d.phys] = {"IDLE"}]
  BY <1>d, HistSame DEF Finish, ChildRecord, Live
<1>c. PICK c : c = [d EXCEPT !.life = "exited"]
  OBVIOUS
<1>3. /\ c \in ChildRecord /\ c.phys = d.phys /\ c.gen = d.gen /\ c.role = d.role
      /\ (c.pid <=> d.pid) /\ (c.handled <=> d.handled) /\ c.life = "exited"
  BY <1>c DEF ChildRecord, Lives
<1>4. Becomes(i, c)
  BY <1>2, <1>3, <1>c, <1>d DEF Becomes
<1>5. Rests(i, c)
  BY <1>2, <1>4, StatusStored DEF Rests
<1> QED
  BY <1>3, <1>5, RestStep

(* A worker dies, also between its claim and its commit.                                   *)
LEMMA CrashStep ==
  ASSUME SInd, NEW i \in Idx, Crash(i)
  PROVE  SInd'
<1>0. Types /\ Cells /\ Slots /\ HotWorkers /\ Counts
  BY DEF SInd
<1>1. children[i] \in ChildRecord /\ i \in Nat
  BY <1>0, Indices
<1>d. PICK d \in ChildRecord : d = children[i]
  BY <1>1
<1>2. /\ Live(d) /\ UNCHANGED <<owner, epoch, status, pc, sup, pipe>>
      /\ children' = [children EXCEPT ![i].life = "crashed", ![i].frozen = FALSE]
  BY <1>d DEF Crash
<1>3. HistKept
  BY HistCounts DEF Crash
<1>c. PICK c : c = [d EXCEPT !.life = "crashed", !.frozen = FALSE]
  OBVIOUS
<1>4. /\ c \in ChildRecord /\ c.phys = d.phys /\ c.gen = d.gen /\ c.role = d.role
      /\ (c.pid <=> d.pid) /\ (c.handled <=> d.handled) /\ c.life = "crashed"
  BY <1>c DEF ChildRecord, Lives
<1>5. Becomes(i, c)
  <2>1. children' = [children EXCEPT ![i] = c]
    <3>1. children \in [1 .. Len(children) -> ChildRecord] /\ i \in 1 .. Len(children)
      BY <1>0, LenProperties, Indices DEF Types
    <3> QED
      BY <1>2, <1>c, <1>d, <3>1
  <2> QED
    BY <1>2, <1>4, <1>d, <2>1 DEF Becomes
<1>6. CASE UNCHANGED <<tail, abandoned>>
  <2>1. Rests(i, c)
    BY <1>0, <1>2, <1>3, <1>5, <1>6 DEF Rests, Types
  <2> QED
    BY <1>4, <2>1, RestStep
<1>7. CASE /\ d.life = "hot" /\ tail[d.ring] < hist.may.claims
           /\ tail' = [tail EXCEPT ![d.ring] = @ + 1]
           /\ abandoned' = [abandoned EXCEPT ![d.ring] = TRUE]
  <2>r. PICK r \in HotRings : r = d.ring
    BY <1>7, <1>d, HotRingSound
  <2>1. ~abandoned[r] /\ owner[r].phys + 1 = i
    BY <1>7, <1>d, <2>r, HotRingSound
  <2>2. /\ tail \in [Rings -> Nat] /\ r \in Rings /\ abandoned \in [Rings -> BOOLEAN]
        /\ hist.may.claims \in Nat
    BY <1>0, <2>r, Small, ScenariosAssumption DEF Types, HistRecord
  <2>3. /\ tail' \in [Rings -> Nat] /\ tail'[r] = tail[r] + 1
        /\ \A q \in Rings : q # r => tail'[q] = tail[q]
    BY <1>7, <2>2, <2>r
  <2>4. /\ abandoned' \in [Rings -> BOOLEAN] /\ abandoned'[r]
        /\ \A q \in Rings : q # r => (abandoned'[q] <=> abandoned[q])
    BY <1>7, <2>2, <2>r
  <2>5. \A q \in HotRings : Drained[q] <= Drained'[q]
    <3>1. \A q \in HotRings : Drained'[q] = IF abandoned'[q] THEN tail'[q] - 1 ELSE tail'[q]
      BY DEF Drained
    <3> QED
      BY <1>0, <2>1, <2>2, <2>3, <2>4, <3>1, DrainedType, Small
  <2>6. \A q \in Rings : tail'[q] <= hist.may.claims
    BY <1>0, <1>7, <2>2, <2>3, <2>r DEF Counts
  <2>7. ASSUME NEW q \in HotRings, abandoned'[q]
        PROVE  tail'[q] > 0 /\ children'[owner[q].phys + 1].life = "crashed"
    <3>1. CASE q = r
      <4>1. children'[i] = c
        BY <1>0, <1>4, <1>5, OneEntry, Indices DEF Becomes, Types, Idx
      <4> QED
        BY <1>4, <2>1, <2>2, <2>3, <3>1, <4>1
    <3>2. CASE q # r
      BY <1>0, <1>4, <1>5, <2>3, <2>4, <2>7, <3>2, CrashedStays, Small DEF Counts
    <3> QED
      BY <3>1, <3>2
  <2>8. Works(i, c)
    BY <1>0, <1>2, <1>3, <1>5, <2>3, <2>4, <2>5, <2>6, <2>7 DEF Works, Types
  <2> QED
    BY <1>4, <2>8, WorkStep
<1> QED
  BY <1>6, <1>7, <1>d DEF Crash

LEMMA FreezeStep ==
  ASSUME SInd, NEW i \in Idx, Freeze(i)
  PROVE  SInd'
<1>0. Types /\ Cells /\ Slots /\ HotWorkers
  BY DEF SInd
<1>1. children[i] \in ChildRecord /\ i \in Nat
  BY <1>0, Indices
<1>d. PICK d \in ChildRecord : d = children[i]
  BY <1>1
<1>2. /\ Live(d) /\ UNCHANGED <<owner, epoch, tail, abandoned, status, pc, sup, pipe>>
      /\ children' = [children EXCEPT ![i].frozen = TRUE]
  BY <1>d DEF Freeze, Runs, shm
<1>3. HistKept
  BY HistCounts DEF Freeze
<1>c. PICK c : c = [d EXCEPT !.frozen = TRUE]
  OBVIOUS
<1>4. /\ c \in ChildRecord /\ c.phys = d.phys /\ c.gen = d.gen /\ c.role = d.role
      /\ (c.pid <=> d.pid) /\ (c.handled <=> d.handled) /\ c.life = d.life
      /\ c.ring = d.ring /\ c.token = d.token
  BY <1>c DEF ChildRecord
<1>5. d.life = "hot" => i <= 3 /\ d.ring \in HotRings /\ Valid(d)
  BY <1>0, <1>2, <1>d DEF HotWorkers
<1>6. d.life = "hot" => Valid(c)
  BY <1>4, <1>5 DEF Valid, acknowledge_ownership
<1>7. Becomes(i, c)
  BY <1>2, <1>4, <1>5, <1>6, <1>c, <1>d DEF Becomes, Live
<1>8. Rests(i, c)
  BY <1>0, <1>2, <1>3, <1>7 DEF Rests, Types
<1> QED
  BY <1>4, <1>8, RestStep

-----------------------------------------------------------------------------
(* The supervisor's bookkeeping.                                                           *)

(* Nothing the record counts depend on changes.                                             *)
CountsSame ==
  /\ UNCHANGED <<owner, tail, abandoned>> /\ Len(children') = Len(children)
  /\ Len(children) > 3 => children'[4].phys = children[4].phys
  /\ \A r \in HotRings : children[owner[r].phys + 1].life = "crashed" =>
                           children'[owner[r].phys + 1].life = "crashed"
  /\ hist'.may = hist.may /\ hist'.handover = hist.handover
  /\ sup'.records = sup.records /\ sup'.before = sup.before
  /\ (sup'.detected <=> sup.detected) /\ (sup'.prev <=> sup.prev)
  /\ (sup'.first_post <=> sup.first_post)
  /\ (Going' => Going) /\ (pc' = pc \/ (pc' # "reap" /\ (Going' => pc # "reap")))

LEMMA CountsKept ==
  ASSUME SInd, CountsSame
  PROVE  Counts'
<1> USE DEF CountsSame
<1>0. Counts /\ Drained' = Drained /\ (StandbyBusy' <=> StandbyBusy)
  BY DEF SInd, Drained, StandbyBusy
<1>1. /\ \A r \in Rings : tail'[r] <= hist'.may.claims
      /\ \A r \in HotRings :
           abandoned'[r] => tail'[r] > 0 /\ children'[owner'[r].phys + 1].life = "crashed"
      /\ \A r \in HotRings : sup'.records[r] <= Drained'[r]
      /\ owner'[0].phys = 2 => hist'.handover[0] <= Drained'[0]
  BY <1>0 DEF Counts
<1>2. /\ Going' => (StandbyBusy' \/ sup'.detected => Len(children') > 3)
      /\ ~sup'.detected => sup'.before = 0
      /\ sup'.prev => sup'.detected
      /\ pc' = "reap" /\ ~sup'.prev => sup'.before = 0
  BY <1>0 DEF Counts
<1>3. Len(children') > 3 => /\ sup'.detected
                            /\ children'[4].phys = 2 \/ owner'[children'[4].phys].phys = 2
  BY <1>0 DEF Counts
<1>4. /\ Going' /\ Len(children') > 3 /\ children'[4].phys = 0 =>
           (pc' = "reap" /\ ~sup'.prev) \/ sup'.before >= hist'.handover[0]
      /\ sup'.first_post => /\ Len(children') > 3 /\ owner'[0].phys = 2
                            /\ children'[4].phys = 0 => sup'.records[0] > hist'.handover[0]
  BY <1>0 DEF Counts
<1> QED
  BY <1>1, <1>2, <1>3, <1>4 DEF Counts

(* No alert about the standby.                                                              *)
Silent(q) == \A k \in 1..Len(q) : q[k] # [event |-> "worker_stalled", worker |-> 2]

LEMMA SilentParts ==
  ASSUME NEW q \in Seq(Alert), Silent(q)
  PROVE  /\ \A n \in 1 .. Len(q) : /\ SubSeq(q, 1, n) \in Seq(Alert) /\ Silent(SubSeq(q, 1, n))
                                   /\ SubSeq(q, n + 1, Len(q)) \in Seq(Alert)
                                   /\ Silent(SubSeq(q, n + 1, Len(q)))
         /\ q # <<>> => Tail(q) \in Seq(Alert) /\ Silent(Tail(q))
         /\ \A a \in Alert : a # [event |-> "worker_stalled", worker |-> 2] => Silent(Append(q, a))
<1>0. Len(q) \in Nat /\ \A k \in 1 .. Len(q) : q[k] \in Alert
  BY LenProperties, ElementOfSeq
<1>1. ASSUME NEW n \in 1 .. Len(q)
      PROVE  /\ SubSeq(q, 1, n) \in Seq(Alert) /\ Silent(SubSeq(q, 1, n))
             /\ SubSeq(q, n + 1, Len(q)) \in Seq(Alert) /\ Silent(SubSeq(q, n + 1, Len(q)))
  <2>1. /\ SubSeq(q, 1, n) \in Seq(Alert) /\ Len(SubSeq(q, 1, n)) = n
        /\ \A k \in 1 .. n : SubSeq(q, 1, n)[k] = q[k]
    <3>1. \A k \in 1 .. n : q[k] \in Alert
      BY <1>0
    <3>2. /\ SubSeq(q, 1, n) \in Seq(Alert)
          /\ Len(SubSeq(q, 1, n)) = IF 1 <= n THEN n - 1 + 1 ELSE 0
          /\ \A k \in 1 .. n - 1 + 1 : SubSeq(q, 1, n)[k] = q[1 + k - 1]
      BY <1>0, <3>1, SubSeqProperties
    <3> QED
      BY <1>0, <3>2
  <2>2. /\ SubSeq(q, n + 1, Len(q)) \in Seq(Alert) /\ Len(SubSeq(q, n + 1, Len(q))) = Len(q) - n
        /\ \A k \in 1 .. Len(q) - n : SubSeq(q, n + 1, Len(q))[k] = q[n + k]
    <3>1. \A k \in n + 1 .. Len(q) : q[k] \in Alert
      BY <1>0
    <3>2. /\ SubSeq(q, n + 1, Len(q)) \in Seq(Alert)
          /\ Len(SubSeq(q, n + 1, Len(q))) = IF n + 1 <= Len(q) THEN Len(q) - (n + 1) + 1 ELSE 0
          /\ \A k \in 1 .. Len(q) - (n + 1) + 1 : SubSeq(q, n + 1, Len(q))[k] = q[(n + 1) + k - 1]
      BY <1>0, <3>1, SubSeqProperties
    <3> QED
      BY <1>0, <3>2
  <2>3. Silent(SubSeq(q, 1, n))
    BY <1>0, <2>1 DEF Silent
  <2>4. Silent(SubSeq(q, n + 1, Len(q)))
    BY <1>0, <2>2 DEF Silent
  <2> QED
    BY <2>1, <2>2, <2>3, <2>4
<1>2. ASSUME q # <<>>
      PROVE  Tail(q) \in Seq(Alert) /\ Silent(Tail(q))
  <2>1. /\ Tail(q) \in Seq(Alert) /\ Len(Tail(q)) = Len(q) - 1
        /\ \A k \in 1 .. Len(Tail(q)) : Tail(q)[k] = q[k + 1]
    BY <1>2, HeadTailProperties
  <2> QED
    BY <1>0, <2>1 DEF Silent
<1>3. ASSUME NEW a \in Alert, a # [event |-> "worker_stalled", worker |-> 2]
      PROVE  Silent(Append(q, a))
  <2>1. /\ Len(Append(q, a)) = Len(q) + 1 /\ Append(q, a)[Len(q) + 1] = a
        /\ \A k \in 1 .. Len(q) : Append(q, a)[k] = q[k]
    BY AppendProperties
  <2> QED
    BY <1>0, <1>3, <2>1 DEF Silent
<1> QED
  BY <1>1, <1>2, <1>3

(* The shield of the promoted worker is as it was, or stronger.                              *)
ShieldSame ==
  /\ Len(children') = Len(children) /\ (Going' => Going)
  /\ "RUNNING" \in status'[2] => "RUNNING" \in status[2]
  /\ sup'.track[2].active => sup.track[2].active
  /\ Going' /\ Len(children) = 3 => Silent(pipe') /\ Silent(sup'.lines)
  /\ Len(children) = 4 /\ sup'.track[2].active =>
       (sup.window = "closed" => sup'.window = "closed")
  /\ pc' = "reap" => ~sup'.crash_reaped \/ (pc = "reap" /\ sup.crash_reaped)

LEMMA ShieldKept ==
  ASSUME SInd, ShieldSame
  PROVE  Shielded'
<1>1. Shielded
  BY DEF SInd
<1> QED
  BY <1>1 DEF ShieldSame, Shielded, Silent

LEMMA SilentNow ==
  ASSUME SInd, Going, Len(children) = 3
  PROVE  Silent(pipe) /\ Silent(sup.lines)
BY DEF SInd, Shielded, Silent

Books ==
  /\ UNCHANGED <<owner, epoch, tail, abandoned, children>>
  /\ status' \in [Physical -> SUBSET {"RUNNING", "IDLE", "DEGRADED"}]
  /\ sup' \in SupRecord /\ pipe' \in Seq(Alert) /\ hist' \in HistRecord
  /\ pc' \in {"top", "reap", "track", "lines", "down", "exit"}
  /\ SupKept /\ ExitState' /\ ShieldSame

LEMMA BookStep ==
  ASSUME SInd, Books, Counts'
  PROVE  SInd'
<1>1. Cells' /\ Slots' /\ HotWorkers' /\ Announced'
  BY TableKept DEF Books
<1>2. Types'
  BY DEF SInd, Types, Books
<1>3. Shielded'
  BY ShieldKept DEF Books
<1>4. ExitState'
  BY DEF Books
<1> QED
  BY <1>1, <1>2, <1>3, <1>4 DEF SInd

(* The monitor's alerts.                                                                     *)
LEMMA AlertSent ==
  ASSUME SInd, NEW a \in Alert, pipe' = Append(pipe, a),
         Going /\ Len(children) = 3 => a # [event |-> "worker_stalled", worker |-> 2],
         \E p \in Physical : hist' = [hist EXCEPT !.alerts[p] = @ + 1], UNCHANGED <<shm, children, pc, sup>>
  PROVE  SInd'
<1>0. Types /\ pipe \in Seq(Alert)
  BY DEF SInd, Types
<1>1. HistKept
  BY HistCounts
<1>2. pipe' \in Seq(Alert)
  BY <1>0, AppendProperties
<1>3. Going /\ Len(children) = 3 => Silent(pipe') /\ Silent(sup.lines)
  BY <1>0, SilentNow, SilentParts
<1>4. ShieldSame
  BY <1>3 DEF ShieldSame, Going, shm
<1>5. SupKept
  BY <1>1 DEF SupKept, HistKept, Going, shm
<1>6. ExitState'
  BY <1>1, ExitKept DEF HistKept
<1>7. Books
  BY <1>0, <1>1, <1>2, <1>4, <1>5, <1>6 DEF Books, Types, HistKept, shm
<1>8. CountsSame
  BY <1>1 DEF CountsSame, HistKept, Going, shm
<1> QED
  BY <1>7, <1>8, CountsKept, BookStep

LEMMA AlertsStep ==
  ASSUME SInd, Alerts
  PROVE  SInd'
<1>0. Types /\ Shielded
  BY DEF SInd
<1>1. ASSUME NEW p \in Physical, StallAlert(p)
      PROVE  SInd'
  <2>1. PICK a \in Alert : a = [event |-> "worker_stalled", worker |-> p]
    BY DEF Alert
  <2>2. Going /\ Len(children) = 3 => a # [event |-> "worker_stalled", worker |-> 2]
    BY <1>0, <1>1, <2>1 DEF StallAlert, Shielded
  <2> QED
    BY <1>1, <2>1, <2>2, AlertSent DEF StallAlert
<1>2. ASSUME NEW i \in Idx, CrashAlert(i)
      PROVE  SInd'
  <2>1. PICK a \in Alert : a = [event |-> "worker_crashed", worker |-> children[i].phys]
    BY <1>0, Indices DEF Alert, ChildRecord
  <2>2. a # [event |-> "worker_stalled", worker |-> 2]
    BY <2>1
  <2>3. children[i].phys \in Physical
    BY <1>0, Indices DEF ChildRecord
  <2>4. \E p \in Physical : hist' = [hist EXCEPT !.alerts[p] = @ + 1]
    BY <1>2, <2>3 DEF CrashAlert
  <2> QED
    BY <1>2, <2>1, <2>2, <2>4, AlertSent DEF CrashAlert
<1>3. CASE MonitorDies
  <2>1. UNCHANGED <<shm, children, pc, sup, pipe, hist>>
    BY <1>3 DEF MonitorDies
  <2>2. ShieldSame
    BY <2>1, SilentNow DEF ShieldSame, Going, shm
  <2>3. SupKept /\ ExitState'
    BY <2>1, ExitKept DEF SupKept, Going, shm
  <2>4. Books
    BY <1>0, <2>1, <2>2, <2>3 DEF Books, Types, shm
  <2>5. CountsSame
    BY <2>1 DEF CountsSame, Going, shm
  <2> QED
    BY <2>4, <2>5, CountsKept, BookStep
<1> QED
  BY <1>1, <1>2, <1>3 DEF Alerts

-----------------------------------------------------------------------------
(* A turn of the supervisor that touches no process and no cell: it may move on in      *)
(* its loop, read alerts and disarm trackers.                                             *)
Turn ==
  /\ UNCHANGED <<shm, children, hist>>
  /\ sup' \in SupRecord /\ pipe' \in Seq(Alert)
  /\ sup'.next_generation = sup.next_generation /\ sup'.degraded = sup.degraded
  /\ sup'.records = sup.records /\ sup'.before = sup.before /\ sup'.rc = sup.rc
  /\ (sup'.crash_reaped <=> sup.crash_reaped) /\ (sup'.detected <=> sup.detected)
  /\ (sup'.prev <=> sup.prev) /\ (sup'.first_post <=> sup.first_post)
  /\ sup'.state = "Failsafe" <=> sup.state = "Failsafe"
  /\ sup.state = "Degraded" => sup'.state = "Degraded"
  /\ \A p \in Physical : sup'.track[p].due => sup'.track[p].active
  /\ sup'.track[2].active => sup.track[2].active
  /\ sup.window = "closed" => sup'.window = "closed"
  /\ Going' /\ Len(children) = 3 => Silent(pipe') /\ Silent(sup'.lines)
  /\ pc' = pc \/ (pc \in {"top", "track", "lines"} /\ pc' \in {"top", "lines", "down"})

LEMMA TurnStep ==
  ASSUME SInd, Turn
  PROVE  SInd'
<1> USE DEF Turn
<1>0. Types /\ ExitState
  BY DEF SInd
<1>1. (Going' => Going) /\ (Degraded' <=> Degraded)
  BY DEF Going, Degraded
<1>2. SupKept
  BY <1>1 DEF SupKept, shm
<1>3. ShieldSame
  BY <1>1 DEF ShieldSame, shm
<1>4. ExitState'
  <2>1. sup'.state = "Failsafe" => ~Going'
    BY <1>0, <1>1 DEF ExitState
  <2>2. pc' \in {"top", "track", "lines", "down"} /\ Degraded' /\ ~hist'.escalated
          => sup'.state \in {"Degraded", "Failsafe"}
    BY <1>0, <1>1 DEF ExitState
  <2>3. DegradedExit' /\ (sup'.rc = -1 <=> pc' # "exit")
    BY <1>0, <1>1 DEF ExitState, DegradedExit
  <2> QED
    BY <2>1, <2>2, <2>3 DEF ExitState
<1>5. Books
  BY <1>0, <1>2, <1>3, <1>4 DEF Books, Types, shm
<1>6. CountsSame
  BY <1>1 DEF CountsSame, shm
<1> QED
  BY <1>5, <1>6, CountsKept, BookStep

(* The locals change at most in what is said of the state, the window, a tracker     *)
(* and the alerts that were read.                                                       *)
LEMMA LocalsFacts ==
  ASSUME Types
  PROVE  /\ sup \in SupRecord /\ sup.lines \in Seq(Alert) /\ sup.partial \in BOOLEAN
         /\ sup.state \in {"Running", "StalledRecovering", "FailoverDetected", "Degraded", "Failsafe"}
         /\ sup.window \in {"closed", "open", "elapsed"}
         /\ sup.track \in [Physical -> [active : BOOLEAN, due : BOOLEAN, epoch : Nat, baseline : Nat]]
BY DEF Types, SupRecord

(* The same locals, written as an update.                                                 *)
LEMMA LocalsSame ==
  ASSUME NEW s \in SupRecord, NEW st, NEW w, NEW l, NEW b, NEW tr
  PROVE  /\ [s EXCEPT !.window = w]
             = [s EXCEPT !.state = s.state, !.window = w, !.lines = s.lines,
                         !.partial = s.partial, !.track = s.track]
         /\ [s EXCEPT !.track = tr]
             = [s EXCEPT !.state = s.state, !.window = s.window, !.lines = s.lines,
                         !.partial = s.partial, !.track = tr]
         /\ [s EXCEPT !.track = tr, !.state = st]
             = [s EXCEPT !.state = st, !.window = s.window, !.lines = s.lines,
                         !.partial = s.partial, !.track = tr]
         /\ [s EXCEPT !.lines = l, !.partial = b]
             = [s EXCEPT !.state = s.state, !.window = s.window, !.lines = l,
                         !.partial = b, !.track = s.track]
         /\ [s EXCEPT !.lines = l, !.state = st]
             = [s EXCEPT !.state = st, !.window = s.window, !.lines = l,
                         !.partial = s.partial, !.track = s.track]
         /\ [s EXCEPT !.lines = l]
             = [s EXCEPT !.state = s.state, !.window = s.window, !.lines = l,
                         !.partial = s.partial, !.track = s.track]
         /\ [s EXCEPT !.lines = l, !.state = st, !.track = tr]
             = [s EXCEPT !.state = st, !.window = s.window, !.lines = l,
                         !.partial = s.partial, !.track = tr]
         /\ s = [s EXCEPT !.state = s.state, !.window = s.window, !.lines = s.lines,
                          !.partial = s.partial, !.track = s.track]
BY DEF SupRecord

(* The fields such an update leaves alone.                                                *)
RestOfLocals ==
  /\ sup' \in SupRecord
  /\ sup'.next_generation = sup.next_generation /\ sup'.degraded = sup.degraded
  /\ sup'.records = sup.records /\ sup'.before = sup.before /\ sup'.rc = sup.rc
  /\ (sup'.crash_reaped <=> sup.crash_reaped) /\ (sup'.detected <=> sup.detected)
  /\ (sup'.prev <=> sup.prev) /\ (sup'.first_post <=> sup.first_post)

Sets(st, w, l, b, tr) ==
  /\ st \in {"Running", "StalledRecovering", "FailoverDetected", "Degraded", "Failsafe"}
  /\ w \in {"closed", "open", "elapsed"} /\ l \in Seq(Alert) /\ b \in BOOLEAN
  /\ tr \in [Physical -> [active : BOOLEAN, due : BOOLEAN, epoch : Nat, baseline : Nat]]
  /\ sup' = [sup EXCEPT !.state = st, !.window = w, !.lines = l, !.partial = b, !.track = tr]

LEMMA LocalsStep ==
  ASSUME SInd, NEW st, NEW w, NEW l, NEW b, NEW tr, Sets(st, w, l, b, tr)
  PROVE  /\ RestOfLocals /\ sup'.state = st /\ sup'.window = w /\ sup'.lines = l /\ sup'.track = tr
<1>1. PICK s \in SupRecord : s = sup
  BY DEF SInd, Types
<1>2. PICK z : z = sup'
  OBVIOUS
<1>3. /\ st \in {"Running", "StalledRecovering", "FailoverDetected", "Degraded", "Failsafe"}
      /\ w \in {"closed", "open", "elapsed"} /\ l \in Seq(Alert) /\ b \in BOOLEAN
      /\ tr \in [Physical -> [active : BOOLEAN, due : BOOLEAN, epoch : Nat, baseline : Nat]]
      /\ z = [s EXCEPT !.state = st, !.window = w, !.lines = l, !.partial = b, !.track = tr]
  BY <1>1, <1>2 DEF Sets
<1>4. /\ z \in SupRecord /\ z.state = st /\ z.window = w /\ z.lines = l /\ z.track = tr
      /\ z.next_generation = s.next_generation /\ z.degraded = s.degraded
      /\ z.records = s.records /\ z.before = s.before /\ z.rc = s.rc
  BY <1>3 DEF SupRecord
<1>5. /\ z.crash_reaped = s.crash_reaped /\ z.detected = s.detected
      /\ z.prev = s.prev /\ z.first_post = s.first_post
  BY <1>3 DEF SupRecord
<1> QED
  BY <1>1, <1>2, <1>4, <1>5 DEF RestOfLocals

LEMMA TimersStep ==
  ASSUME SInd, Timers
  PROVE  SInd'
<1>0. Types /\ ExitState
  BY DEF SInd
<1>l. /\ sup \in SupRecord /\ sup.lines \in Seq(Alert) /\ sup.partial \in BOOLEAN
      /\ sup.state \in {"Running", "StalledRecovering", "FailoverDetected", "Degraded", "Failsafe"}
      /\ sup.window \in {"closed", "open", "elapsed"} /\ pipe \in Seq(Alert)
      /\ sup.track \in [Physical -> [active : BOOLEAN, due : BOOLEAN, epoch : Nat, baseline : Nat]]
  BY <1>0, LocalsFacts DEF Types
<1>1. CASE WindowElapses
  <2>1. /\ sup.window = "open" /\ sup' = [sup EXCEPT !.window = "elapsed"]
        /\ UNCHANGED <<shm, children, pc, pipe, hist>>
    BY <1>1 DEF WindowElapses
  <2>2. Sets(sup.state, "elapsed", sup.lines, sup.partial, sup.track)
    BY <1>l, <2>1, LocalsSame DEF Sets
  <2>3. /\ RestOfLocals /\ sup'.state = sup.state /\ sup'.window = "elapsed"
        /\ sup'.lines = sup.lines /\ sup'.track = sup.track
    BY <2>2, LocalsStep
  <2>4. Turn
    BY <1>0, <1>l, <2>1, <2>3, SilentNow DEF Turn, RestOfLocals, ExitState, Going
  <2> QED
    BY <2>4, TurnStep
<1>2. ASSUME NEW p \in Physical, GraceElapses(p)
      PROVE  SInd'
  <2>1. /\ sup.track[p].active /\ UNCHANGED <<shm, children, pc, pipe, hist>>
    BY <1>2 DEF GraceElapses
  <2>2. PICK tr : tr = [sup.track EXCEPT ![p].due = TRUE]
    OBVIOUS
  <2>3. /\ tr \in [Physical -> [active : BOOLEAN, due : BOOLEAN, epoch : Nat, baseline : Nat]]
        /\ \A q \in Physical : tr[q].active <=> sup.track[q].active
        /\ \A q \in Physical : q # p => (tr[q].due <=> sup.track[q].due)
    BY <1>l, <2>2
  <2>a. sup' = [sup EXCEPT !.track = tr]
    BY <1>2, <2>2 DEF GraceElapses
  <2>4. Sets(sup.state, sup.window, sup.lines, sup.partial, tr)
    BY <1>l, <2>3, <2>a, LocalsSame DEF Sets
  <2>5. /\ RestOfLocals /\ sup'.state = sup.state /\ sup'.window = sup.window
        /\ sup'.lines = sup.lines /\ sup'.track = tr
    BY <2>4, LocalsStep
  <2>6. /\ \A q \in Physical : sup'.track[q].due => sup'.track[q].active
        /\ sup'.track[2].active => sup.track[2].active
    BY <1>0, <2>1, <2>3, <2>5, Small DEF ExitState
  <2>7. Turn
    BY <1>l, <2>1, <2>5, <2>6, SilentNow DEF Turn, RestOfLocals, Going
  <2> QED
    BY <2>7, TurnStep
<1> QED
  BY <1>1, <1>2 DEF Timers

(* Moves of the loop that change no local but where it is.                                *)
LEMMA MoveStep ==
  ASSUME SInd, UNCHANGED <<shm, children, sup, pipe, hist>>,
         pc' = pc \/ (pc \in {"top", "track", "lines"} /\ pc' \in {"top", "lines", "down"})
  PROVE  SInd'
<1>0. Types /\ ExitState
  BY DEF SInd
<1>1. sup \in SupRecord /\ pipe \in Seq(Alert)
  BY <1>0 DEF Types
<1>2. Turn
  BY <1>0, <1>1, SilentNow DEF Turn, ExitState, Going
<1> QED
  BY <1>2, TurnStep

LEMMA MovesStep ==
  ASSUME SInd, LoopEnds \/ ReapSkip \/ TrackNone \/ PollEmpty \/ LinesDone \/ Exited \/ UNCHANGED vars
  PROVE  SInd'
<1>1. CASE LoopEnds \/ PollEmpty \/ LinesDone
  BY <1>1, MoveStep DEF LoopEnds, PollEmpty, LinesDone, AtPoll
<1>2. CASE ReapSkip \/ TrackNone
  BY <1>2, MoveStep DEF ReapSkip, TrackNone
<1>3. CASE Exited \/ UNCHANGED vars
  BY <1>3, MoveStep DEF Exited, vars
<1> QED
  BY <1>1, <1>2, <1>3

(* Alerts are read in order, in batches, and dropped one by one.                          *)
LEMMA LinesStep ==
  ASSUME SInd, \/ \E n \in 1..Len(pipe) : PollRead(n)
               \/ LineForwarded \/ LineCrashed
  PROVE  SInd'
<1>0. Types /\ ExitState
  BY DEF SInd
<1>l. /\ sup \in SupRecord /\ sup.lines \in Seq(Alert) /\ sup.partial \in BOOLEAN
      /\ sup.state \in {"Running", "StalledRecovering", "FailoverDetected", "Degraded", "Failsafe"}
      /\ sup.window \in {"closed", "open", "elapsed"} /\ pipe \in Seq(Alert)
      /\ sup.track \in [Physical -> [active : BOOLEAN, due : BOOLEAN, epoch : Nat, baseline : Nat]]
  BY <1>0, LocalsFacts DEF Types
<1>1. ASSUME NEW n \in 1..Len(pipe), PollRead(n)
      PROVE  SInd'
  <2>1. /\ UNCHANGED <<shm, children, hist>> /\ pc = "track" /\ pc' = "lines"
        /\ pipe' = SubSeq(pipe, n + 1, Len(pipe))
    BY <1>1 DEF PollRead, AtPoll
  <2>2. PICK cut \in BOOLEAN : sup' = [sup EXCEPT !.lines = SubSeq(pipe, 1, n), !.partial = cut]
    BY <1>1 DEF PollRead
  <2>l. PICK l : l = SubSeq(pipe, 1, n)
    OBVIOUS
  <2>3. /\ l \in Seq(Alert) /\ pipe' \in Seq(Alert)
        /\ Silent(pipe) => Silent(l) /\ Silent(pipe')
    <3>1. Len(pipe) \in Nat /\ \A k \in 1 .. Len(pipe) : pipe[k] \in Alert
      BY <1>l, LenProperties, ElementOfSeq
    <3>2. l \in Seq(Alert)
      BY <1>l, <2>l, <3>1, SubSeqProperties
    <3>3. pipe' \in Seq(Alert)
      BY <1>l, <2>1, <3>1, SubSeqProperties
    <3> QED
      BY <1>l, <2>1, <2>l, <3>2, <3>3, SilentParts
  <2>a. sup' = [sup EXCEPT !.lines = l, !.partial = cut]
    BY <2>2, <2>l
  <2>b. sup' = [sup EXCEPT !.state = sup.state, !.window = sup.window, !.lines = l,
                           !.partial = cut, !.track = sup.track]
    BY <1>l, <2>a, LocalsSame
  <2>4. Sets(sup.state, sup.window, l, cut, sup.track)
    BY <1>l, <2>3, <2>b DEF Sets
  <2>5. /\ RestOfLocals /\ sup'.state = sup.state /\ sup'.window = sup.window
        /\ sup'.lines = l /\ sup'.track = sup.track
    BY <2>4, LocalsStep
  <2>6. Turn
    BY <1>0, <2>1, <2>3, <2>5, SilentNow DEF Turn, RestOfLocals, ExitState, Going
  <2> QED
    BY <2>6, TurnStep
<1>2. CASE LineForwarded \/ LineCrashed
  <2>1. UNCHANGED <<shm, children, pc, pipe, hist>> /\ pc = "lines" /\ sup.lines # <<>>
    BY <1>2 DEF LineForwarded, LineCrashed
  <2>l. PICK l : l = Tail(sup.lines)
    OBVIOUS
  <2>2. PICK st \in {sup.state, "FailoverDetected"} :
           /\ sup.state = "Degraded" => st = "Degraded"
           /\ Sets(st, sup.window, l, sup.partial, sup.track)
    <3>1. l \in Seq(Alert)
      BY <1>l, <2>1, <2>l, HeadTailProperties
    <3>2. CASE LineForwarded
      BY <1>l, <2>l, <3>1, <3>2, LocalsSame DEF Sets, LineForwarded
    <3>3. CASE LineCrashed
      <4>1. PICK st : st = IF sup.state = "Degraded" THEN sup.state ELSE "FailoverDetected"
        OBVIOUS
      <4>2. sup' = [sup EXCEPT !.lines = l, !.state = st]
        BY <2>l, <3>3, <4>1 DEF LineCrashed
      <4>a. sup' = [sup EXCEPT !.state = st, !.window = sup.window, !.lines = l,
                               !.partial = sup.partial, !.track = sup.track]
        BY <1>l, <4>2, LocalsSame
      <4>3. Sets(st, sup.window, l, sup.partial, sup.track)
        BY <1>l, <3>1, <4>1, <4>a DEF Sets
      <4> QED
        BY <4>1, <4>3
    <3> QED
      BY <1>2, <3>2, <3>3
  <2>3. /\ RestOfLocals /\ sup'.state = st /\ sup'.window = sup.window
        /\ sup'.lines = l /\ sup'.track = sup.track
    BY <2>2, LocalsStep
  <2>4. Silent(sup.lines) => Silent(l)
    BY <1>l, <2>1, <2>l, SilentParts
  <2>5. sup.state # "Failsafe" /\ Going
    BY <1>0, <2>1 DEF ExitState, Going
  <2>6. Turn
    BY <1>0, <1>l, <2>1, <2>2, <2>3, <2>4, <2>5, SilentNow DEF Turn, RestOfLocals, ExitState
  <2> QED
    BY <2>6, TurnStep
<1> QED
  BY <1>1, <1>2

(* A worker moved again: its tracker is disarmed.                                          *)
LEMMA Disarmed ==
  ASSUME SInd, NEW p \in Physical, NEW tr, tr = [sup.track EXCEPT ![p] = Idle]
  PROVE  /\ tr \in [Physical -> [active : BOOLEAN, due : BOOLEAN, epoch : Nat, baseline : Nat]]
         /\ \A q \in Physical : tr[q].due => tr[q].active
         /\ tr[2].active => sup.track[2].active
<1>1. sup.track \in [Physical -> [active : BOOLEAN, due : BOOLEAN, epoch : Nat, baseline : Nat]]
  BY LocalsFacts DEF SInd
<1>2. Idle \in [active : BOOLEAN, due : BOOLEAN, epoch : Nat, baseline : Nat] /\ ~Idle.active /\ ~Idle.due
  BY DEF Idle
<1>3. \A q \in Physical : tr[q] = IF q = p THEN Idle ELSE sup.track[q]
  BY <1>1
<1>4. \A q \in Physical : sup.track[q].due => sup.track[q].active
  BY DEF SInd, ExitState
<1>5. tr \in [Physical -> [active : BOOLEAN, due : BOOLEAN, epoch : Nat, baseline : Nat]]
  BY <1>1, <1>2
<1> QED
  BY <1>2, <1>3, <1>4, <1>5, Small

LEMMA RecoveredStep ==
  ASSUME SInd, TrackRecovered
  PROVE  SInd'
<1>0. Types /\ ExitState
  BY DEF SInd
<1>l. /\ sup \in SupRecord /\ sup.lines \in Seq(Alert) /\ sup.partial \in BOOLEAN
      /\ sup.state \in {"Running", "StalledRecovering", "FailoverDetected", "Degraded", "Failsafe"}
      /\ sup.window \in {"closed", "open", "elapsed"} /\ pipe \in Seq(Alert)
  BY <1>0, LocalsFacts DEF Types
<1>1. idx \in Physical /\ pc = "track" /\ UNCHANGED <<shm, children, pc, pipe, hist>>
  BY DEF TrackRecovered
<1>2. PICK tr : tr = [sup.track EXCEPT ![idx] = Idle]
  OBVIOUS
<1>3. PICK st : st = IF sup.state = "Degraded" THEN sup.state ELSE "Running"
  OBVIOUS
<1>4. sup' = [sup EXCEPT !.track = tr, !.state = st]
  BY <1>2, <1>3 DEF TrackRecovered
<1>5. /\ tr \in [Physical -> [active : BOOLEAN, due : BOOLEAN, epoch : Nat, baseline : Nat]]
      /\ \A q \in Physical : tr[q].due => tr[q].active
      /\ tr[2].active => sup.track[2].active
  BY <1>1, <1>2, Disarmed
<1>a. sup' = [sup EXCEPT !.state = st, !.window = sup.window, !.lines = sup.lines,
                         !.partial = sup.partial, !.track = tr]
  BY <1>l, <1>4, LocalsSame
<1>6. Sets(st, sup.window, sup.lines, sup.partial, tr)
  BY <1>l, <1>3, <1>5, <1>a DEF Sets
<1>7. /\ RestOfLocals /\ sup'.state = st /\ sup'.window = sup.window
      /\ sup'.lines = sup.lines /\ sup'.track = tr
  BY <1>6, LocalsStep
<1>8. sup.state # "Failsafe" /\ Going
  BY <1>0, <1>1 DEF ExitState, Going
<1>9. Turn
  BY <1>l, <1>1, <1>3, <1>5, <1>7, <1>8, SilentNow DEF Turn, RestOfLocals
<1> QED
  BY <1>9, TurnStep

(* A new iteration: the flags of the last one are cleared.                                  *)
LEMMA LoopStep ==
  ASSUME SInd, Loop
  PROVE  SInd'
<1>0. Types /\ ExitState /\ Counts
  BY DEF SInd
<1>1. /\ UNCHANGED <<shm, children, pipe>> /\ pc = "top" /\ pc' = "reap" /\ Going /\ Going'
      /\ sup' = [sup EXCEPT !.crash_reaped = FALSE, !.prev = sup.detected]
      /\ hist' = [hist EXCEPT !.escalated = FALSE]
  BY DEF Loop, Going
<1>s. PICK s \in SupRecord : s = sup
  BY <1>0 DEF Types
<1>z. PICK z : z = sup'
  OBVIOUS
<1>2. /\ z \in SupRecord /\ z.next_generation = s.next_generation /\ z.degraded = s.degraded
      /\ z.records = s.records /\ z.before = s.before /\ z.rc = s.rc /\ z.state = s.state
      /\ z.window = s.window /\ z.track = s.track /\ z.lines = s.lines
  BY <1>1, <1>s, <1>z DEF SupRecord
<1>3. z.crash_reaped = FALSE /\ z.prev = s.detected /\ z.detected = s.detected
      /\ z.first_post = s.first_post
  BY <1>1, <1>s, <1>z DEF SupRecord
<1>4. /\ sup' \in SupRecord /\ sup'.next_generation = sup.next_generation
      /\ sup'.degraded = sup.degraded /\ sup'.records = sup.records /\ sup'.before = sup.before
      /\ sup'.rc = sup.rc /\ sup'.state = sup.state /\ sup'.window = sup.window
      /\ sup'.track = sup.track /\ sup'.lines = sup.lines /\ ~sup'.crash_reaped
      /\ (sup'.prev <=> sup.detected) /\ (sup'.detected <=> sup.detected)
      /\ (sup'.first_post <=> sup.first_post)
  BY <1>2, <1>3, <1>s, <1>z
<1>5. /\ hist' \in HistRecord /\ hist'.may = hist.may /\ hist'.announced = hist.announced
      /\ hist'.handover = hist.handover
  BY <1>0, <1>1 DEF Types, HistRecord
<1>6. SupKept
  BY <1>1, <1>4, <1>5 DEF SupKept, shm
<1>7. ExitState'
  BY <1>0, <1>1, <1>4 DEF ExitState, DegradedExit
<1>8. ShieldSame
  BY <1>1, <1>4, SilentNow DEF ShieldSame, shm
<1>9. Books
  BY <1>0, <1>1, <1>4, <1>5, <1>6, <1>7, <1>8 DEF Books, Types, shm
<1>10. Counts'
  <2>1. Drained' = Drained /\ (StandbyBusy' <=> StandbyBusy)
    BY <1>1 DEF Drained, StandbyBusy, shm
  <2>2. /\ \A r \in Rings : tail'[r] <= hist'.may.claims
        /\ \A r \in HotRings :
             abandoned'[r] => tail'[r] > 0 /\ children'[owner'[r].phys + 1].life = "crashed"
        /\ \A r \in HotRings : sup'.records[r] <= Drained'[r]
        /\ owner'[0].phys = 2 => hist'.handover[0] <= Drained'[0]
    BY <1>0, <1>1, <1>4, <1>5, <2>1 DEF Counts, shm
  <2>3. /\ Going' => (StandbyBusy' \/ sup'.detected => Len(children') > 3)
        /\ Len(children') > 3 => /\ sup'.detected
                                 /\ children'[4].phys = 2 \/ owner'[children'[4].phys].phys = 2
        /\ ~sup'.detected => sup'.before = 0
        /\ sup'.prev => sup'.detected
        /\ pc' = "reap" /\ ~sup'.prev => sup'.before = 0
    BY <1>0, <1>1, <1>4, <2>1 DEF Counts, shm
  <2>4. /\ Going' /\ Len(children') > 3 /\ children'[4].phys = 0 =>
             (pc' = "reap" /\ ~sup'.prev) \/ sup'.before >= hist'.handover[0]
        /\ sup'.first_post => /\ Len(children') > 3 /\ owner'[0].phys = 2
                              /\ children'[4].phys = 0 => sup'.records[0] > hist'.handover[0]
    BY <1>0, <1>1, <1>4, <1>5 DEF Counts, shm
  <2> QED
    BY <2>2, <2>3, <2>4 DEF Counts
<1> QED
  BY <1>9, <1>10, BookStep

(* The accounting after the reap: the first snapshot of the record count is taken after   *)
(* the ring was handed over.                                                               *)
LEMMA AccountStep ==
  ASSUME SInd, Account
  PROVE  SInd'
<1>0. Types /\ Cells /\ ExitState /\ Counts /\ Shielded
  BY DEF SInd
<1>b. PICK before : before = IF FirstDetection THEN Drained[0] ELSE sup.before
  OBVIOUS
<1>p. PICK post \in BOOLEAN : post <=> owner[0].phys = kStandbyPhysical /\ epoch[0] > 2 /\ Drained[0] > before
  OBVIOUS
<1>w. PICK window : window = IF sup.crash_reaped THEN "open" ELSE sup.window
  OBVIOUS
<1>v. PICK w : w = IF post \/ window = "elapsed" THEN "closed" ELSE window
  OBVIOUS
<1>f. PICK fp \in BOOLEAN : fp <=> sup.first_post \/ post
  OBVIOUS
<1>1. /\ pc = "reap" /\ pc' = "track" /\ Going /\ Going'
      /\ UNCHANGED <<owner, epoch, tail, abandoned, children, pipe, hist>>
      /\ status' = [p \in Physical |-> IF sup.degraded[p] THEN status[p] \union {"DEGRADED"}
                                       ELSE status[p]]
  BY DEF Account, Going
<1>s. PICK s \in SupRecord : s = sup
  BY <1>0 DEF Types
<1>z. PICK z : z = sup'
  OBVIOUS
<1>2. z = [s EXCEPT !.state = StateAfterReap, !.records = Drained, !.before = before,
                    !.first_post = fp, !.window = w]
  <2>1. s.first_post \in BOOLEAN
    BY <1>s DEF SupRecord
  <2>2. (s.first_post \/ (owner[0].phys = kStandbyPhysical /\ epoch[0] > 2 /\ Drained[0] > before)) = fp
    BY <1>p, <1>f, <1>s, <2>1
  <2>3. w = IF (owner[0].phys = kStandbyPhysical /\ epoch[0] > 2 /\ Drained[0] > before) \/ window = "elapsed"
            THEN "closed" ELSE window
    BY <1>p, <1>v
  <2> QED
    BY <1>b, <1>w, <1>s, <1>z, <2>2, <2>3 DEF Account
<1>3. /\ \A r \in HotRings : Drained[r] \in Int
      /\ Drained \in [HotRings -> Int]
  BY <1>0, DrainedType DEF Drained
<1>4. /\ before \in Int /\ w \in {"closed", "open", "elapsed"}
      /\ StateAfterReap \in {"Running", "StalledRecovering", "FailoverDetected", "Degraded", "Failsafe"}
  BY <1>0, <1>3, <1>b, <1>v, <1>w, Small DEF Types, SupRecord, StateAfterReap
<1>5. /\ z \in SupRecord /\ z.next_generation = s.next_generation /\ z.degraded = s.degraded
      /\ z.records = Drained /\ z.before = before /\ z.rc = s.rc /\ z.state = StateAfterReap
      /\ z.window = w /\ z.track = s.track /\ z.lines = s.lines
  <2>1. PICK dr \in [HotRings -> Int] : dr = Drained
    BY <1>3
  <2>2. PICK st \in {"Running", "StalledRecovering", "FailoverDetected", "Degraded", "Failsafe"} :
           st = StateAfterReap
    BY <1>4
  <2>3. z = [s EXCEPT !.state = st, !.records = dr, !.before = before,
                      !.first_post = fp, !.window = w]
    BY <1>2, <2>1, <2>2
  <2>4. before \in Int /\ w \in {"closed", "open", "elapsed"} /\ fp \in BOOLEAN
    BY <1>4
  <2>5. /\ z.next_generation = s.next_generation /\ z.degraded = s.degraded
        /\ z.records = dr /\ z.before = before /\ z.rc = s.rc /\ z.state = st
        /\ z.window = w /\ z.track = s.track /\ z.lines = s.lines
    BY <2>3, <1>s DEF SupRecord
  <2>6. z \in SupRecord
    BY <2>3, <2>4, <1>s DEF SupRecord
  <2> QED
    BY <2>1, <2>2, <2>5, <2>6
<1>6. z.prev = s.prev /\ z.detected = s.detected /\ z.first_post = fp
  BY <1>2, <1>s DEF SupRecord
<1>7. /\ sup' \in SupRecord /\ sup'.next_generation = sup.next_generation
      /\ sup'.degraded = sup.degraded /\ sup'.records = Drained /\ sup'.before = before
      /\ sup'.rc = sup.rc /\ sup'.state = StateAfterReap /\ sup'.window = w
      /\ sup'.track = sup.track /\ sup'.lines = sup.lines
      /\ (sup'.prev <=> sup.prev) /\ (sup'.detected <=> sup.detected)
      /\ (sup'.first_post <=> fp)
  BY <1>5, <1>6, <1>s, <1>z
<1>8. sup.state # "Failsafe"
  BY <1>0, <1>1 DEF ExitState
<1>9. SupKept
  BY <1>1, <1>7, <1>8 DEF SupKept
<1>10. ExitState'
  <2>1. (Degraded' <=> Degraded) /\ StateAfterReap # "Failsafe" /\ (Degraded => StateAfterReap = "Degraded")
    BY <1>7, <1>8 DEF Degraded, StateAfterReap
  <2> QED
    BY <1>0, <1>1, <1>7, <2>1 DEF ExitState, DegradedExit
<1>11. ShieldSame
  <2>1. Len(children) = 4 /\ sup.track[2].active => sup.window = "closed" /\ ~sup.crash_reaped
    BY <1>0, <1>1 DEF Shielded
  <2>2. Len(children) = 4 /\ sup.track[2].active => w = "closed"
    BY <1>v, <1>w, <2>1
  <2>3. "RUNNING" \in status'[2] => "RUNNING" \in status[2]
    BY <1>1, Small
  <2> QED
    BY <1>1, <1>7, <2>2, <2>3, SilentNow DEF ShieldSame
<1>12. status' \in [Physical -> SUBSET {"RUNNING", "IDLE", "DEGRADED"}]
  BY <1>0, <1>1 DEF Types
<1>13. Books
  BY <1>0, <1>1, <1>7, <1>9, <1>10, <1>11, <1>12 DEF Books, Types
<1>14. Counts'
  <2>1. Drained' = Drained /\ (StandbyBusy' <=> StandbyBusy)
    BY <1>1 DEF Drained, StandbyBusy
  <2>h. hist.handover[0] \in Nat /\ sup.records[0] \in Int /\ Drained[0] \in Int /\ sup.before \in Int
    BY <1>0, <1>3, Small DEF Types, SupRecord, HistRecord
  <2>2. /\ \A r \in Rings : tail'[r] <= hist'.may.claims
        /\ \A r \in HotRings :
             abandoned'[r] => tail'[r] > 0 /\ children'[owner'[r].phys + 1].life = "crashed"
        /\ owner'[0].phys = 2 => hist'.handover[0] <= Drained'[0]
    BY <1>0, <1>1, <2>1 DEF Counts
  <2>3. \A r \in HotRings : sup'.records[r] <= Drained'[r]
    BY <1>3, <1>7, <2>1
  <2>4. /\ Going' => (StandbyBusy' \/ sup'.detected => Len(children') > 3)
        /\ Len(children') > 3 => /\ sup'.detected
                                 /\ children'[4].phys = 2 \/ owner'[children'[4].phys].phys = 2
        /\ sup'.prev => sup'.detected
    BY <1>0, <1>1, <1>7, <2>1 DEF Counts
  <2>5. ~sup'.detected => sup'.before = 0
    BY <1>0, <1>7, <1>b DEF Counts, FirstDetection
  <2>6. Len(children) > 3 /\ children[4].phys = 0 => before >= hist.handover[0]
    <3> SUFFICES ASSUME Len(children) > 3, children[4].phys = 0
                 PROVE  before >= hist.handover[0]
      OBVIOUS
    <3>1. owner[0].phys = 2 /\ sup.detected /\ hist.handover[0] <= Drained[0]
      BY <1>0 DEF Counts
    <3>2. CASE ~sup.prev
      BY <1>0, <1>1, <1>b, <2>h, <3>1, <3>2 DEF Counts, FirstDetection
    <3>3. CASE sup.prev
      BY <1>0, <1>1, <1>b, <3>3 DEF Counts, FirstDetection
    <3> QED
      BY <3>2, <3>3
  <2>7. ASSUME sup'.first_post
        PROVE  /\ Len(children') > 3 /\ owner'[0].phys = 2
               /\ children'[4].phys = 0 => sup'.records[0] > hist'.handover[0]
    <3>1. CASE sup.first_post
      <4>1. /\ Len(children) > 3 /\ owner[0].phys = 2 /\ sup.records[0] <= Drained[0]
            /\ children[4].phys = 0 => sup.records[0] > hist.handover[0]
        BY <1>0, <3>1, Small DEF Counts
      <4> QED
        BY <1>1, <1>7, <2>h, <4>1
    <3>2. CASE post
      <4>1. owner[0].phys = 2 /\ Drained[0] > before
        BY <1>p, <3>2, Small
      <4>2. Len(children) > 3
        BY <1>0, <1>1, <4>1 DEF Counts, StandbyBusy
      <4> QED
        BY <1>1, <1>4, <1>7, <2>6, <2>h, <4>1, <4>2
    <3> QED
      BY <1>7, <1>f, <2>7, <3>1, <3>2
  <2> QED
    BY <1>1, <1>7, <2>2, <2>3, <2>4, <2>5, <2>6, <2>7 DEF Counts
<1> QED
  BY <1>13, <1>14, BookStep

-----------------------------------------------------------------------------
(* The supervisor signals one process.                                                     *)
LEMMA NobodyChanges ==
  ASSUME SInd, UNCHANGED children
  PROVE  1 \in Idx /\ children[1] \in ChildRecord /\ Becomes(1, children[1])
<1>0. Types /\ HotWorkers
  BY DEF SInd
<1>1. 1 \in Idx /\ children[1] \in ChildRecord
  BY <1>0, Indices
<1>2. children' = [children EXCEPT ![1] = children[1]]
  <2>1. children \in [1 .. Len(children) -> ChildRecord] /\ 1 \in 1 .. Len(children)
    BY <1>0, LenProperties, Indices DEF Types
  <2> QED
    BY <2>1
<1>3. children[1].life = "hot" => children[1].ring \in HotRings /\ Valid(children[1])
  BY <1>0, <1>1 DEF HotWorkers
<1>4. Becomes(1, children[1])
  <2>c. PICK c : c = children[1]
    OBVIOUS
  <2>1. children' = [children EXCEPT ![1] = c]
    BY <1>2, <2>c
  <2>2. c.life = "hot" => 1 <= 3 /\ c.ring \in HotRings /\ Valid(c)
    BY <1>3, <2>c
  <2>3. /\ c.phys = children[1].phys /\ c.gen = children[1].gen /\ c.role = children[1].role
        /\ (c.pid <=> children[1].pid) /\ (c.handled <=> children[1].handled)
        /\ c.life = children[1].life
    BY <2>c
  <2>4. Becomes(1, c)
    BY <2>1, <2>2, <2>3 DEF Becomes
  <2> QED
    BY <2>4, <2>c
<1> QED
  BY <1>1, <1>4

Signals(i, c) ==
  /\ Becomes(i, c) /\ UNCHANGED <<shm, pc, pipe>> /\ Going /\ RestOfLocals
  /\ hist' \in HistRecord /\ hist'.may = hist.may /\ hist'.announced = hist.announced
  /\ hist'.handover = hist.handover
  /\ sup'.state # "Failsafe" /\ (Degraded => hist'.escalated)
  /\ \A p \in Physical : sup'.track[p].due => sup'.track[p].active
  /\ Shielded'

LEMMA SignalStep ==
  ASSUME SInd, NEW i \in Idx, NEW c \in ChildRecord, Signals(i, c)
  PROVE  SInd'
<1> USE DEF Signals
<1>0. Types /\ ExitState /\ Cells
  BY DEF SInd
<1>1. sup.state # "Failsafe" /\ Going' /\ (Degraded' <=> Degraded)
  BY <1>0 DEF ExitState, Going, RestOfLocals, Degraded
<1>2. SupKept
  BY <1>1 DEF SupKept, RestOfLocals, shm
<1>3. /\ children' \in Seq(ChildRecord) /\ Len(children') = Len(children) /\ Idx' = Idx
      /\ \A j \in Idx : children'[j] = IF j = i THEN c ELSE children[j]
      /\ Cells' /\ Slots' /\ HotWorkers' /\ Announced'
  BY <1>2, ChildKept
<1>4. Types'
  BY <1>0, <1>3 DEF Types, RestOfLocals, shm
<1>5. ExitState'
  BY <1>0, <1>1 DEF ExitState, DegradedExit, RestOfLocals, Going
<1>6. CountsSame
  <2>1. Len(children) > 3 => children'[4].phys = children[4].phys
    <3>1. Len(children) > 3 => 4 \in Idx
      BY <1>0, Indices
    <3> QED
      BY <1>3, <3>1 DEF Becomes
  <2>2. \A r \in HotRings : children[owner[r].phys + 1].life = "crashed" =>
                              children'[owner[r].phys + 1].life = "crashed"
    BY CrashedStays
  <2> QED
    BY <1>1, <1>3, <2>1, <2>2 DEF CountsSame, RestOfLocals, shm
<1>7. Counts'
  BY <1>6, CountsKept
<1> QED
  BY <1>3, <1>4, <1>5, <1>7 DEF SInd

(* SIGKILL, and SIGCONT.                                                                    *)
LEMMA KilledChild ==
  ASSUME SInd, NEW i \in Idx, ~children[i].handled, children' = Killed(i)
  PROVE  \E c \in ChildRecord : Becomes(i, c)
<1>0. Types
  BY DEF SInd
<1>1. children[i] \in ChildRecord
  BY <1>0, Indices
<1>d. PICK d \in ChildRecord : d = children[i]
  BY <1>1
<1>l. PICK life \in Lives : life = IF Live(d) THEN "crashed" ELSE d.life
  BY <1>d DEF ChildRecord, Lives
<1>c. PICK c : c = [d EXCEPT !.life = life, !.frozen = FALSE]
  OBVIOUS
<1>2. /\ c \in ChildRecord /\ c.phys = d.phys /\ c.gen = d.gen /\ c.role = d.role
      /\ (c.pid <=> d.pid) /\ (c.handled <=> d.handled) /\ c.life = life
  BY <1>c, <1>l DEF ChildRecord
<1>3. children' = [children EXCEPT ![i] = c]
  <2>1. children \in [1 .. Len(children) -> ChildRecord] /\ i \in 1 .. Len(children)
    BY <1>0, LenProperties, Indices DEF Types
  <2> QED
    BY <1>c, <1>d, <1>l, <2>1 DEF Killed
<1>4. Becomes(i, c)
  BY <1>2, <1>3, <1>d, <1>l DEF Becomes, Live
<1> QED
  BY <1>2, <1>4

LEMMA ContinuedChild ==
  ASSUME SInd, NEW i \in Idx, children' = [children EXCEPT ![i].frozen = FALSE]
  PROVE  \E c \in ChildRecord : Becomes(i, c)
<1>0. Types /\ HotWorkers
  BY DEF SInd
<1>1. children[i] \in ChildRecord
  BY <1>0, Indices
<1>d. PICK d \in ChildRecord : d = children[i]
  BY <1>1
<1>c. PICK c : c = [d EXCEPT !.frozen = FALSE]
  OBVIOUS
<1>2. /\ c \in ChildRecord /\ c.phys = d.phys /\ c.gen = d.gen /\ c.role = d.role
      /\ (c.pid <=> d.pid) /\ (c.handled <=> d.handled) /\ c.life = d.life
      /\ c.ring = d.ring /\ c.token = d.token
  BY <1>c DEF ChildRecord
<1>3. children' = [children EXCEPT ![i] = c]
  BY <1>c, <1>d
<1>4. c.life = "hot" => i <= 3 /\ c.ring \in HotRings /\ Valid(c)
  <2>1. d.life = "hot" => i <= 3 /\ d.ring \in HotRings /\ Valid(d)
    BY <1>0, <1>d DEF HotWorkers
  <2> QED
    BY <1>2, <2>1 DEF Valid, acknowledge_ownership
<1>5. Becomes(i, c)
  BY <1>2, <1>3, <1>4, <1>d DEF Becomes
<1> QED
  BY <1>2, <1>5

LEMMA EscalateStep ==
  ASSUME SInd, TrackEscalate
  PROVE  SInd'
<1>0. Types /\ Slots
  BY DEF SInd
<1>l. /\ sup \in SupRecord /\ sup.lines \in Seq(Alert) /\ sup.partial \in BOOLEAN
      /\ sup.window \in {"closed", "open", "elapsed"}
  BY <1>0, LocalsFacts
<1>1. /\ idx \in Physical /\ pc = "track" /\ Going /\ UNCHANGED <<shm, pc, pipe>>
      /\ hist' = [hist EXCEPT !.escalated = TRUE]
  BY DEF TrackEscalate, Going
<1>2. PICK tr : tr = [sup.track EXCEPT ![idx] = Idle]
  OBVIOUS
<1>3. sup' = [sup EXCEPT !.track = tr, !.state = "FailoverDetected"]
  BY <1>2 DEF TrackEscalate
<1>4. /\ tr \in [Physical -> [active : BOOLEAN, due : BOOLEAN, epoch : Nat, baseline : Nat]]
      /\ \A q \in Physical : tr[q].due => tr[q].active
      /\ tr[2].active => sup.track[2].active
  BY <1>1, <1>2, Disarmed
<1>5. sup' = [sup EXCEPT !.state = "FailoverDetected", !.window = sup.window, !.lines = sup.lines,
                         !.partial = sup.partial, !.track = tr]
  BY <1>l, <1>3, LocalsSame
<1>6. Sets("FailoverDetected", sup.window, sup.lines, sup.partial, tr)
  BY <1>l, <1>4, <1>5 DEF Sets
<1>7. /\ RestOfLocals /\ sup'.state = "FailoverDetected" /\ sup'.window = sup.window
      /\ sup'.lines = sup.lines /\ sup'.track = tr
  BY <1>6, LocalsStep
<1>8. /\ hist' \in HistRecord /\ hist'.may = hist.may /\ hist'.announced = hist.announced
      /\ hist'.handover = hist.handover /\ hist'.escalated
  BY <1>0, <1>1 DEF Types, HistRecord
<1>9. PICK k \in Idx, c \in ChildRecord : Becomes(k, c)
  <2>1. PICK i : i = find_worker(children, idx)
    OBVIOUS
  <2>2. children' = IF i # NoChild THEN Killed(i) ELSE children
    BY <2>1 DEF TrackEscalate
  <2>3. CASE i # NoChild
    <3>1. i \in Idx /\ ~children[i].handled
      BY <1>0, <1>1, <2>1, <2>3, FoundWorker
    <3> QED
      BY <2>2, <2>3, <3>1, KilledChild
  <2>4. CASE i = NoChild
    BY <2>2, <2>4, NobodyChanges
  <2> QED
    BY <2>3, <2>4
<1>10. Len(children') = Len(children)
  BY <1>0, <1>9, OneEntry, Indices DEF Becomes, Types
<1>11. ShieldSame
  BY <1>1, <1>4, <1>7, <1>10, SilentNow DEF ShieldSame, shm
<1>12. Signals(k, c)
  BY <1>1, <1>4, <1>7, <1>8, <1>9, <1>11, ShieldKept DEF Signals
<1> QED
  BY <1>12, SignalStep

(* A stall is accepted only with the window closed, and never of a standby that was        *)
(* not promoted.                                                                             *)
LEMMA StalledStep ==
  ASSUME SInd, LineStalled
  PROVE  SInd'
<1>0. Types /\ Cells /\ Slots /\ Shielded /\ ExitState
  BY DEF SInd
<1>l. /\ sup \in SupRecord /\ sup.lines \in Seq(Alert) /\ sup.partial \in BOOLEAN
      /\ sup.window \in {"closed", "open", "elapsed"}
      /\ sup.track \in [Physical -> [active : BOOLEAN, due : BOOLEAN, epoch : Nat, baseline : Nat]]
  BY <1>0, LocalsFacts
<1>1. /\ pc = "lines" /\ Going /\ UNCHANGED <<shm, pc, pipe, hist>> /\ sup.lines # <<>>
      /\ Head(sup.lines).event = "worker_stalled" /\ sup.window = "closed"
      /\ sup.state \in {"Running", "StalledRecovering", "FailoverDetected"}
  BY DEF LineStalled, StallAccepted, Going
<1>2. /\ Head(sup.lines) \in Alert /\ Head(sup.lines) = sup.lines[1] /\ 1 \in 1 .. Len(sup.lines)
      /\ Tail(sup.lines) \in Seq(Alert)
  BY <1>1, <1>l, HeadTailProperties, ElementOfSeq, EmptySeq, LenProperties
<1>p. PICK p \in Physical : p = Head(sup.lines).worker
  BY <1>2 DEF Alert
<1>3. /\ ObservedRing(p) \in Rings
  BY <1>0, OwnedRing, Small DEF ObservedRing
<1>e. PICK e \in Nat : e = epoch[ObservedRing(p)]
  BY <1>0, <1>3 DEF Types
<1>b. PICK b \in Nat : b = tail[ObservedRing(p)]
  BY <1>0, <1>3 DEF Types
<1>t. PICK tr : tr = [sup.track EXCEPT ![p] = [active |-> TRUE, due |-> FALSE, epoch |-> e, baseline |-> b]]
  OBVIOUS
<1>q. PICK q : q = Tail(sup.lines)
  OBVIOUS
<1>4. sup' = [sup EXCEPT !.lines = q, !.state = "StalledRecovering", !.track = tr]
  BY <1>b, <1>e, <1>p, <1>q, <1>t DEF LineStalled
<1>5. /\ tr \in [Physical -> [active : BOOLEAN, due : BOOLEAN, epoch : Nat, baseline : Nat]]
      /\ \A k \in Physical : tr[k].due => tr[k].active
      /\ p # 2 => (tr[2].active <=> sup.track[2].active)
  <2>1. /\ tr \in [Physical -> [active : BOOLEAN, due : BOOLEAN, epoch : Nat, baseline : Nat]]
        /\ ~tr[p].due /\ \A k \in Physical : k # p => tr[k] = sup.track[k]
    BY <1>l, <1>t
  <2> QED
    BY <1>0, <2>1, Small DEF ExitState
<1>6. sup' = [sup EXCEPT !.state = "StalledRecovering", !.window = sup.window, !.lines = q,
                         !.partial = sup.partial, !.track = tr]
  BY <1>l, <1>4, LocalsSame
<1>7. Sets("StalledRecovering", sup.window, q, sup.partial, tr)
  BY <1>l, <1>2, <1>q, <1>5, <1>6 DEF Sets
<1>8. /\ RestOfLocals /\ sup'.state = "StalledRecovering" /\ sup'.window = sup.window
      /\ sup'.lines = q /\ sup'.track = tr
  BY <1>7, LocalsStep
<1>9. PICK k \in Idx, c \in ChildRecord : Becomes(k, c)
  <2>1. PICK i : i = find_worker(children, p)
    OBVIOUS
  <2>2. children' = IF i # NoChild THEN [children EXCEPT ![i].frozen = FALSE] ELSE children
    BY <1>p, <2>1 DEF LineStalled
  <2>3. CASE i # NoChild
    <3>1. i \in Idx
      BY <1>0, <2>1, <2>3, FoundWorker
    <3> QED
      BY <2>2, <2>3, <3>1, ContinuedChild
  <2>4. CASE i = NoChild
    BY <2>2, <2>4, NobodyChanges
  <2> QED
    BY <2>3, <2>4
<1>10. Len(children') = Len(children)
  BY <1>0, <1>9, OneEntry, Indices DEF Becomes, Types
<1>11. Shielded'
  <2>1. CASE Len(children) = 3
    <3>1. Silent(pipe) /\ Silent(sup.lines)
      BY <1>1, <2>1, SilentNow
    <3>2. Silent(q)
      BY <1>1, <1>l, <1>q, <3>1, SilentParts
    <3>3. p # 2
      BY <1>1, <1>2, <1>p, <3>1 DEF Silent, Alert
    <3>4. ShieldSame
      BY <1>1, <1>5, <1>8, <1>10, <3>1, <3>2, <3>3 DEF ShieldSame, shm, Going
    <3> QED
      BY <3>4, ShieldKept
  <2>2. CASE Len(children) # 3
    BY <1>1, <1>8, <1>10, <2>2 DEF Shielded
  <2> QED
    BY <2>1, <2>2
<1>12. Degraded => hist.escalated
  BY <1>0, <1>1 DEF ExitState
<1>13. Signals(k, c)
  BY <1>0, <1>1, <1>5, <1>8, <1>9, <1>11, <1>12 DEF Signals, Types
<1> QED
  BY <1>13, SignalStep

-----------------------------------------------------------------------------
(* The table after a child was reaped: given up at idx, perhaps replaced at the end.        *)
Replaced(p, forked) ==
  /\ idx \in Idx /\ children[idx].phys = p /\ ~children[idx].handled /\ ~Live(children[idx])
  /\ children' \in Seq(ChildRecord)
  /\ Len(children') = IF forked THEN Len(children) + 1 ELSE Len(children)
  /\ Idx' = 1 .. Len(children')
  /\ \A k \in Idx : /\ children'[k].phys = children[k].phys /\ children'[k].gen = children[k].gen
                    /\ children'[k].role = children[k].role /\ children'[k].life = children[k].life
                    /\ children'[k].ring = children[k].ring /\ children'[k].token = children[k].token
                    /\ k # idx => children'[k] = children[k]
  /\ children'[idx].handled /\ ~children'[idx].pid
  /\ forked => children'[Len(children) + 1] = Child(p, sup.next_generation + 1, "standby")

GivesUp(s, i, n, f, cs, t) ==
  /\ s \in Seq(ChildRecord) /\ i \in 1 .. Len(s) /\ n \in ChildRecord /\ f \in BOOLEAN
  /\ cs = [s EXCEPT ![i].pid = FALSE, ![i].handled = TRUE]
  /\ t = IF f THEN Append(cs, n) ELSE cs

LEMMA GivenUp ==
  ASSUME NEW s, NEW i, NEW n, NEW f, NEW cs, NEW t, GivesUp(s, i, n, f, cs, t)
  PROVE  /\ cs \in Seq(ChildRecord) /\ Len(cs) = Len(s) /\ DOMAIN cs = 1 .. Len(s)
         /\ t \in Seq(ChildRecord) /\ Len(t) = IF f THEN Len(s) + 1 ELSE Len(s)
         /\ DOMAIN t = 1 .. Len(t)
         /\ \A k \in 1 .. Len(s) : /\ t[k] = cs[k]
                                   /\ t[k].phys = s[k].phys /\ t[k].gen = s[k].gen
                                   /\ t[k].role = s[k].role /\ t[k].life = s[k].life
                                   /\ t[k].ring = s[k].ring /\ t[k].token = s[k].token
                                   /\ k # i => t[k] = s[k]
         /\ t[i].handled /\ ~t[i].pid /\ (f => t[Len(s) + 1] = n)
<1>0. s \in Seq(ChildRecord) /\ i \in 1 .. Len(s) /\ n \in ChildRecord /\ f \in BOOLEAN
  BY DEF GivesUp
<1>1. s \in [1 .. Len(s) -> ChildRecord] /\ Len(s) \in Nat /\ DOMAIN s = 1 .. Len(s)
  BY <1>0, LenProperties
<1>d. PICK d \in ChildRecord : d = s[i]
  BY <1>0, <1>1
<1>c. PICK c : c = [d EXCEPT !.pid = FALSE, !.handled = TRUE]
  OBVIOUS
<1>2. /\ c \in ChildRecord /\ c.phys = d.phys /\ c.gen = d.gen /\ c.role = d.role
      /\ c.life = d.life /\ c.ring = d.ring /\ c.token = d.token
      /\ c.pid = FALSE /\ c.handled = TRUE
  BY <1>c DEF ChildRecord
<1>3. cs = [s EXCEPT ![i] = c]
  BY <1>0, <1>1, <1>c, <1>d DEF GivesUp
<1>4. /\ cs \in Seq(ChildRecord) /\ Len(cs) = Len(s) /\ DOMAIN cs = 1 .. Len(s)
      /\ \A j \in 1 .. Len(s) : cs[j] = IF j = i THEN c ELSE s[j]
  <2>1. /\ [s EXCEPT ![i] = c] \in Seq(ChildRecord)
        /\ Len([s EXCEPT ![i] = c]) = Len(s)
        /\ DOMAIN [s EXCEPT ![i] = c] = DOMAIN s
        /\ \A j \in DOMAIN s : [s EXCEPT ![i] = c][j] = IF j = i THEN c ELSE s[j]
    BY <1>0, <1>2, OneEntry
  <2> QED
    BY <1>1, <1>3, <2>1
<1>5. /\ t \in Seq(ChildRecord) /\ Len(t) = IF f THEN Len(s) + 1 ELSE Len(s)
      /\ \A k \in 1 .. Len(s) : t[k] = cs[k]
      /\ f => t[Len(s) + 1] = n
  <2>1. CASE f
    <3>1. t = Append(cs, n)
      BY <2>1 DEF GivesUp
    <3>2. /\ Append(cs, n) \in Seq(ChildRecord) /\ Len(Append(cs, n)) = Len(cs) + 1
          /\ \A k \in 1 .. Len(cs) : Append(cs, n)[k] = cs[k]
          /\ Append(cs, n)[Len(cs) + 1] = n
      BY <1>0, <1>4, AppendProperties
    <3> QED
      BY <1>4, <2>1, <3>1, <3>2
  <2>2. CASE ~f
    <3>1. t = cs
      BY <2>2 DEF GivesUp
    <3> QED
      BY <1>4, <2>2, <3>1
  <2> QED
    BY <2>1, <2>2
<1>6. DOMAIN t = 1 .. Len(t)
  BY <1>1, <1>5, LenProperties
<1>7. \A k \in 1 .. Len(s) : /\ t[k] = cs[k]
                             /\ t[k].phys = s[k].phys /\ t[k].gen = s[k].gen
                             /\ t[k].role = s[k].role /\ t[k].life = s[k].life
                             /\ t[k].ring = s[k].ring /\ t[k].token = s[k].token
                             /\ k # i => t[k] = s[k]
  BY <1>2, <1>4, <1>5, <1>d
<1>8. t[i].handled /\ ~t[i].pid
  BY <1>0, <1>2, <1>4, <1>5
<1> QED
  BY <1>4, <1>5, <1>6, <1>7, <1>8

(* Who is still to be handled, when a worker's process has ended.                            *)
LEMMA EndedWorker ==
  ASSUME SInd, NEW p \in Physical, NEW i \in Idx, children[i].phys = p, ~children[i].handled,
         ~Live(children[i])
  PROVE  /\ p + 1 \in Idx /\ (p + 1 # i => children[p + 1].handled)
         /\ ~Live(children[p + 1])
         /\ i <= 3 => i = p + 1
<1>0. Types /\ Slots
  BY DEF SInd
<1>1. p + 1 \in Idx /\ p + 1 <= 3 /\ i \in Nat
  BY <1>0, Indices, Small
<1>2. children[p + 1].phys = p /\ (i <= 3 => i = p + 1)
  BY <1>0, <1>1, Small DEF Slots
<1>3. p + 1 # i => children[p + 1].handled
  BY <1>0, <1>1, <1>2 DEF Slots
<1>4. ~Live(children[p + 1])
  BY <1>0, <1>1, <1>3 DEF Slots
<1> QED
  BY <1>1, <1>2, <1>3, <1>4

(* The cells: ring p goes to the standby, or nothing moves.                                   *)
Moved(p) ==
  /\ p \in HotRings /\ owner[p].phys = p /\ ~StandbyBusy /\ ~abandoned[p]
  /\ owner' = [owner EXCEPT ![p] = [phys |-> 2, gen |-> 1]]
  /\ epoch' = [epoch EXCEPT ![p] = 4]
  /\ hist'.announced = hist.announced
  /\ hist'.handover = [hist.handover EXCEPT ![p] = tail[p]]

Stayed(p) ==
  /\ UNCHANGED <<owner, epoch>> /\ hist'.handover = hist.handover
  /\ p = 2 \/ StandbyBusy
  /\ \A r \in Rings : \/ hist'.announced[r] = hist.announced[r]
                      \/ /\ hist.announced[r] = 0 /\ hist'.announced[r] = 1
                         /\ owner[r].phys = p /\ sup'.degraded[p]
                         /\ r \in HotRings => StandbyBusy
  /\ owner[p].phys = p => sup'.degraded[p]

Recovers(p, forked) ==
  /\ Replaced(p, forked) /\ pc = "reap" /\ pc' = IF forked THEN "reap" ELSE "down"
  /\ UNCHANGED <<tail, abandoned, pipe>>
  /\ status' \in [Physical -> SUBSET {"RUNNING", "IDLE", "DEGRADED"}]
  /\ "RUNNING" \in status'[2] => "RUNNING" \in status[2]
  /\ sup' \in SupRecord
  /\ sup'.next_generation = sup.next_generation + 1 /\ sup'.detected
  /\ sup'.state = IF forked THEN sup.state ELSE "Failsafe"
  /\ sup'.records = sup.records /\ sup'.before = sup.before /\ sup'.rc = sup.rc
  /\ (sup'.prev <=> sup.prev) /\ (sup'.first_post <=> sup.first_post)
  /\ sup'.track = sup.track /\ sup'.lines = sup.lines /\ sup'.window = sup.window
  /\ \A q \in Physical : sup.degraded[q] => sup'.degraded[q]
  /\ hist' \in HistRecord /\ hist'.may = hist.may /\ (hist'.escalated <=> hist.escalated)
  /\ Moved(p) \/ Stayed(p)

LEMMA RecoverFacts ==
  ASSUME SInd, NEW p \in Physical, NEW forked \in BOOLEAN, Recovers(p, forked)
  PROVE  /\ Going /\ (Going' <=> forked) /\ sup.next_generation = Len(children) - 2
         /\ sup.next_generation \in Nat /\ sup.next_generation >= 1
         /\ sup.state # "Failsafe" /\ Len(children) \in Nat /\ Len(children) >= 3
         /\ Idx = 1 .. Len(children) /\ \A k \in Idx : k \in Idx'
         /\ \A k \in Idx' : k \in Idx \/ (forked /\ k = Len(children) + 1)
<1>0. Types /\ Slots /\ ExitState
  BY DEF SInd
<1>1. Going /\ (Going' <=> forked) /\ sup.state # "Failsafe"
  BY <1>0 DEF Recovers, Going, ExitState
<1>2. Idx = 1 .. Len(children) /\ Len(children) \in Nat /\ Len(children) >= 3
  BY <1>0, Indices
<1>3. sup.next_generation = Len(children) - 2
  BY <1>0, <1>1 DEF Slots
<1> QED
  BY <1>1, <1>2, <1>3 DEF Recovers, Replaced

LEMMA RecoverSlots ==
  ASSUME SInd, NEW p \in Physical, NEW forked \in BOOLEAN, Recovers(p, forked)
  PROVE  Cells' /\ Slots' /\ (StandbyBusy => StandbyBusy') /\ (p # 2 => StandbyBusy')
<1>0. Types /\ Slots /\ Cells
  BY DEF SInd
<1>1. /\ Replaced(p, forked)
      /\ Moved(p) \/ Stayed(p)
      /\ sup'.next_generation = sup.next_generation + 1
      /\ sup'.state = IF forked THEN sup.state ELSE "Failsafe"
  BY DEF Recovers
<1>f. /\ Going /\ (Going' <=> forked) /\ sup.next_generation = Len(children) - 2
      /\ sup.next_generation \in Nat /\ sup.next_generation >= 1
      /\ Len(children) \in Nat /\ Len(children) >= 3
      /\ Idx = 1 .. Len(children)
      /\ \A k \in Idx' : k \in Idx \/ (forked /\ k = Len(children) + 1)
  BY RecoverFacts
<1>n. PICK n : n = Len(children) + 1
  OBVIOUS
<1>c. PICK c : c = Child(p, sup.next_generation + 1, "standby")
  OBVIOUS
<1>2. /\ c.phys = p /\ c.gen = sup.next_generation + 1 /\ c.role = "standby" /\ c.life = "starting"
      /\ c.pid /\ ~c.handled
  BY <1>c DEF Child
<1>3. /\ forked => children'[n] = c /\ n \in Idx'
      /\ n \in Nat /\ n > 3 /\ n \notin Idx /\ \A k \in Idx : k \in Nat
      /\ \A k \in Idx' : k \in Idx \/ (forked /\ k = n)
  BY <1>1, <1>c, <1>f, <1>n DEF Replaced
<1>4. Cells' /\ (StandbyBusy => StandbyBusy') /\ (p # 2 => StandbyBusy')
  <2>1. CASE Moved(p)
    BY <1>0, <2>1, Small DEF Moved, Cells, StandbyBusy, Types
  <2>2. CASE Stayed(p)
    BY <1>0, <2>2 DEF Stayed, Cells, StandbyBusy
  <2> QED
    BY <1>1, <2>1, <2>2
<1>5. Slots'
  <2>1. ASSUME NEW k \in Idx'
        PROVE  /\ IF k <= 3 THEN children'[k].phys = k - 1 /\ children'[k].gen = 1
                  ELSE children'[k].gen > 1
               /\ children'[k].role = IF k <= 2 THEN "hot" ELSE "standby"
               /\ children'[k].pid <=> ~children'[k].handled
               /\ children'[k].handled => ~Live(children'[k])
    <3>1. CASE k \in Idx
      <4>1. /\ IF k <= 3 THEN children[k].phys = k - 1 /\ children[k].gen = 1
               ELSE children[k].gen > 1
            /\ children[k].role = IF k <= 2 THEN "hot" ELSE "standby"
            /\ children[k].pid <=> ~children[k].handled
            /\ children[k].handled => ~Live(children[k])
        BY <1>0, <3>1 DEF Slots
      <4>2. CASE k = idx
        BY <1>1, <3>1, <4>1, <4>2 DEF Replaced, Live
      <4>3. CASE k # idx
        BY <1>1, <3>1, <4>1, <4>3 DEF Replaced
      <4> QED
        BY <4>2, <4>3
    <3>2. CASE k = n
      BY <1>2, <1>3, <1>f, <2>1, <3>2
    <3> QED
      BY <1>3, <3>1, <3>2
  <2>2. ASSUME NEW j \in Idx', NEW k \in Idx', j # k, children'[j].phys = children'[k].phys
        PROVE  children'[j].handled \/ children'[k].handled
    <3>1. \A i \in Idx : /\ children'[i].phys = children[i].phys
                         /\ children[i].phys = p => children'[i].handled
                         /\ children[i].handled => children'[i].handled
      BY <1>0, <1>1 DEF Replaced, Slots
    <3>2. CASE j \in Idx /\ k \in Idx
      BY <1>0, <2>2, <3>1, <3>2 DEF Slots
    <3>3. CASE j = n /\ forked
      BY <1>2, <1>3, <2>2, <3>1, <3>3
    <3>4. CASE k = n /\ forked
      BY <1>2, <1>3, <2>2, <3>1, <3>4
    <3> QED
      BY <1>3, <3>2, <3>3, <3>4
  <2>3. sup'.next_generation = Len(children') - 2 \/ sup'.state = "Failsafe"
    BY <1>1, <1>f DEF Replaced
  <2>4. Going' => StandbyBusy' \/ \E i \in Idx' : children'[i].phys = 2 /\ ~children'[i].handled
    <3>1. CASE p = 2
      BY <1>2, <1>3, <1>f, <3>1
    <3>2. CASE p # 2
      BY <1>4, <3>2
    <3> QED
      BY <3>1, <3>2
  <2> QED
    BY <2>1, <2>2, <2>3, <2>4 DEF Slots
<1> QED
  BY <1>4, <1>5

LEMMA RecoverHot ==
  ASSUME SInd, NEW p \in Physical, NEW forked \in BOOLEAN, Recovers(p, forked)
  PROVE  HotWorkers'
<1>0. Types /\ Slots /\ Cells /\ HotWorkers
  BY DEF SInd
<1>1. /\ Replaced(p, forked)
      /\ Moved(p) \/ Stayed(p)
  BY DEF Recovers
<1>f. /\ Going /\ (Going' <=> forked) /\ Idx = 1 .. Len(children)
      /\ Len(children) \in Nat /\ Len(children) >= 3
      /\ \A k \in Idx' : k \in Idx \/ (forked /\ k = Len(children) + 1)
  BY RecoverFacts
<1>e. /\ p + 1 \in Idx /\ (p + 1 # idx => children[p + 1].handled) /\ ~Live(children[p + 1])
  BY <1>1, EndedWorker DEF Replaced
<1>2. forked => children'[Len(children) + 1].life = "starting"
  BY <1>1 DEF Replaced, Child
<1>3. \A k \in Idx : /\ children'[k].life = children[k].life /\ children'[k].ring = children[k].ring
                     /\ children[k].handled => children'[k].handled
  BY <1>1 DEF Replaced
<1>4. children'[p + 1].handled
  BY <1>1, <1>3, <1>e DEF Replaced
<1>5. ASSUME NEW k \in Idx', children'[k].life = "hot"
      PROVE  k <= 3 /\ children'[k].ring \in HotRings /\ Valid(children[k])'
  <2>1. k \in Idx /\ children[k].life = "hot"
    BY <1>2, <1>3, <1>5, <1>f
  <2>2. k <= 3 /\ children[k].ring \in HotRings /\ Valid(children[k])
    BY <1>0, <2>1 DEF HotWorkers
  <2>3. owner[children[k].ring].phys = k - 1 /\ k \in 1 .. 3
    BY <1>0, <2>1, HotFacts
  <2>4. CASE Moved(p)
    <3>1. k # p + 1
      BY <1>e, <2>1 DEF Live
    <3>2. children[k].ring # p
      BY <2>3, <2>4, <3>1, Small DEF Moved
    <3>3. owner'[children[k].ring] = owner[children[k].ring] /\ epoch'[children[k].ring] = epoch[children[k].ring]
      BY <1>0, <2>2, <2>4, <3>2, Small DEF Moved, Types
    <3>4. /\ children'[k].ring = children[k].ring /\ children'[k].phys = children[k].phys
          /\ children'[k].gen = children[k].gen /\ children'[k].token = children[k].token
      BY <1>1, <2>1 DEF Replaced
    <3> QED
      BY <2>2, <3>3, <3>4 DEF Valid, acknowledge_ownership
  <2>5. CASE Stayed(p)
    <3>1. /\ children'[k].ring = children[k].ring /\ children'[k].phys = children[k].phys
          /\ children'[k].gen = children[k].gen /\ children'[k].token = children[k].token
      BY <1>1, <2>1 DEF Replaced
    <3> QED
      BY <2>2, <2>5, <3>1 DEF Valid, acknowledge_ownership, Stayed
  <2> QED
    BY <1>1, <2>4, <2>5
<1>6. Going' /\ children'[3].life \in {"hot", "exited"} => StandbyBusy'
  <2>1. 3 \in Idx /\ (StandbyBusy => StandbyBusy')
    BY <1>f, RecoverSlots
  <2>2. children'[3].life = children[3].life
    BY <1>3, <2>1
  <2> QED
    BY <1>0, <1>f, <2>1, <2>2 DEF HotWorkers
<1>7. \A k \in Idx' : Going' /\ k > 3 => children'[k].life # "exited"
  BY <1>0, <1>2, <1>3, <1>f DEF HotWorkers
<1>8. ASSUME NEW r \in HotRings, owner'[r].phys = 2
      PROVE  children'[r + 1].handled
  <2>1. r + 1 \in Idx /\ r \in Rings
    BY <1>f, Small
  <2>2. CASE r = p
    BY <1>4, <2>2
  <2>3. CASE r # p
    <3>1. owner[r].phys = 2
      BY <1>0, <1>1, <1>8, <2>1, <2>3 DEF Moved, Stayed, Types
    <3> QED
      BY <1>0, <1>3, <2>1, <3>1 DEF HotWorkers
  <2> QED
    BY <2>2, <2>3
<1> QED
  BY <1>5, <1>6, <1>7, <1>8 DEF HotWorkers

LEMMA RecoverAnnounced ==
  ASSUME SInd, NEW p \in Physical, NEW forked \in BOOLEAN, Recovers(p, forked)
  PROVE  Announced'
<1>0. Types /\ Slots /\ Cells /\ Announced
  BY DEF SInd
<1>1. /\ Replaced(p, forked)
      /\ Moved(p) \/ Stayed(p)
      /\ \A q \in Physical : sup.degraded[q] => sup'.degraded[q]
      /\ hist'.announced \in [Rings -> Nat]
  BY DEF Recovers, HistRecord
<1>f. Going /\ Idx = 1 .. Len(children) /\ Len(children) \in Nat /\ Len(children) >= 3
  BY RecoverFacts
<1>e. /\ p + 1 \in Idx /\ (p + 1 # idx => children[p + 1].handled)
      /\ idx <= 3 => idx = p + 1
  BY <1>1, EndedWorker DEF Replaced
<1>3. \A k \in Idx : /\ children'[k].life = children[k].life
                     /\ children[k].handled => children'[k].handled
  BY <1>1 DEF Replaced
<1>4. children'[p + 1].handled
  BY <1>1, <1>3, <1>e DEF Replaced
<1>5. \A r \in Rings : owner[r].phys \in Physical /\ owner[r].phys + 1 \in Idx
  BY <1>0, <1>f, CellFacts, Small
<1>6. ASSUME NEW r \in Rings
      PROVE  /\ hist'.announced[r] <= 1 /\ (hist'.announced[r] > 0 => sup'.degraded[owner'[r].phys])
             /\ r \in HotRings /\ hist'.announced[r] > 0 =>
                  StandbyBusy' /\ children'[owner'[r].phys + 1].handled
  <2>1. /\ hist.announced[r] <= 1 /\ (hist.announced[r] > 0 => sup.degraded[owner[r].phys])
        /\ r \in HotRings /\ hist.announced[r] > 0 => StandbyBusy /\ children[owner[r].phys + 1].handled
    BY <1>0 DEF Announced
  <2>2. CASE Moved(p)
    <3>1. hist'.announced = hist.announced
      BY <2>2 DEF Moved
    <3>2. CASE r \in HotRings
      <4>1. ~(hist.announced[r] > 0)
        BY <2>1, <2>2, <3>2 DEF Moved
      <4> QED
        BY <2>1, <3>1, <4>1
    <3>3. CASE r \notin HotRings
      <4>1. owner'[r] = owner[r]
        BY <1>0, <2>2, <3>3 DEF Moved, Types
      <4> QED
        BY <1>1, <1>5, <2>1, <3>1, <3>3, <4>1
    <3> QED
      BY <3>2, <3>3
  <2>3. CASE Stayed(p)
    <3>1. /\ owner' = owner
          /\ \/ hist'.announced[r] = hist.announced[r]
             \/ /\ hist'.announced[r] = 1 /\ owner[r].phys = p /\ sup'.degraded[p]
                /\ r \in HotRings => StandbyBusy
      BY <2>3 DEF Stayed
    <3>2. StandbyBusy => StandbyBusy'
      BY RecoverSlots
    <3> QED
      BY <1>1, <1>3, <1>4, <1>5, <2>1, <3>1, <3>2
  <2> QED
    BY <1>1, <2>2, <2>3
<1>7. ASSUME NEW q \in Physical, children'[q + 1].life = "crashed", children'[q + 1].handled,
             owner'[q].phys = q
      PROVE  sup'.degraded[q]
  <2>1. q + 1 \in Idx /\ q \in Rings
    BY <1>f, Small
  <2>2. CASE q = p
    <3>1. CASE Moved(p)
      BY <1>0, <1>7, <2>1, <2>2, <3>1, Small DEF Moved, Types
    <3>2. CASE Stayed(p)
      BY <1>7, <2>2, <3>2 DEF Stayed
    <3> QED
      BY <1>1, <3>1, <3>2
  <2>3. CASE q # p
    <3>1. q + 1 # idx
      BY <1>e, <2>3, Small
    <3>2. children'[q + 1] = children[q + 1]
      BY <1>1, <2>1, <3>1 DEF Replaced
    <3>3. owner[q].phys = q
      BY <1>0, <1>1, <1>7, <2>1, <2>3 DEF Moved, Stayed, Types
    <3> QED
      BY <1>0, <1>1, <1>7, <1>f, <3>2, <3>3 DEF Announced
  <2> QED
    BY <2>2, <2>3
<1> QED
  BY <1>6, <1>7, Small DEF Announced

LEMMA RecoverCounts ==
  ASSUME SInd, NEW p \in Physical, NEW forked \in BOOLEAN, Recovers(p, forked)
  PROVE  Counts'
<1>0. Types /\ Slots /\ Cells /\ Counts
  BY DEF SInd
<1>1. /\ Replaced(p, forked) /\ UNCHANGED <<tail, abandoned>>
      /\ Moved(p) \/ Stayed(p)
      /\ pc = "reap" /\ pc' = IF forked THEN "reap" ELSE "down"
      /\ sup'.detected /\ sup'.records = sup.records /\ sup'.before = sup.before
      /\ (sup'.prev <=> sup.prev) /\ (sup'.first_post <=> sup.first_post)
      /\ hist'.may = hist.may
  BY DEF Recovers
<1>f. /\ Going /\ (Going' <=> forked) /\ Idx = 1 .. Len(children)
      /\ Len(children) \in Nat /\ Len(children) >= 3
  BY RecoverFacts
<1>2. /\ Len(children') = IF forked THEN Len(children) + 1 ELSE Len(children)
      /\ Len(children) > 3 => children'[4].phys = children[4].phys
      /\ Len(children) = 3 /\ forked => children'[4].phys = p
  <2>1. Len(children) > 3 => 4 \in Idx
    BY <1>f
  <2>2. Len(children) = 3 /\ forked => children'[4].phys = p
    <3>1. Len(children) = 3 => Len(children) + 1 = 4
      OBVIOUS
    <3> QED
      BY <1>1, <3>1 DEF Replaced, Child
  <2> QED
    BY <1>1, <2>1, <2>2 DEF Replaced
<1>3. Drained' = Drained
  BY <1>1 DEF Drained
<1>4. \A r \in Rings : tail'[r] <= hist'.may.claims
  BY <1>0, <1>1 DEF Counts
<1>5. ASSUME NEW r \in HotRings, abandoned'[r]
      PROVE  tail'[r] > 0 /\ children'[owner'[r].phys + 1].life = "crashed"
  <2>1. tail[r] > 0 /\ children[owner[r].phys + 1].life = "crashed"
    BY <1>0, <1>1, <1>5 DEF Counts
  <2>2. owner'[r] = owner[r]
    BY <1>0, <1>1, <1>5, Small DEF Moved, Stayed, Types
  <2>3. owner[r].phys + 1 \in Idx
    BY <1>0, <1>f, CellFacts, Small
  <2> QED
    BY <1>1, <2>1, <2>2, <2>3 DEF Replaced
<1>6. \A r \in HotRings : sup'.records[r] <= Drained'[r]
  BY <1>0, <1>1, <1>3 DEF Counts
<1>7. owner'[0].phys = 2 => hist'.handover[0] <= Drained'[0]
  <2>1. CASE Moved(p) /\ p = 0
    <3>1. hist'.handover[0] = tail[0] /\ Drained[0] = tail[0] /\ tail[0] \in Nat
      BY <1>0, <2>1, DrainedType, Small DEF Moved, Types, HistRecord
    <3> QED
      BY <1>3, <3>1
  <2>2. CASE Moved(p) /\ p # 0
    <3>1. hist'.handover[0] = hist.handover[0] /\ owner'[0] = owner[0]
      BY <1>0, <2>2, Small DEF Moved, Types, HistRecord
    <3> QED
      BY <1>0, <1>3, <3>1 DEF Counts
  <2>3. CASE Stayed(p)
    BY <1>0, <1>3, <2>3 DEF Counts, Stayed
  <2> QED
    BY <1>1, <2>1, <2>2, <2>3
<1>8. Going' => Len(children') > 3
  BY <1>2, <1>f
<1>9. Len(children') > 3 => children'[4].phys = 2 \/ owner'[children'[4].phys].phys = 2
  <2>1. CASE Len(children) > 3
    <3>1. children[4].phys = 2 \/ owner[children[4].phys].phys = 2
      BY <1>0, <2>1 DEF Counts
    <3>2. children[4].phys \in Rings
      BY <1>0, <1>f, <2>1, Indices, Small DEF ChildRecord
    <3>3. owner[children[4].phys].phys = 2 => owner'[children[4].phys].phys = 2
      <4>1. owner \in [Rings -> [phys : Physical, gen : Nat]]
        BY <1>0 DEF Types
      <4>2. owner' = owner \/ owner' = [owner EXCEPT ![p] = [phys |-> 2, gen |-> 1]]
        BY <1>1 DEF Moved, Stayed
      <4>3. \A r \in Rings : owner[r].phys = 2 => owner'[r].phys = 2
        BY ONLY <4>1, <4>2
      <4> QED
        BY <3>2, <4>3
    <3> QED
      BY <1>2, <2>1, <3>1, <3>3
  <2>2. CASE Len(children) = 3
    <3>1. ~StandbyBusy
      BY <1>0, <1>f, <2>2 DEF Counts
    <3>2. p = 2 \/ owner'[p].phys = 2
      BY <1>0, <1>1, <3>1, Small DEF Moved, Stayed, Types
    <3> QED
      BY <1>2, <2>2, <3>2
  <2>3. Len(children) > 3 \/ Len(children) = 3
    <3>1. PICK n \in Nat : n = Len(children) /\ n >= 3
      BY <1>f
    <3>2. n > 3 \/ n = 3
      BY <3>1
    <3> QED
      BY <3>1, <3>2
  <2> QED
    BY <2>1, <2>2, <2>3
<1>10. pc' = "reap" /\ ~sup'.prev => sup'.before = 0
  BY <1>0, <1>1 DEF Counts
<1>11. Going' /\ Len(children') > 3 /\ children'[4].phys = 0 =>
         (pc' = "reap" /\ ~sup'.prev) \/ sup'.before >= hist'.handover[0]
  <2> SUFFICES ASSUME Going', Len(children') > 3, children'[4].phys = 0
               PROVE  (pc' = "reap" /\ ~sup'.prev) \/ sup'.before >= hist'.handover[0]
    OBVIOUS
  <2>1. CASE Len(children) = 3
    BY <1>0, <1>1, <1>f, <2>1 DEF Counts
  <2>2. CASE Len(children) > 3
    <3>1. /\ children[4].phys = 0 /\ owner[0].phys = 2
          /\ (pc = "reap" /\ ~sup.prev) \/ sup.before >= hist.handover[0]
      BY <1>0, <1>2, <1>f, <2>2 DEF Counts
    <3>2. Stayed(p)
      BY <1>1, <3>1 DEF Moved, StandbyBusy
    <3> QED
      BY <1>1, <1>f, <3>1, <3>2 DEF Stayed
  <2>3. Len(children) > 3 \/ Len(children) = 3
    <3>1. PICK n \in Nat : n = Len(children) /\ n >= 3
      BY <1>f
    <3>2. n > 3 \/ n = 3
      BY <3>1
    <3> QED
      BY <3>1, <3>2
  <2> QED
    BY <2>1, <2>2, <2>3
<1>12. ASSUME sup'.first_post
       PROVE  /\ Len(children') > 3 /\ owner'[0].phys = 2
              /\ children'[4].phys = 0 => sup'.records[0] > hist'.handover[0]
  <2>1. /\ Len(children) > 3 /\ owner[0].phys = 2
        /\ children[4].phys = 0 => sup.records[0] > hist.handover[0]
    BY <1>0, <1>1, <1>12 DEF Counts
  <2>2. Stayed(p)
    BY <1>1, <2>1 DEF Moved, StandbyBusy
  <2> QED
    BY <1>1, <1>2, <1>f, <2>1, <2>2 DEF Stayed
<1> QED
  BY <1>1, <1>4, <1>5, <1>6, <1>7, <1>8, <1>9, <1>10, <1>11, <1>12 DEF Counts

LEMMA RecoverStep ==
  ASSUME SInd, NEW p \in Physical, NEW forked \in BOOLEAN, Recovers(p, forked)
  PROVE  SInd'
<1>0. Types /\ ExitState /\ Shielded
  BY DEF SInd
<1>f. /\ Going /\ (Going' <=> forked) /\ sup.state # "Failsafe"
      /\ Len(children) \in Nat /\ Len(children) >= 3
  BY RecoverFacts
<1>1. owner' \in [Rings -> [phys : Physical, gen : Nat]] /\ epoch' \in [Rings -> Nat]
  <2>1. CASE Moved(p)
    <3>1. [phys |-> 2, gen |-> 1] \in [phys : Physical, gen : Nat]
      BY Small
    <3> QED
      BY <1>0, <2>1, <3>1 DEF Moved, Types
  <2>2. CASE Stayed(p)
    BY <1>0, <2>2 DEF Stayed, Types
  <2> QED
    BY <2>1, <2>2 DEF Recovers
<1>2. children' \in Seq(ChildRecord) /\ Len(children') = IF forked THEN Len(children) + 1 ELSE Len(children)
  BY DEF Recovers, Replaced
<1>3. Types'
  BY <1>0, <1>1, <1>2, <1>f DEF Types, Recovers
<1>4. ExitState'
  <2>1. /\ pc' # "exit" /\ pc' \in {"reap", "down"} /\ pc = "reap" /\ sup'.rc = sup.rc
        /\ sup'.track = sup.track
        /\ sup'.state = IF forked THEN sup.state ELSE "Failsafe"
        /\ (pc' = "down" <=> ~forked)
    BY DEF Recovers
  <2> QED
    BY <1>0, <1>f, <2>1 DEF ExitState, DegradedExit
<1>5. Shielded'
  <2> SUFFICES ASSUME Going'
               PROVE  Shielded'
    BY DEF Shielded
  <2>1. sup'.track = sup.track /\ Len(children') = Len(children) + 1
    BY <1>2, <1>f DEF Recovers
  <2>2. Len(children) = 3 => ~sup.track[2].active
    BY <1>0, <1>f DEF Shielded
  <2>3. Len(children') # 3 /\ (Len(children') = 4 => Len(children) = 3)
    <3>1. PICK n \in Nat : n = Len(children) /\ n >= 3
      BY <1>f
    <3>2. PICK m : m = Len(children')
      OBVIOUS
    <3>3. m = n + 1
      BY <2>1, <3>1, <3>2
    <3>4. m # 3 /\ (m = 4 => n = 3)
      BY <3>1, <3>3
    <3> QED
      BY <3>1, <3>2, <3>4
  <2> QED
    BY <2>1, <2>2, <2>3 DEF Shielded
<1> QED
  BY <1>3, <1>4, <1>5, RecoverSlots, RecoverHot, RecoverAnnounced, RecoverCounts DEF SInd

(* The standby can be promoted exactly while it has no hot ring and is not the one that     *)
(* crashed.                                                                                   *)
LEMMA PromotableStandby ==
  ASSUME SInd, Going, NEW p \in Physical, idx \in Idx, children[idx].phys = p, ~children[idx].handled,
         NEW cs, DOMAIN cs = Idx, cs[idx].handled,
         \A k \in Idx : cs[k].phys = children[k].phys /\ (k # idx => cs[k] = children[k])
  PROVE  CanPromote(cs) <=> p # 2 /\ ~StandbyBusy
<1>0. Types /\ Slots /\ Cells
  BY DEF SInd
<1>f. PICK found : found = {i \in DOMAIN cs : cs[i].phys = 2 /\ ~cs[i].handled}
  OBVIOUS
<1>1. found = {i \in Idx : children[i].phys = 2 /\ ~children[i].handled /\ i # idx}
  BY <1>f
<1>2. find_worker(cs, 2) = IF found = {} THEN NoChild ELSE Min(found)
  BY <1>f DEF find_worker
<1>3. owned_logical_ring(2) \in {NoRing, 2} <=> ~StandbyBusy
  BY <1>0, OwnedRing, Small DEF StandbyBusy
<1>4. CASE p = 2
  <2>1. found = {}
    BY <1>0, <1>1, <1>4 DEF Slots
  <2> QED
    BY <1>2, <1>4, <2>1, Small DEF CanPromote
<1>5. CASE p # 2 /\ StandbyBusy
  BY <1>3, <1>5, Small DEF CanPromote
<1>6. CASE p # 2 /\ ~StandbyBusy
  <2>1. PICK k \in Idx : children[k].phys = 2 /\ ~children[k].handled
    BY <1>0, <1>6 DEF Slots
  <2>2. k # idx /\ children[k].pid /\ k \in Nat /\ k >= 1
    BY <1>0, <1>6, <2>1, Indices DEF Slots
  <2>3. found = {k}
    BY <1>0, <1>1, <2>1, <2>2 DEF Slots
  <2>4. find_worker(cs, 2) = k
    BY <1>2, <2>2, <2>3, MinOne
  <2>5. cs[k].pid /\ k # NoChild
    BY <2>2 DEF NoChild
  <2> QED
    BY <1>3, <1>6, <2>4, <2>5, Small DEF CanPromote
<1> QED
  BY <1>4, <1>5, <1>6

(* The locals after a crash was reaped.                                                      *)
ReapsTo(s, st, dg, z) ==
  /\ s \in SupRecord /\ dg \in [Physical -> BOOLEAN]
  /\ st \in {"Running", "StalledRecovering", "FailoverDetected", "Degraded", "Failsafe"}
  /\ z = [s EXCEPT !.crash_reaped = TRUE, !.detected = TRUE,
                   !.next_generation = s.next_generation + 1, !.state = st, !.degraded = dg]

LEMMA ReapedLocals ==
  ASSUME NEW s, NEW st, NEW dg, NEW z, ReapsTo(s, st, dg, z)
  PROVE  /\ z \in SupRecord /\ z.next_generation = s.next_generation + 1 /\ z.detected
         /\ z.state = st /\ z.degraded = dg /\ z.records = s.records /\ z.before = s.before
         /\ z.rc = s.rc /\ (z.prev <=> s.prev) /\ (z.first_post <=> s.first_post)
         /\ z.track = s.track /\ z.lines = s.lines /\ z.window = s.window
<1> USE DEF ReapsTo
<1>1. s.next_generation + 1 \in Nat \ {0}
  BY DEF SupRecord
<1>2. z \in SupRecord
  BY <1>1 DEF SupRecord
<1> QED
  BY <1>2 DEF SupRecord

LEMMA ReapedWritten ==
  ASSUME NEW s \in SupRecord, NEW st, NEW p \in Physical
  PROVE  /\ [s EXCEPT !.crash_reaped = TRUE, !.detected = TRUE,
                      !.next_generation = s.next_generation + 1, !.state = st]
            = [s EXCEPT !.crash_reaped = TRUE, !.detected = TRUE,
                        !.next_generation = s.next_generation + 1, !.state = st, !.degraded = s.degraded]
         /\ [[s EXCEPT !.crash_reaped = TRUE, !.detected = TRUE,
                       !.next_generation = s.next_generation + 1, !.state = st] EXCEPT !.degraded[p] = TRUE]
            = [s EXCEPT !.crash_reaped = TRUE, !.detected = TRUE,
                        !.next_generation = s.next_generation + 1, !.state = st,
                        !.degraded = [s.degraded EXCEPT ![p] = TRUE]]
BY DEF SupRecord

(* recover_worker_crash, through every branch of it.                                          *)
LEMMA ReapCrashStep ==
  ASSUME SInd, NEW forked \in BOOLEAN, ReapCrash(forked)
  PROVE  SInd'
<1>0. Types /\ Slots /\ Cells /\ Announced /\ ExitState
  BY DEF SInd
<1>1. /\ pc = "reap" /\ Going /\ idx \in Idx /\ ~children[idx].handled
      /\ children[idx].life = "crashed" /\ UNCHANGED pipe
  BY DEF ReapCrash, Crashed, Asked, Going
<1>p. PICK p \in Physical : p = children[idx].phys
  BY <1>0, <1>1, Indices DEF ChildRecord
<1>r. PICK r : r = owned_logical_ring(p)
  OBVIOUS
<1>c. PICK cs : cs = [children EXCEPT ![idx].pid = FALSE, ![idx].handled = TRUE]
  OBVIOUS
<1>d. PICK st : st = IF forked THEN sup.state ELSE "Failsafe"
  OBVIOUS
<1>e. PICK reaped : reaped = [sup EXCEPT !.crash_reaped = TRUE, !.detected = TRUE,
                                         !.next_generation = sup.next_generation + 1, !.state = st]
  OBVIOUS
<1>2. find_worker(children, p) = idx
  BY <1>0, <1>1, <1>p, FindWorker
<1>3. /\ r # NoRing => ~abandoned[r]
      /\ \/ r = NoRing /\ sup' = reaped /\ UNCHANGED <<shm, hist>>
         \/ r # NoRing /\ CanPromote(cs) /\ transfer_ownership(r) /\ sup' = reaped
         \/ /\ r # NoRing /\ ~CanPromote(cs) /\ ~AlreadyDegraded(p)
            /\ Degrade(p, r) /\ sup' = [reaped EXCEPT !.degraded[p] = TRUE]
         \/ /\ r # NoRing /\ ~CanPromote(cs) /\ AlreadyDegraded(p)
            /\ sup' = reaped /\ UNCHANGED <<shm, hist>>
      /\ Relaunch(cs, p, forked)
  BY <1>2, <1>c, <1>d, <1>e, <1>p, <1>r DEF ReapCrash
<1>n. PICK n : n = Child(p, sup.next_generation + 1, "standby")
  OBVIOUS
<1>4. n \in ChildRecord
  <2>1. sup.next_generation + 1 \in Nat
    BY <1>0 DEF Types, SupRecord
  <2> QED
    BY <1>n, <2>1 DEF Child, ChildRecord, Lives
<1>5. /\ children' = IF forked THEN Append(cs, n) ELSE cs
      /\ pc' = IF forked THEN "reap" ELSE "down"
  BY <1>3, <1>n DEF Relaunch
<1>6. /\ Replaced(p, forked) /\ DOMAIN cs = Idx /\ cs[idx].handled
      /\ \A k \in Idx : cs[k].phys = children[k].phys /\ (k # idx => cs[k] = children[k])
  <2>t. PICK t : t = children'
    OBVIOUS
  <2>s. PICK s \in Seq(ChildRecord) : s = children
    BY <1>0 DEF Types
  <2>1. Idx = 1 .. Len(s) /\ idx \in 1 .. Len(s) /\ Idx' = DOMAIN t
    BY <1>0, <1>1, <2>s, <2>t, Indices DEF Idx
  <2>2. cs = [s EXCEPT ![idx].pid = FALSE, ![idx].handled = TRUE] /\ t = IF forked THEN Append(cs, n) ELSE cs
    BY <1>5, <1>c, <2>s, <2>t
  <2>3. /\ cs \in Seq(ChildRecord) /\ Len(cs) = Len(s) /\ DOMAIN cs = 1 .. Len(s)
        /\ t \in Seq(ChildRecord) /\ Len(t) = IF forked THEN Len(s) + 1 ELSE Len(s)
        /\ DOMAIN t = 1 .. Len(t)
        /\ \A k \in 1 .. Len(s) : /\ t[k] = cs[k]
                                  /\ t[k].phys = s[k].phys /\ t[k].gen = s[k].gen
                                  /\ t[k].role = s[k].role /\ t[k].life = s[k].life
                                  /\ t[k].ring = s[k].ring /\ t[k].token = s[k].token
                                  /\ k # idx => t[k] = s[k]
        /\ t[idx].handled /\ ~t[idx].pid /\ (forked => t[Len(s) + 1] = n)
    <3>1. GivesUp(s, idx, n, forked, cs, t)
      BY <1>4, <2>1, <2>2, <2>s DEF GivesUp
    <3> QED
      BY <3>1, GivenUp
  <2>4. Replaced(p, forked)
    BY <1>1, <1>n, <1>p, <2>1, <2>3, <2>s, <2>t DEF Replaced, Live
  <2> QED
    BY <2>1, <2>3, <2>4, <2>s
<1>7. CanPromote(cs) <=> p # 2 /\ ~StandbyBusy
  BY <1>1, <1>6, <1>p, PromotableStandby
<1>8. /\ r = NoRing => p # 2 /\ StandbyBusy /\ owner[p].phys # p
      /\ r # NoRing => r \in Rings /\ owner[r].phys = p /\ (p # 2 => r = p) /\ (r \in HotRings /\ p = 2 => StandbyBusy)
  BY <1>0, <1>r, OwnedRing, CellFacts, Small DEF StandbyBusy
<1>9. st \in {"Running", "StalledRecovering", "FailoverDetected", "Degraded", "Failsafe"}
  BY <1>0, <1>d, LocalsFacts
<1>10. PICK dg \in [Physical -> BOOLEAN] :
         /\ \A q \in Physical : sup.degraded[q] => dg[q]
         /\ \/ dg = sup.degraded /\ ~(r # NoRing /\ ~CanPromote(cs) /\ ~AlreadyDegraded(p))
            \/ dg = [sup.degraded EXCEPT ![p] = TRUE] /\ r # NoRing /\ ~CanPromote(cs) /\ ~AlreadyDegraded(p)
         /\ sup' = [sup EXCEPT !.crash_reaped = TRUE, !.detected = TRUE,
                               !.next_generation = sup.next_generation + 1, !.state = st, !.degraded = dg]
  <2>1. sup \in SupRecord /\ sup.degraded \in [Physical -> BOOLEAN]
    BY <1>0 DEF Types, SupRecord
  <2>2. CASE r # NoRing /\ ~CanPromote(cs) /\ ~AlreadyDegraded(p)
    <3>1. sup' = [reaped EXCEPT !.degraded[p] = TRUE]
      BY <1>3, <2>2
    <3>2. PICK dg : dg = [sup.degraded EXCEPT ![p] = TRUE]
      OBVIOUS
    <3>3. sup' = [sup EXCEPT !.crash_reaped = TRUE, !.detected = TRUE,
                             !.next_generation = sup.next_generation + 1, !.state = st, !.degraded = dg]
      BY <1>e, <2>1, <3>1, <3>2, ReapedWritten
    <3>4. dg \in [Physical -> BOOLEAN] /\ \A q \in Physical : sup.degraded[q] => dg[q]
      BY <2>1, <3>2
    <3> QED
      BY <2>2, <3>2, <3>3, <3>4
  <2>3. CASE ~(r # NoRing /\ ~CanPromote(cs) /\ ~AlreadyDegraded(p))
    <3>1. sup' = reaped
      BY <1>3, <2>3
    <3>2. sup' = [sup EXCEPT !.crash_reaped = TRUE, !.detected = TRUE,
                             !.next_generation = sup.next_generation + 1, !.state = st,
                             !.degraded = sup.degraded]
      BY <1>e, <2>1, <3>1, ReapedWritten
    <3> QED
      BY <2>1, <2>3, <3>2
  <2> QED
    BY <2>2, <2>3
<1>11. /\ sup' \in SupRecord /\ sup'.next_generation = sup.next_generation + 1 /\ sup'.detected
       /\ sup'.state = st /\ sup'.degraded = dg /\ sup'.records = sup.records /\ sup'.before = sup.before
       /\ sup'.rc = sup.rc /\ (sup'.prev <=> sup.prev) /\ (sup'.first_post <=> sup.first_post)
       /\ sup'.track = sup.track /\ sup'.lines = sup.lines /\ sup'.window = sup.window
  <2>s. PICK s \in SupRecord : s = sup
    BY <1>0 DEF Types
  <2>z. PICK z : z = sup'
    OBVIOUS
  <2>1. z = [s EXCEPT !.crash_reaped = TRUE, !.detected = TRUE,
                      !.next_generation = s.next_generation + 1, !.state = st, !.degraded = dg]
    BY <1>10, <2>s, <2>z
  <2>2. /\ z \in SupRecord /\ z.next_generation = s.next_generation + 1 /\ z.detected
        /\ z.state = st /\ z.degraded = dg /\ z.records = s.records /\ z.before = s.before
        /\ z.rc = s.rc /\ (z.prev <=> s.prev) /\ (z.first_post <=> s.first_post)
        /\ z.track = s.track /\ z.lines = s.lines /\ z.window = s.window
    <3>1. ReapsTo(s, st, dg, z)
      BY <1>9, <1>10, <2>1, <2>s DEF ReapsTo
    <3> QED
      BY <3>1, ReapedLocals
  <2> QED
    BY <2>2, <2>s, <2>z
<1>12. /\ Moved(p) \/ Stayed(p)
       /\ UNCHANGED <<tail, abandoned>>
       /\ status' \in [Physical -> SUBSET {"RUNNING", "IDLE", "DEGRADED"}]
       /\ "RUNNING" \in status'[2] => "RUNNING" \in status[2]
       /\ hist' \in HistRecord /\ hist'.may = hist.may /\ (hist'.escalated <=> hist.escalated)
  <2>h. PICK h \in HistRecord : h = hist
    BY <1>0 DEF Types
  <2>0. h.announced \in [Rings -> Nat] /\ h.handover \in [Rings -> Nat]
    BY <2>h DEF HistRecord
  <2>1. CASE r = NoRing /\ UNCHANGED <<shm, hist>>
    <3>1. Stayed(p)
      BY <1>8, <2>1 DEF Stayed, shm
    <3> QED
      BY <1>0, <2>1, <3>1 DEF Types, shm
  <2>2. CASE r # NoRing /\ CanPromote(cs) /\ transfer_ownership(r)
    <3>1. r = p /\ p # 2 /\ p \in HotRings /\ ~StandbyBusy /\ ~abandoned[p] /\ owner[p].phys = p
      BY <1>3, <1>7, <1>8, <2>2, Small
    <3>2. /\ owner' = [owner EXCEPT ![p] = [phys |-> 2, gen |-> 1]]
          /\ epoch' = [epoch EXCEPT ![p] = @ + 2]
          /\ hist' = [hist EXCEPT !.handover[p] = tail[p]]
          /\ UNCHANGED <<status, tail, abandoned>>
      BY <2>2, <3>1, Small DEF transfer_ownership
    <3>3. epoch' = [epoch EXCEPT ![p] = 4]
      <4>1. epoch[p] = 2
        BY <1>0, <3>1, CellFacts
      <4> QED
        BY <3>2, <4>1
    <3>4. tail[p] \in Nat /\ p \in Rings
      BY <1>0, <3>1, Small DEF Types
    <3>k. PICK ho : ho = [h.handover EXCEPT ![p] = tail[p]]
      OBVIOUS
    <3>5. ho \in [Rings -> Nat] /\ hist' = [h EXCEPT !.handover = ho]
      BY <2>0, <2>h, <3>2, <3>4, <3>k
    <3>6. /\ hist' \in HistRecord /\ hist'.may = h.may /\ hist'.escalated = h.escalated
          /\ hist'.announced = h.announced /\ hist'.handover = ho
      BY <3>5, <2>h DEF HistRecord
    <3>7. Moved(p)
      BY <2>h, <3>1, <3>2, <3>3, <3>6, <3>k DEF Moved
    <3> QED
      BY <1>0, <2>h, <3>2, <3>6, <3>7 DEF Types
  <2>3. CASE /\ r # NoRing /\ ~CanPromote(cs) /\ ~AlreadyDegraded(p) /\ Degrade(p, r)
    <3>1. /\ status' = [status EXCEPT ![p] = status[p] \union {"DEGRADED"}]
          /\ hist' = [hist EXCEPT !.announced[r] = @ + 1]
          /\ UNCHANGED <<owner, epoch, tail, abandoned>>
      BY <2>3 DEF Degrade
    <3>2. r \in Rings /\ owner[r].phys = p
      BY <1>8, <2>3
    <3>3. p = 2 \/ StandbyBusy
      BY <1>7, <2>3
    <3>4. r \in HotRings => StandbyBusy
      BY <1>8, <2>3, <3>3
    <3>5. dg[p]
      <4>1. sup.degraded \in [Physical -> BOOLEAN]
        BY <1>0 DEF Types, SupRecord
      <4> QED
        BY <1>10, <2>3, <4>1
    <3>6. hist.announced[r] = 0
      <4>1. ~(hist.announced[r] > 0)
        BY <1>0, <2>3, <3>2 DEF Announced, AlreadyDegraded
      <4>2. hist.announced[r] \in Nat
        BY <2>0, <2>h, <3>2
      <4> QED
        BY <4>1, <4>2
    <3>k. PICK an : an = [h.announced EXCEPT ![r] = 1]
      OBVIOUS
    <3>7. an \in [Rings -> Nat] /\ hist' = [h EXCEPT !.announced = an]
      <4>1. h.announced[r] + 1 = 1
        BY <2>h, <3>6
      <4>2. an = [h.announced EXCEPT ![r] = h.announced[r] + 1]
        BY <3>k, <4>1
      <4>3. an \in [Rings -> Nat]
        BY <2>0, <3>2, <3>k
      <4> QED
        BY <2>h, <3>1, <4>2, <4>3
    <3>8. /\ hist' \in HistRecord /\ hist'.may = h.may /\ hist'.escalated = h.escalated
          /\ hist'.announced = an /\ hist'.handover = h.handover
      BY <3>7, <2>h DEF HistRecord
    <3>9. \A x \in Rings : \/ hist'.announced[x] = hist.announced[x]
                           \/ /\ hist.announced[x] = 0 /\ hist'.announced[x] = 1
                              /\ owner[x].phys = p /\ sup'.degraded[p]
                              /\ x \in HotRings => StandbyBusy
      BY <1>11, <2>0, <2>h, <3>2, <3>4, <3>5, <3>6, <3>8, <3>k
    <3>10. Stayed(p)
      BY <1>11, <2>h, <3>1, <3>3, <3>5, <3>8, <3>9 DEF Stayed
    <3>11. /\ status' \in [Physical -> SUBSET {"RUNNING", "IDLE", "DEGRADED"}]
           /\ "RUNNING" \in status'[2] => "RUNNING" \in status[2]
      BY <1>0, <3>1, Small DEF Types
    <3> QED
      BY <2>h, <3>1, <3>8, <3>10, <3>11
  <2>4. CASE /\ r # NoRing /\ ~CanPromote(cs) /\ AlreadyDegraded(p) /\ UNCHANGED <<shm, hist>>
    <3>1. dg[p] /\ (p = 2 \/ StandbyBusy)
      BY <1>7, <1>10, <2>4 DEF AlreadyDegraded
    <3>2. Stayed(p)
      BY <1>11, <2>4, <3>1 DEF Stayed, shm
    <3> QED
      BY <1>0, <2>4, <3>2 DEF Types, shm
  <2> QED
    BY <1>3, <2>1, <2>2, <2>3, <2>4
<1>13. Recovers(p, forked)
  BY <1>1, <1>5, <1>6, <1>10, <1>11, <1>12, <1>d DEF Recovers
<1> QED
  BY <1>13, RecoverStep

-----------------------------------------------------------------------------
(* A child given up without a replacement: it exited, or its ring did not verify.             *)
Dropped(p) ==
  /\ Replaced(p, FALSE) /\ UNCHANGED <<owner, epoch>>
  /\ sup'.next_generation = sup.next_generation
  /\ sup.state = "Failsafe" => sup'.state = "Failsafe"
  /\ sup'.next_generation = Len(children) - 2 \/ sup'.state = "Failsafe"
  /\ sup'.degraded = sup.degraded /\ hist'.announced = hist.announced
  /\ Going /\ (Going' => children[idx].life = "exited")

LEMMA DroppedTable ==
  ASSUME SInd, NEW p \in Physical, Dropped(p)
  PROVE  /\ Cells' /\ Slots' /\ HotWorkers' /\ Announced'
         /\ children' \in Seq(ChildRecord) /\ Len(children') = Len(children)
         /\ Len(children) > 3 => children'[4].phys = children[4].phys
         /\ \A r \in HotRings : children[owner[r].phys + 1].life = "crashed" =>
                                  children'[owner[r].phys + 1].life = "crashed"
<1> USE DEF Dropped
<1>0. Types /\ Slots /\ Cells /\ HotWorkers /\ Announced
  BY DEF SInd
<1>1. /\ idx \in Idx /\ children[idx].phys = p /\ ~children[idx].handled /\ ~Live(children[idx])
      /\ children' \in Seq(ChildRecord) /\ Len(children') = Len(children)
      /\ Idx' = 1 .. Len(children')
      /\ \A k \in Idx : /\ children'[k].phys = children[k].phys /\ children'[k].gen = children[k].gen
                        /\ children'[k].role = children[k].role /\ children'[k].life = children[k].life
                        /\ children'[k].ring = children[k].ring /\ children'[k].token = children[k].token
                        /\ k # idx => children'[k] = children[k]
      /\ children'[idx].handled /\ ~children'[idx].pid
  BY DEF Replaced
<1>2. /\ Idx' = Idx /\ Idx = 1 .. Len(children) /\ 1 \in Idx /\ 2 \in Idx /\ 3 \in Idx
      /\ \A k \in Idx : k \in Nat
  BY <1>0, <1>1, Indices
<1>3. Cells' /\ (StandbyBusy' <=> StandbyBusy)
  BY <1>0 DEF Cells, StandbyBusy
<1>e. /\ p + 1 \in Idx /\ (p + 1 # idx => children[p + 1].handled)
      /\ idx <= 3 => idx = p + 1
  BY <1>1, EndedWorker
<1>4. \A k \in Idx : children[k].handled => children'[k].handled
  BY <1>1
<1>5. Slots'
  <2>1. \A k \in Idx : /\ IF k <= 3 THEN children'[k].phys = k - 1 /\ children'[k].gen = 1
                          ELSE children'[k].gen > 1
                       /\ children'[k].role = IF k <= 2 THEN "hot" ELSE "standby"
    BY <1>0, <1>1 DEF Slots
  <2>2. \A k \in Idx : /\ children'[k].pid <=> ~children'[k].handled
                       /\ children'[k].handled => ~Live(children'[k])
    BY <1>0, <1>1 DEF Slots, Live
  <2>3. \A j, k \in Idx : j # k /\ children'[j].phys = children'[k].phys
                            => children'[j].handled \/ children'[k].handled
    BY <1>0, <1>1, <1>4 DEF Slots
  <2>4. sup'.next_generation = Len(children') - 2 \/ sup'.state = "Failsafe"
    BY <1>1
  <2>5. ASSUME Going'
        PROVE  StandbyBusy \/ \E k \in Idx : children'[k].phys = 2 /\ ~children'[k].handled
    <3>1. CASE p = 2
      <4>1. idx <= 3
        BY <1>0, <1>1, <1>2, <2>5 DEF HotWorkers
      <4>2. idx = 3
        BY <1>e, <3>1, <4>1
      <4> QED
        BY <1>0, <2>5, <4>2 DEF HotWorkers
    <3>2. CASE p # 2
      <4>1. StandbyBusy \/ \E k \in Idx : children[k].phys = 2 /\ ~children[k].handled
        BY <1>0 DEF Slots
      <4> QED
        BY <1>1, <3>2, <4>1
    <3> QED
      BY <3>1, <3>2
  <2> QED
    BY <1>2, <1>3, <2>1, <2>2, <2>3, <2>4, <2>5 DEF Slots
<1>6. HotWorkers'
  <2>1. ASSUME NEW k \in Idx, children'[k].life = "hot"
        PROVE  k <= 3 /\ children'[k].ring \in HotRings /\ Valid(children[k])'
    BY <1>0, <1>1, <2>1 DEF HotWorkers, Valid, acknowledge_ownership
  <2>2. /\ Going' /\ children'[3].life \in {"hot", "exited"} => StandbyBusy
        /\ \A k \in Idx : Going' /\ k > 3 => children'[k].life # "exited"
    BY <1>0, <1>1, <1>2 DEF HotWorkers
  <2>3. \A r \in HotRings : owner[r].phys = 2 => children'[r + 1].handled
    BY <1>0, <1>2, <1>4, Small DEF HotWorkers
  <2> QED
    BY <1>2, <1>3, <2>1, <2>2, <2>3 DEF HotWorkers
<1>7. \A r \in Rings : owner[r].phys \in Physical /\ owner[r].phys + 1 \in Idx
  BY <1>0, <1>2, CellFacts, Small
<1>8. Announced'
  <2>1. \A r \in Rings : hist'.announced[r] <= 1 /\
                         (hist'.announced[r] > 0 => sup'.degraded[owner'[r].phys])
    BY <1>0 DEF Announced
  <2>2. \A r \in HotRings : hist'.announced[r] > 0 => StandbyBusy' /\ children'[owner'[r].phys + 1].handled
    BY <1>0, <1>3, <1>4, <1>7, Small DEF Announced
  <2>3. ASSUME Going', NEW q \in Physical, children'[q + 1].life = "crashed", children'[q + 1].handled,
               owner'[q].phys = q
        PROVE  sup'.degraded[q]
    <3>1. q + 1 \in Idx
      BY <1>2, Small
    <3>2. q + 1 # idx
      BY <1>1, <2>3, <3>1
    <3> QED
      BY <1>0, <1>1, <2>3, <3>1, <3>2 DEF Announced
  <2> QED
    BY <2>1, <2>2, <2>3 DEF Announced
<1>9. Len(children) > 3 => children'[4].phys = children[4].phys
  <2>1. Len(children) > 3 => 4 \in Idx
    BY <1>0, Indices
  <2> QED
    BY <1>1, <2>1
<1>10. \A r \in HotRings : children[owner[r].phys + 1].life = "crashed" =>
                             children'[owner[r].phys + 1].life = "crashed"
  BY <1>1, <1>7, Small
<1> QED
  BY <1>1, <1>3, <1>5, <1>6, <1>8, <1>9, <1>10

(* Its place in the table.                                                                      *)
LEMMA DroppedChild ==
  ASSUME SInd, idx \in Idx, ~children[idx].handled, ~Live(children[idx]), NEW p, p = children[idx].phys,
         children' = [children EXCEPT ![idx].pid = FALSE, ![idx].handled = TRUE]
  PROVE  Replaced(p, FALSE)
<1>0. Types
  BY DEF SInd
<1>s. PICK s \in Seq(ChildRecord) : s = children
  BY <1>0 DEF Types
<1>t. PICK t : t = children'
  OBVIOUS
<1>1. Idx = 1 .. Len(s) /\ idx \in 1 .. Len(s) /\ Idx' = DOMAIN t /\ s[idx] \in ChildRecord
  BY <1>0, <1>s, <1>t, Indices DEF Idx
<1>2. GivesUp(s, idx, s[idx], FALSE, t, t)
  BY <1>1, <1>s, <1>t DEF GivesUp
<1>3. /\ t \in Seq(ChildRecord) /\ Len(t) = Len(s)
      /\ DOMAIN t = 1 .. Len(t)
      /\ \A k \in 1 .. Len(s) : /\ t[k].phys = s[k].phys /\ t[k].gen = s[k].gen
                                /\ t[k].role = s[k].role /\ t[k].life = s[k].life
                                /\ t[k].ring = s[k].ring /\ t[k].token = s[k].token
                                /\ k # idx => t[k] = s[k]
      /\ t[idx].handled /\ ~t[idx].pid
  <2>f. PICK f : f = FALSE
    OBVIOUS
  <2>c. PICK cs : cs = t
    OBVIOUS
  <2>n. PICK n : n = s[idx]
    OBVIOUS
  <2>1. GivesUp(s, idx, n, f, cs, t)
    BY <1>2, <2>f, <2>c, <2>n
  <2>2. /\ t \in Seq(ChildRecord) /\ Len(t) = IF f THEN Len(s) + 1 ELSE Len(s)
        /\ DOMAIN t = 1 .. Len(t)
        /\ \A k \in 1 .. Len(s) : /\ t[k].phys = s[k].phys /\ t[k].gen = s[k].gen
                                  /\ t[k].role = s[k].role /\ t[k].life = s[k].life
                                  /\ t[k].ring = s[k].ring /\ t[k].token = s[k].token
                                  /\ k # idx => t[k] = s[k]
        /\ t[idx].handled /\ ~t[idx].pid
    BY <2>1, GivenUp
  <2> QED
    BY <2>f, <2>2
<1>4. \A k \in Idx : /\ children'[k].phys = children[k].phys /\ children'[k].gen = children[k].gen
                     /\ children'[k].role = children[k].role /\ children'[k].life = children[k].life
                     /\ children'[k].ring = children[k].ring /\ children'[k].token = children[k].token
                     /\ k # idx => children'[k] = children[k]
  BY <1>1, <1>3, <1>s, <1>t
<1>5. /\ children' \in Seq(ChildRecord) /\ Len(children') = Len(children)
      /\ Idx' = 1 .. Len(children') /\ children'[idx].handled /\ ~children'[idx].pid
  BY <1>1, <1>3, <1>s, <1>t
<1> QED
  BY <1>4, <1>5, Zenon DEF Replaced

LEMMA ReapExitStep ==
  ASSUME SInd, ReapExit
  PROVE  SInd'
<1>0. Types /\ Slots /\ ExitState
  BY DEF SInd
<1>1. /\ pc = "reap" /\ Going /\ Going' /\ idx \in Idx /\ ~children[idx].handled
      /\ children[idx].life = "exited" /\ UNCHANGED <<shm, pc, sup, pipe, hist>>
      /\ children' = [children EXCEPT ![idx].pid = FALSE, ![idx].handled = TRUE]
  BY DEF ReapExit, Asked, Going
<1>p. PICK p \in Physical : p = children[idx].phys
  BY <1>0, <1>1, Indices DEF ChildRecord
<1>2. Replaced(p, FALSE)
  BY <1>1, <1>p, DroppedChild DEF Live
<1>3. Dropped(p)
  BY <1>0, <1>1, <1>2 DEF Dropped, Slots, shm
<1>4. /\ Cells' /\ Slots' /\ HotWorkers' /\ Announced'
      /\ children' \in Seq(ChildRecord) /\ Len(children') = Len(children)
      /\ Len(children) > 3 => children'[4].phys = children[4].phys
      /\ \A r \in HotRings : children[owner[r].phys + 1].life = "crashed" =>
                               children'[owner[r].phys + 1].life = "crashed"
  BY <1>3, DroppedTable
<1>5. Types'
  BY <1>0, <1>1, <1>4 DEF Types, shm
<1>6. ExitState'
  BY <1>1, ExitKept
<1>7. Counts'
  <2>1. CountsSame
    BY <1>1, <1>4 DEF CountsSame, shm
  <2> QED
    BY <2>1, CountsKept
<1>8. Shielded'
  <2>1. ShieldSame
    BY <1>1, <1>4, SilentNow DEF ShieldSame, shm
  <2> QED
    BY <2>1, ShieldKept
<1> QED
  BY <1>4, <1>5, <1>6, <1>7, <1>8 DEF SInd

(* The record counts when the loop has ended.                                                    *)
LEMMA CountsEnd ==
  ASSUME SInd, ~Going', pc' # "reap", UNCHANGED <<owner, tail, abandoned, hist>>,
         Len(children') = Len(children),
         Len(children) > 3 => children'[4].phys = children[4].phys,
         \A r \in HotRings : children[owner[r].phys + 1].life = "crashed" =>
                               children'[owner[r].phys + 1].life = "crashed",
         sup'.records = sup.records, sup'.before = sup.before, sup.detected => sup'.detected,
         sup'.prev <=> sup.prev, sup'.first_post <=> sup.first_post
  PROVE  Counts'
<1>0. Counts /\ Drained' = Drained
  BY DEF SInd, Drained
<1>1. /\ \A r \in Rings : tail'[r] <= hist'.may.claims
      /\ \A r \in HotRings :
           abandoned'[r] => tail'[r] > 0 /\ children'[owner'[r].phys + 1].life = "crashed"
      /\ \A r \in HotRings : sup'.records[r] <= Drained'[r]
      /\ owner'[0].phys = 2 => hist'.handover[0] <= Drained'[0]
  BY <1>0 DEF Counts
<1>2. /\ ~sup'.detected => sup'.before = 0
      /\ sup'.prev => sup'.detected
      /\ Len(children') > 3 => /\ sup'.detected
                               /\ children'[4].phys = 2 \/ owner'[children'[4].phys].phys = 2
  BY <1>0 DEF Counts
<1>3. sup'.first_post => /\ Len(children') > 3 /\ owner'[0].phys = 2
                         /\ children'[4].phys = 0 => sup'.records[0] > hist'.handover[0]
  BY <1>0 DEF Counts
<1> QED
  BY <1>1, <1>2, <1>3 DEF Counts

LEMMA ReapUnverifiedStep ==
  ASSUME SInd, ReapUnverified
  PROVE  SInd'
<1>0. Types /\ Slots /\ ExitState
  BY DEF SInd
<1>1. /\ pc = "reap" /\ pc' = "down" /\ Going /\ ~Going' /\ idx \in Idx /\ ~children[idx].handled
      /\ children[idx].life = "crashed" /\ UNCHANGED <<shm, pipe, hist>>
      /\ sup' = [sup EXCEPT !.crash_reaped = TRUE, !.detected = TRUE, !.state = "Failsafe"]
  BY DEF ReapUnverified, Crashed, Asked, Going
<1>p. PICK p \in Physical : p = children[idx].phys
  BY <1>0, <1>1, Indices DEF ChildRecord
<1>2. children' = [children EXCEPT ![idx].pid = FALSE, ![idx].handled = TRUE]
  <2>1. find_worker(children, p) = idx
    BY <1>0, <1>1, <1>p, FindWorker
  <2> QED
    BY <1>p, <2>1 DEF ReapUnverified
<1>s. PICK s \in SupRecord : s = sup
  BY <1>0 DEF Types
<1>z. PICK z : z = sup'
  OBVIOUS
<1>3. /\ z \in SupRecord /\ z.next_generation = s.next_generation /\ z.degraded = s.degraded
      /\ z.records = s.records /\ z.before = s.before /\ z.rc = s.rc /\ z.state = "Failsafe"
      /\ z.track = s.track /\ z.detected = TRUE /\ z.prev = s.prev /\ z.first_post = s.first_post
  BY <1>1, <1>s, <1>z DEF SupRecord
<1>4. /\ sup' \in SupRecord /\ sup'.next_generation = sup.next_generation
      /\ sup'.degraded = sup.degraded /\ sup'.records = sup.records /\ sup'.before = sup.before
      /\ sup'.rc = sup.rc /\ sup'.state = "Failsafe" /\ sup'.track = sup.track /\ sup'.detected
      /\ (sup'.prev <=> sup.prev) /\ (sup'.first_post <=> sup.first_post)
  BY <1>3, <1>s, <1>z
<1>5. Replaced(p, FALSE)
  BY <1>1, <1>2, <1>p, DroppedChild DEF Live
<1>6. Dropped(p)
  BY <1>1, <1>4, <1>5 DEF Dropped, shm
<1>7. /\ Cells' /\ Slots' /\ HotWorkers' /\ Announced'
      /\ children' \in Seq(ChildRecord) /\ Len(children') = Len(children)
      /\ Len(children) > 3 => children'[4].phys = children[4].phys
      /\ \A r \in HotRings : children[owner[r].phys + 1].life = "crashed" =>
                               children'[owner[r].phys + 1].life = "crashed"
  BY <1>6, DroppedTable
<1>8. Types'
  BY <1>0, <1>1, <1>4, <1>7 DEF Types, shm
<1>9. ExitState'
  BY <1>0, <1>1, <1>4 DEF ExitState, DegradedExit
<1>10. Counts'
  BY <1>1, <1>4, <1>7, CountsEnd DEF shm
<1>11. Shielded'
  BY <1>1 DEF Shielded
<1> QED
  BY <1>7, <1>8, <1>9, <1>10, <1>11 DEF SInd

(* The end: every child that is left ends too, and the exit code is chosen.                       *)
LEMMA ShutdownStep ==
  ASSUME SInd, Shutdown
  PROVE  SInd'
<1>0. Types /\ Cells /\ Slots /\ HotWorkers /\ Announced /\ ExitState
  BY DEF SInd
<1>1. /\ pc = "down" /\ pc' = "exit" /\ ~Going' /\ UNCHANGED <<shm, pipe, hist>>
      /\ sup' = [sup EXCEPT !.rc = IF sup.state \in {"Degraded", "Failsafe"} THEN 4
                                   ELSE IF sup.partial THEN 3 ELSE 0]
  BY DEF Shutdown, Going
<1>2. /\ Idx = 1 .. Len(children) /\ Len(children) \in Nat /\ Len(children) >= 3
      /\ \A i \in Idx : children[i] \in ChildRecord
      /\ 1 \in Idx /\ 2 \in Idx /\ 3 \in Idx
  BY <1>0, Indices
<1>3. \A i \in Idx :
        LET e == IF children[i].pid /\ Live(children[i])
                 THEN [children[i] EXCEPT !.life = "exited", !.frozen = FALSE] ELSE children[i]
        IN /\ e \in ChildRecord /\ e.phys = children[i].phys /\ e.gen = children[i].gen
           /\ e.role = children[i].role /\ (e.pid <=> children[i].pid)
           /\ (e.handled <=> children[i].handled)
           /\ ~Live(children[i]) => e = children[i]
           /\ Live(children[i]) => e.life = "exited"
  <2> SUFFICES ASSUME NEW i \in Idx, NEW e,
                      e = IF children[i].pid /\ Live(children[i])
                          THEN [children[i] EXCEPT !.life = "exited", !.frozen = FALSE] ELSE children[i]
               PROVE  /\ e \in ChildRecord /\ e.phys = children[i].phys /\ e.gen = children[i].gen
                      /\ e.role = children[i].role /\ (e.pid <=> children[i].pid)
                      /\ (e.handled <=> children[i].handled)
                      /\ ~Live(children[i]) => e = children[i]
                      /\ Live(children[i]) => e.life = "exited"
    OBVIOUS
  <2>1. Live(children[i]) => children[i].pid
    BY <1>0 DEF Slots
  <2>2. CASE ~Live(children[i])
    BY <1>2, <2>2
  <2>3. CASE Live(children[i])
    <3>1. PICK d \in ChildRecord : d = children[i]
      BY <1>2
    <3>2. e = [d EXCEPT !.life = "exited", !.frozen = FALSE]
      BY <2>1, <2>3, <3>1
    <3>3. /\ e \in ChildRecord /\ e.phys = d.phys /\ e.gen = d.gen /\ e.role = d.role
          /\ e.life = "exited"
      BY <3>2 DEF ChildRecord, Lives
    <3>4. e.pid = d.pid /\ e.handled = d.handled
      BY <3>2 DEF ChildRecord
    <3> QED
      BY <2>3, <3>1, <3>3, <3>4
  <2> QED
    BY <2>2, <2>3
<1>4. /\ DOMAIN children' = Idx
      /\ \A i \in Idx : /\ children'[i] \in ChildRecord /\ children'[i].phys = children[i].phys
                        /\ children'[i].gen = children[i].gen /\ children'[i].role = children[i].role
                        /\ (children'[i].pid <=> children[i].pid)
                        /\ (children'[i].handled <=> children[i].handled)
                        /\ ~Live(children[i]) => children'[i] = children[i]
                        /\ Live(children[i]) => children'[i].life = "exited"
  BY <1>3 DEF Shutdown
<1>5. children' \in Seq(ChildRecord) /\ Len(children') = Len(children) /\ Idx' = Idx
  <2>1. PICK n \in Nat : n = Len(children)
    BY <1>2
  <2>2. children' \in [1 .. n -> ChildRecord]
    BY <1>2, <1>4, <2>1 DEF Shutdown
  <2>3. children' \in Seq(ChildRecord)
    BY <2>2
  <2>4. Len(children') = n
    BY <2>2, <2>3
  <2> QED
    BY <1>4, <2>1, <2>3, <2>4 DEF Idx
<1>6. \A i \in Idx : ~Live(children'[i])
  BY <1>4 DEF Live
<1>7. Cells' /\ (StandbyBusy' <=> StandbyBusy)
  BY <1>0, <1>1 DEF Cells, StandbyBusy, shm
<1>s. PICK s \in SupRecord : s = sup
  BY <1>0 DEF Types
<1>z. PICK z : z = sup'
  OBVIOUS
<1>c. PICK rc \in {0, 3, 4} : rc = IF sup.state \in {"Degraded", "Failsafe"} THEN 4
                                   ELSE IF sup.partial THEN 3 ELSE 0
  OBVIOUS
<1>8. /\ z \in SupRecord /\ z.next_generation = s.next_generation /\ z.degraded = s.degraded
      /\ z.records = s.records /\ z.before = s.before /\ z.rc = rc /\ z.state = s.state
      /\ z.track = s.track /\ z.detected = s.detected /\ z.prev = s.prev /\ z.first_post = s.first_post
  <2>1. z = [s EXCEPT !.rc = rc]
    BY <1>1, <1>c, <1>s, <1>z
  <2> QED
    BY <1>c, <1>s, <2>1 DEF SupRecord
<1>9. /\ sup' \in SupRecord /\ sup'.next_generation = sup.next_generation
      /\ sup'.degraded = sup.degraded /\ sup'.records = sup.records /\ sup'.before = sup.before
      /\ sup'.rc = rc /\ sup'.state = sup.state /\ sup'.track = sup.track
      /\ (sup'.detected <=> sup.detected)
      /\ (sup'.prev <=> sup.prev) /\ (sup'.first_post <=> sup.first_post)
  BY <1>8, <1>s, <1>z
<1>10. Slots'
  <2>1. \A i \in Idx : /\ IF i <= 3 THEN children'[i].phys = i - 1 /\ children'[i].gen = 1
                          ELSE children'[i].gen > 1
                       /\ children'[i].role = IF i <= 2 THEN "hot" ELSE "standby"
                       /\ children'[i].pid <=> ~children'[i].handled
                       /\ children'[i].handled => ~Live(children'[i])
    BY <1>0, <1>4, <1>6 DEF Slots
  <2>2. \A i, j \in Idx : i # j /\ children'[i].phys = children'[j].phys
                            => children'[i].handled \/ children'[j].handled
    BY <1>0, <1>4 DEF Slots
  <2>3. sup'.next_generation = Len(children') - 2 \/ sup'.state = "Failsafe"
    BY <1>0, <1>5, <1>9 DEF Slots
  <2> QED
    BY <1>1, <1>5, <2>1, <2>2, <2>3 DEF Slots
<1>11. HotWorkers'
  <2>1. \A i \in Idx : children'[i].life # "hot"
    BY <1>6 DEF Live
  <2>2. \A r \in HotRings : owner'[r].phys = 2 => children'[r + 1].handled
    BY <1>0, <1>1, <1>2, <1>4, Small DEF HotWorkers, shm
  <2> QED
    BY <1>1, <1>5, <2>1, <2>2 DEF HotWorkers
<1>12. \A r \in Rings : owner[r].phys \in Physical /\ owner[r].phys + 1 \in Idx
  BY <1>0, <1>2, CellFacts, Small
<1>13. Announced'
  <2>1. \A r \in Rings : hist'.announced[r] <= 1 /\
                         (hist'.announced[r] > 0 => sup'.degraded[owner'[r].phys])
    BY <1>0, <1>1, <1>9 DEF Announced, shm
  <2>2. \A r \in HotRings : hist'.announced[r] > 0 => StandbyBusy' /\ children'[owner'[r].phys + 1].handled
    BY <1>0, <1>1, <1>4, <1>7, <1>12, Small DEF Announced, shm
  <2> QED
    BY <1>1, <2>1, <2>2 DEF Announced
<1>14. Types'
  BY <1>0, <1>1, <1>5, <1>9 DEF Types, shm
<1>15. ExitState'
  <2>1. Degraded' <=> Degraded
    BY <1>9 DEF Degraded
  <2>2. DegradedExit'
    BY <1>0, <1>1, <1>9, <1>c, <2>1 DEF DegradedExit, ExitState
  <2>3. \A p \in Physical : sup'.track[p].due => sup'.track[p].active
    BY <1>0, <1>9 DEF ExitState
  <2>4. sup'.rc # -1
    BY <1>9
  <2> QED
    BY <1>1, <2>2, <2>3, <2>4 DEF ExitState
<1>16. Counts'
  <2>1. Len(children) > 3 => children'[4].phys = children[4].phys
    BY <1>2, <1>4
  <2>2. \A r \in HotRings : children[owner[r].phys + 1].life = "crashed" =>
                              children'[owner[r].phys + 1].life = "crashed"
    BY <1>4, <1>12, Small DEF Live
  <2> QED
    BY <1>1, <1>5, <1>9, <2>1, <2>2, CountsEnd DEF shm
<1>17. Shielded'
  BY <1>1 DEF Shielded
<1> QED
  BY <1>7, <1>10, <1>11, <1>13, <1>14, <1>15, <1>16, <1>17 DEF SInd

-----------------------------------------------------------------------------
(* The first state.                                                                              *)
LEMMA FirstTable ==
  ASSUME Init
  PROVE  /\ children \in Seq(ChildRecord) /\ Len(children) = 3 /\ Idx = {1, 2, 3}
         /\ children[1] = Child(0, 1, "hot") /\ children[2] = Child(1, 1, "hot")
         /\ children[3] = Child(2, 1, "standby")
<1>1. /\ Child(0, 1, "hot") \in ChildRecord /\ Child(1, 1, "hot") \in ChildRecord
      /\ Child(2, 1, "standby") \in ChildRecord
  BY Small DEF Child, ChildRecord, Lives
<1>2. children = <<Child(0, 1, "hot"), Child(1, 1, "hot"), Child(2, 1, "standby")>>
  BY DEF Init
<1>3. children \in Seq(ChildRecord) /\ Len(children) = 3
  BY <1>1, <1>2
<1>4. Idx = {1, 2, 3}
  BY <1>2 DEF Idx
<1> QED
  BY <1>2, <1>3, <1>4

LEMMA FirstTypes ==
  ASSUME Init
  PROVE  Types
<1>1. /\ owner \in [Rings -> [phys : Physical, gen : Nat]]
      /\ epoch \in [Rings -> Nat] /\ tail \in [Rings -> Nat]
      /\ abandoned \in [Rings -> BOOLEAN]
      /\ status \in [Physical -> SUBSET {"RUNNING", "IDLE", "DEGRADED"}]
      /\ pc \in {"top", "reap", "track", "lines", "down", "exit"}
  BY Small DEF Init
<1>2. pipe \in Seq(Alert)
  BY DEF Init
<1>3. sup \in SupRecord
  <2>1. <<>> \in Seq(Alert)
    OBVIOUS
  <2>2. PICK tr : tr = [p \in Physical |-> [active |-> FALSE, due |-> FALSE, epoch |-> 0, baseline |-> 0]]
    OBVIOUS
  <2>3. tr \in [Physical -> [active : BOOLEAN, due : BOOLEAN, epoch : Nat, baseline : Nat]]
    BY <2>2
  <2>4. PICK dg \in [Physical -> BOOLEAN] : dg = [p \in Physical |-> FALSE]
    OBVIOUS
  <2>a. [r \in HotRings |-> 0] \in [HotRings -> Int]
    OBVIOUS
  <2>5. PICK re \in [HotRings -> Int] : re = [r \in HotRings |-> 0]
    BY <2>a
  <2>6. PICK li \in Seq(Alert) : li = <<>>
    BY <2>1
  <2>7. sup = [state |-> "Running", next_generation |-> 1, degraded |-> dg,
               crash_reaped |-> FALSE, detected |-> FALSE, prev |-> FALSE, window |-> "closed",
               records |-> re, before |-> 0, first_post |-> FALSE, track |-> tr,
               lines |-> li, partial |-> FALSE, rc |-> -1]
    BY <2>2, <2>4, <2>5, <2>6 DEF Init
  <2> QED
    BY <2>3, <2>7 DEF SupRecord
<1>4. hist \in HistRecord
  <2>1. PICK m \in Scenarios :
          hist = [may |-> m, escalated |-> FALSE, announced |-> [r \in Rings |-> 0],
                  handover |-> [r \in Rings |-> 0], crashes |-> 0, stops |-> 0,
                  alerts |-> [p \in Physical |-> 0]]
    BY DEF Init
  <2>2. PICK a \in [Rings -> Nat], n \in [Physical -> Nat] :
          a = [r \in Rings |-> 0] /\ n = [p \in Physical |-> 0]
    OBVIOUS
  <2>3. hist = [may |-> m, escalated |-> FALSE, announced |-> a, handover |-> a,
                crashes |-> 0, stops |-> 0, alerts |-> n]
    BY <2>1, <2>2
  <2> QED
    BY <2>3 DEF HistRecord
<1>5. Len(children) >= 3
  <2>1. PICK n : n = Len(children)
    OBVIOUS
  <2>2. n = 3
    BY <2>1, FirstTable
  <2> QED
    BY <2>1, <2>2
<1> QED
  BY <1>1, <1>2, <1>3, <1>4, <1>5, FirstTable DEF Types

LEMMA SInit ==
  ASSUME Init
  PROVE  SInd
<1>0. Types
  BY FirstTypes
<1>1. /\ Len(children) = 3 /\ Idx = {1, 2, 3}
      /\ children[1] = Child(0, 1, "hot") /\ children[2] = Child(1, 1, "hot")
      /\ children[3] = Child(2, 1, "standby")
  BY FirstTable
<1>2. /\ pc = "top" /\ Going /\ pipe = <<>> /\ status = [p \in Physical |-> {}]
      /\ owner = [r \in Rings |-> [phys |-> r, gen |-> 1]] /\ epoch = [r \in Rings |-> 2]
      /\ tail = [r \in Rings |-> 0] /\ abandoned = [r \in Rings |-> FALSE]
  BY DEF Init, Going
<1>3. /\ sup.state = "Running" /\ sup.next_generation = 1 /\ sup.rc = -1
      /\ ~sup.detected /\ ~sup.prev /\ ~sup.first_post /\ sup.before = 0 /\ sup.lines = <<>>
      /\ sup.degraded = [p \in Physical |-> FALSE] /\ sup.records = [r \in HotRings |-> 0]
      /\ sup.track = [p \in Physical |-> [active |-> FALSE, due |-> FALSE, epoch |-> 0, baseline |-> 0]]
  BY DEF Init
<1>4. /\ hist.announced = [r \in Rings |-> 0] /\ hist.may \in Scenarios
  BY DEF Init
<1>5. \A i \in Idx : /\ children[i].phys = i - 1 /\ children[i].gen = 1
                     /\ children[i].life = "starting" /\ children[i].pid /\ ~children[i].handled
                     /\ children[i].role = IF i <= 2 THEN "hot" ELSE "standby"
  BY <1>1 DEF Child
<1>6. Cells /\ ~StandbyBusy
  BY <1>2, Small DEF Cells, StandbyBusy
<1>7. Slots
  <2>1. \A i \in Idx : i <= 3
    BY <1>1
  <2>2. \A i, j \in Idx : i # j => children[i].phys # children[j].phys
    BY <1>1, <1>5
  <2>3. 3 \in Idx /\ children[3].phys = 2 /\ ~children[3].handled
    BY <1>1, <1>5
  <2>4. sup.next_generation = Len(children) - 2
    BY <1>1, <1>3
  <2> QED
    BY <1>5, <2>1, <2>2, <2>3, <2>4 DEF Slots
<1>8. HotWorkers
  BY <1>1, <1>2, <1>5, Small DEF HotWorkers
<1>9. Announced
  <2>1. \A r \in Rings : hist.announced[r] = 0
    BY <1>4
  <2>2. \A p \in Physical : children[p + 1].life # "crashed"
    BY <1>1, <1>5, Small
  <2> QED
    BY <2>1, <2>2, Small DEF Announced
<1>10. ExitState
  <2>1. ~Degraded /\ \A p \in Physical : ~sup.track[p].due
    BY <1>3 DEF Degraded
  <2> QED
    BY <1>2, <1>3, <2>1 DEF ExitState, DegradedExit
<1>11. Counts
  <2>1. hist.may.claims \in Nat
    BY <1>4, ScenariosAssumption
  <2>2. \A r \in HotRings : Drained[r] = 0 /\ sup.records[r] = 0 /\ ~abandoned[r]
    BY <1>2, <1>3, Small DEF Drained
  <2>3. \A r \in Rings : tail[r] <= hist.may.claims
    BY <1>2, <2>1
  <2>4. owner[0].phys # 2
    BY <1>2, Small
  <2>5. ~(Len(children) > 3)
    <3>1. PICK n : n = Len(children)
      OBVIOUS
    <3>2. n = 3
      BY <1>1, <3>1
    <3> QED
      BY <3>1, <3>2
  <2>6. \A r \in HotRings : sup.records[r] <= Drained[r]
    BY <2>2
  <2>7. /\ ~StandbyBusy /\ ~sup.detected /\ ~sup.prev /\ ~sup.first_post
        /\ sup.before = 0 /\ pc # "reap"
    BY <1>2, <1>3, <1>6
  <2>8. \A r \in HotRings : ~abandoned[r]
    BY <2>2
  <2> QED
    BY ONLY <2>3, <2>4, <2>5, <2>6, <2>7, <2>8, Zenon DEF Counts
<1>12. Shielded
  <2>1. "RUNNING" \notin status[2] /\ ~sup.track[2].active
    BY <1>2, <1>3, Small
  <2>2. Len(pipe) = 0 /\ Len(sup.lines) = 0
    BY <1>2, <1>3
  <2> QED
    BY <1>1, <2>1, <2>2 DEF Shielded
<1> QED
  BY <1>0, <1>6, <1>7, <1>8, <1>9, <1>10, <1>11, <1>12 DEF SInd

LEMMA SStep ==
  ASSUME SInd, [Next]_vars
  PROVE  SInd'
<1>1. ASSUME NEW i \in Idx, Worker(i) \/ Faults(i)
      PROVE  SInd'
  BY <1>1, StartStep, PromoteStep, TickStep, FinishStep, CrashStep, FreezeStep DEF Worker, Faults
<1>2. CASE Alerts \/ Timers
  BY <1>2, AlertsStep, TimersStep
<1>3. CASE Supervise
  <2>1. CASE Loop \/ LoopEnds \/ Account \/ Shutdown
    BY <2>1, LoopStep, MovesStep, AccountStep, ShutdownStep
  <2>2. CASE Reap
    BY <2>2, MovesStep, ReapExitStep, ReapUnverifiedStep, ReapCrashStep DEF Reap
  <2>3. CASE Track
    BY <2>3, MovesStep, RecoveredStep, EscalateStep DEF Track
  <2>4. CASE Poll
    BY <2>4, MovesStep, StalledStep, LinesStep DEF Poll
  <2> QED
    BY <1>3, <2>1, <2>2, <2>3, <2>4 DEF Supervise
<1>4. CASE Exited \/ UNCHANGED vars
  BY <1>4, MovesStep
<1> QED
  BY <1>1, <1>2, <1>3, <1>4 DEF Next

(* The invariant of the supervisor and its workers: the cells, the table of children, the      *)
(* announcements, the record counts and the shield of the promoted worker stay in step, for    *)
(* any number of crashes, stops, alerts, failed forks and restarts.                             *)
THEOREM SupervisorInvariant == Spec => []SInd
BY SInit, SStep, PTL DEF Spec

(* Ownership of the hot rings (recover_worker_crash, run_hot): one live producer per ring,       *)
(* whose token stays valid until it ends, and the standby gets at most one of them.              *)
THEOREM SupervisorRings == Spec => []RingsOwned
<1>1. ASSUME SInd
      PROVE  RingsOwned
  <2>0. Types /\ Cells /\ Slots /\ HotWorkers /\ Announced /\ ExitState /\ Counts
    BY <1>1 DEF SInd
  <2>1. STypeOK
    <3>1. hist.may.claims \in Nat
      BY <2>0, ScenariosAssumption DEF Types, HistRecord
    <3>2. tail \in [Rings -> 0 .. hist.may.claims]
      <4>1. \A r \in Rings : tail[r] \in 0 .. hist.may.claims
        BY <2>0, <3>1 DEF Types, Counts
      <4> QED
        BY <2>0, <4>1 DEF Types
    <3>3. SupOK
      <4>1. \A r \in HotRings : sup.records[r] <= tail[r]
        <5>1. \A r \in HotRings : sup.records[r] \in Int /\ tail[r] \in Nat /\ Drained[r] \in Int
          BY <2>0, DrainedType, Small DEF Types, SupRecord
        <5>2. \A r \in HotRings : Drained[r] <= tail[r]
          BY <2>0, <5>1, DrainedType
        <5> QED
          BY <2>0, <5>1, <5>2 DEF Counts
      <4>2. /\ sup.state \in {"Running", "StalledRecovering", "FailoverDetected", "Degraded", "Failsafe"}
            /\ sup.window \in {"closed", "open", "elapsed"} /\ sup.rc \in {-1, 0, 3, 4}
        BY <2>0 DEF Types, SupRecord
      <4> QED
        BY <2>0, <4>1, <4>2 DEF SupOK, Slots, ExitState
    <3>4. \A i \in Idx : /\ children[i].handled => ~children[i].pid
                         /\ ~children[i].pid => ~Live(children[i])
      BY <2>0 DEF Slots
    <3>5. \A i, j \in Idx : (i # j /\ children[i].phys = children[j].phys)
                              => children[i].handled \/ children[j].handled
      BY <2>0 DEF Slots
    <3> QED
      BY <2>0, <3>2, <3>3, <3>4, <3>5 DEF STypeOK, Types
  <2>2. OneHotPerRing
    BY <2>0, HotFacts DEF OneHotPerRing, Hot
  <2>3. LiveTokensValid
    BY <2>0 DEF LiveTokensValid, HotWorkers
  <2>4. StandbyOneRing
    <3>1. PICK S : S = {r \in HotRings : owner[r].phys = kStandbyPhysical}
      OBVIOUS
    <3>2. S = {} \/ \E r \in HotRings : S = {r}
      BY <2>0, <3>1, Small DEF Cells
    <3>3. Cardinality(S) = 0 \/ Cardinality(S) = 1
      BY <3>2, FS_EmptySet, FS_Singleton
    <3>4. Cardinality(S) <= 1
      <4>1. PICK n : n = Cardinality(S)
        OBVIOUS
      <4> QED
        BY <3>3, <4>1
    <3> QED
      BY <3>1, <3>4 DEF StandbyOneRing
  <2> QED
    BY <2>1, <2>2, <2>3, <2>4 DEF RingsOwned
<1> QED
  BY <1>1, SupervisorInvariant, PTL

(* A ring announced DEGRADED has no producer again, is announced once, and decides the exit       *)
(* code of the supervisor unless the last iteration escalated a stall.                            *)
THEOREM SupervisorDegraded == Spec => []DegradedKept
<1>1. ASSUME SInd
      PROVE  DegradedKept
  <2>0. Types /\ Cells /\ Slots /\ HotWorkers /\ Announced /\ ExitState
    BY <1>1 DEF SInd
  <2>1. ASSUME NEW r \in HotRings, hist.announced[r] > 0, NEW i \in Idx, Hot(children[i], r)
        PROVE  FALSE
    <3>1. owner[r].phys + 1 = i /\ children[i].life = "hot"
      <4>1. children[i].life = "hot" /\ children[i].ring = r
        BY <2>1 DEF Hot
      <4>2. i \in 1 .. 3 /\ owner[r].phys = i - 1
        BY <2>0, <4>1, HotFacts
      <4> QED
        BY <4>1, <4>2
    <3>2. children[i].handled
      BY <2>0, <2>1, <3>1 DEF Announced
    <3> QED
      BY <2>0, <3>1, <3>2 DEF Slots, Live
  <2> QED
    BY <2>0, <2>1 DEF DegradedKept, DegradedTerminal, AnnounceOnce, Announced, ExitState
<1> QED
  BY <1>1, SupervisorInvariant, PTL

(* Between iterations, a hot ring that nobody will serve has been announced: some slot is          *)
(* DEGRADED, or the supervisor is in failsafe.                                                     *)
THEOREM SupervisorNeverSilent == Spec => []NeverSilentlyDown
<1>1. ASSUME SInd
      PROVE  NeverSilentlyDown
  <2>0. Types /\ Cells /\ Slots /\ Announced
    BY <1>1 DEF SInd
  <2> SUFFICES ASSUME pc = "top", NEW r \in HotRings
               PROVE  Served(r) \/ Degraded
    BY DEF NeverSilentlyDown
  <2>1. PICK p \in Physical : owner[r] = [phys |-> p, gen |-> 1] /\ owner[p].phys = p
    <3>1. CASE owner[r] = [phys |-> r, gen |-> 1]
      BY <3>1, Small
    <3>2. CASE owner[r] = [phys |-> 2, gen |-> 1]
      BY <2>0, <3>2, CellFacts, Small
    <3> QED
      BY <2>0, <3>1, <3>2 DEF Cells
  <2>2. p + 1 \in Idx /\ p + 1 <= 3 /\ children[p + 1] \in ChildRecord
    BY <2>0, Indices, Small
  <2>3. acknowledge_ownership(children[p + 1], r)
    <3>1. children[p + 1].phys = p /\ children[p + 1].gen = 1
      BY <2>0, <2>2, Small DEF Slots
    <3> QED
      BY <2>1, <3>1 DEF acknowledge_ownership
  <2>4. CASE children[p + 1].life = "crashed" /\ children[p + 1].handled
    BY <2>0, <2>1, <2>4 DEF Announced, Degraded, Going
  <2>5. CASE children[p + 1].life # "crashed" \/ ~children[p + 1].handled
    <3>1. children[p + 1].life \in {"starting", "standby", "hot", "exited"} \/ ~children[p + 1].handled
      BY <2>2, <2>5 DEF ChildRecord, Lives
    <3> QED
      BY <2>2, <2>3, <3>1 DEF Served
  <2> QED
    BY <2>4, <2>5
<1> QED
  BY <1>1, SupervisorInvariant, PTL

(* The first post-failover record was committed after ring 0 was handed over, unless the first     *)
(* crash of all was the standby's.                                                                  *)
THEOREM SupervisorFirstPost == Spec => []FirstPostGenuine
<1>1. ASSUME SInd
      PROVE  FirstPostGenuine
  <2>0. Types /\ Cells /\ Counts
    BY <1>1 DEF SInd
  <2> SUFFICES ASSUME sup.first_post, children[4].phys # kStandbyPhysical
               PROVE  sup.records[0] > hist.handover[0]
    BY DEF FirstPostGenuine
  <2>1. Len(children) > 3 /\ owner[0].phys = 2
    BY <2>0 DEF Counts
  <2>2. 4 \in Idx /\ children[4].phys \in Physical
    BY <2>0, <2>1, Indices DEF ChildRecord
  <2>3. owner[children[4].phys].phys = 2
    BY <2>0, <2>1, Small DEF Counts
  <2>4. children[4].phys = 0
    BY <2>0, <2>1, <2>2, <2>3, Small DEF Cells
  <2> QED
    BY <2>0, <2>4 DEF Counts
<1> QED
  BY <1>1, SupervisorInvariant, PTL

(* The worker promoted in the only failover so far, with nothing committed yet, is not escalated    *)
(* while its handoff window is open.                                                                 *)
THEOREM SupervisorPromoted == Spec => []PromotedSpared
<1>1. ASSUME SInd
      PROVE  PromotedSpared
  <2>0. Types /\ Cells /\ Slots /\ HotWorkers /\ ExitState /\ Shielded
    BY <1>1 DEF SInd
  <2> SUFFICES ASSUME NEW p \in Physical, NEW i \in Idx, Escalating(p), i = find_worker(children, p),
                      Len(children) = 4, children[i].life = "hot", children[i].token > 2
               PROVE  sup.window = "closed"
    BY DEF PromotedSpared
  <2>1. /\ i \in 1 .. 3 /\ children[i].ring \in HotRings
        /\ owner[children[i].ring].phys = children[i].phys /\ children[i].phys = i - 1
        /\ children[i].token = epoch[children[i].ring]
    BY <2>0, HotFacts
  <2>2. children[i].phys = 2
    BY <2>0, <2>1, CellFacts
  <2>3. p = 2
    BY <2>0, <2>1, <2>2, FoundWorker DEF NoChild
  <2>4. pc = "track" /\ sup.track[2].due
    BY <2>3 DEF Escalating
  <2>5. Going /\ sup.track[2].active
    BY <2>0, <2>4, Small DEF ExitState, Going
  <2> QED
    BY <2>0, <2>5 DEF Shielded
<1> QED
  BY <1>1, SupervisorInvariant, PTL
=============================================================================
