-------------------------- MODULE RingBufferProofs --------------------------
(***************************************************************************)
(* The safety of LockFreeRingBuffer for every slot count >= 2 and every set *)
(* of producers and consumers, from the inductive invariant IInv; and what  *)
(* IInv gives the ring's users: sound refusals, an exact verify_consistent,  *)
(* exact corruption counting, and the refinement of the bounded FIFO queue.  *)
(***************************************************************************)
EXTENDS RingBuffer, FiniteSetTheorems, TLAPS

-----------------------------------------------------------------------------
(* Arithmetic of `pos & kMask`.                                            *)

(* Quotient and remainder of a position by the slot count.                 *)
LEMMA DivMod ==
  ASSUME NEW n \in Nat, n >= 2, NEW p \in Int
  PROVE  /\ p \div n \in Int
         /\ p % n \in 0 .. n - 1
         /\ p = n * (p \div n) + (p % n)
<1>1. p \div n \in Int /\ p % n \in 0 .. n - 1
  OBVIOUS
<1>2. p = n * (p \div n) + (p % n)
  BY Z3
<1> QED
  BY <1>1, <1>2

(* Multiples of n are at least n apart.                                    *)
LEMMA MultiplesApart ==
  ASSUME NEW n \in Nat, n >= 2, NEW j \in Int, NEW k \in Int, j < k
  PROVE  n * j + n <= n * k
<1>1. n * k = n * j + n * (k - j)
  OBVIOUS
<1>2. k - j >= 1
  OBVIOUS
<1>3. \A d \in Int : d >= 1 => n * d >= n
  OBVIOUS
<1> QED
  BY <1>1, <1>2, <1>3

(* A remainder is determined by any decomposition of the number.           *)
LEMMA RemainderUnique ==
  ASSUME NEW n \in Nat, n >= 2, NEW p \in Int, NEW k \in Int, NEW r \in 0 .. n - 1,
         p = n * k + r
  PROVE  p % n = r
<1>1. ~ (p \div n < k)
  BY DivMod, MultiplesApart
<1>2. ~ (k < p \div n)
  BY DivMod, MultiplesApart
<1> QED
  BY <1>1, <1>2, DivMod

(* Every position has a slot.                                              *)
LEMMA SlotType ==
  ASSUME NEW p \in Nat
  PROVE  Slot(p) \in Slots
BY SlotCountAssumption DEF Slot, Slots

(* A position and the same position one lap later share a slot.            *)
LEMMA SlotNextLap ==
  ASSUME NEW p \in Nat
  PROVE  Slot(p + SlotCount) = Slot(p)
<1> DEFINE n == SlotCount
           k == p \div n
<1>1. k \in Int /\ p % n \in 0 .. n - 1 /\ p = n * k + (p % n)
  BY DivMod, SlotCountAssumption
<1>2. n * (k + 1) = n * k + n
  BY <1>1, SlotCountAssumption
<1> HIDE DEF k
<1>3. p + n = n * (k + 1) + (p % n) /\ k + 1 \in Int /\ p + n \in Nat
  BY <1>1, <1>2, SlotCountAssumption
<1>4. (p + n) % n = p % n
  <2>1. p + n \in Int /\ n \in Nat /\ n >= 2
    BY SlotCountAssumption
  <2> QED
    BY <1>1, <1>3, <2>1, RemainderUnique
<1> QED
  BY <1>4 DEF Slot

(* Two different positions of one slot are at least a lap apart.           *)
LEMMA SlotApart ==
  ASSUME NEW p \in Nat, NEW q \in Nat, Slot(p) = Slot(q), p < q
  PROVE  p + SlotCount <= q
<1> DEFINE n == SlotCount
           j == p \div n
           k == q \div n
<1>1. j \in Int /\ p % n \in 0 .. n - 1 /\ p = n * j + (p % n)
  BY DivMod, SlotCountAssumption
<1>2. k \in Int /\ q % n \in 0 .. n - 1 /\ q = n * k + (q % n)
  BY DivMod, SlotCountAssumption
<1>3. p % n = q % n
  BY DEF Slot
<1> HIDE DEF j, k
<1>4. j < k
  <2>1. ~ (k < j)
    BY <1>1, <1>2, <1>3, MultiplesApart, SlotCountAssumption
  <2>2. j # k
    BY <1>1, <1>2, <1>3
  <2> QED
    BY <2>1, <2>2, <1>1, <1>2
<1> QED
  BY <1>1, <1>2, <1>3, <1>4, MultiplesApart, SlotCountAssumption

(* Slots meet a window of SlotCount positions at most once.                *)
LEMMA SlotDistinct ==
  ASSUME NEW p \in Nat, NEW q \in Nat, p # q, p < q + SlotCount, q < p + SlotCount
  PROVE  Slot(p) # Slot(q)
BY SlotApart, SlotCountAssumption

-----------------------------------------------------------------------------
(* The initial states satisfy the invariant.                               *)
LEMMA InitInv == Init => IInv
<1> SUFFICES ASSUME Init PROVE IInv
  OBVIOUS
<1> USE SlotCountAssumption
<1>1. TypeOK
  BY ItemsAssumption DEF Init, TypeOK, Slots, Threads, PushPcs, PopPcs
<1>2. WindowBounded /\ LogCoversClaims /\ NothingLost
  BY DEF Init, WindowBounded, LogCoversClaims, NothingLost
<1>3. FreeSlots
  <2> SUFFICES ASSUME NEW p \in 0 .. SlotCount - 1 PROVE sequence[Slot(p)] = p
    BY DEF Init, FreeSlots
  <2>1. p % SlotCount = p
    BY RemainderUnique
  <2> QED
    BY <2>1 DEF Init, Slot, Slots
<1>4. \A t \in Threads : ~Holds(t) /\ pc[t] = "idle"
  BY DEF Init, Holds, Writing, Reading
<1>5. WritersHold /\ ReadersHold /\ ClaimsUnique /\ PushViews /\ PopViews /\ DeliveredAsPushed
  BY <1>4 DEF Threads, Holds, WritersHold, ReadersHold, ClaimsUnique, PushViews, PopViews,
              DeliveredAsPushed
<1> QED
  BY <1>1, <1>2, <1>3, <1>5 DEF IInv

(* A step of a thread that neither holds nor takes a slot, and that leaves  *)
(* the shared words alone, keeps the parts of IInv about slots and claims.   *)
LEMMA PrivateStep ==
  ASSUME IInv, NEW t \in Threads,
         UNCHANGED <<tail, head, sequence, payload, log>>,
         pc' \in [Threads -> PushPcs \cup PopPcs],
         ~Holds(t), ~Holds(t)',
         \A s \in Threads \ {t} : pc'[s] = pc[s] /\ pos'[s] = pos[s] /\ arg'[s] = arg[s]
  PROVE  /\ WindowBounded' /\ LogCoversClaims' /\ NothingLost' /\ FreeSlots'
         /\ WritersHold' /\ ReadersHold' /\ ClaimsUnique'
<1>1. WindowBounded' /\ LogCoversClaims'
  BY DEF IInv, WindowBounded, LogCoversClaims
<1>2. \A s \in Threads : /\ Writing(s)' <=> Writing(s)
                         /\ Reading(s)' <=> Reading(s)
                         /\ Holds(s) => s # t
  BY DEF Holds, Writing, Reading
<1>3. NothingLost'
  BY <1>2 DEF IInv, NothingLost, Holds, Threads
<1>4. FreeSlots'
  BY <1>2 DEF IInv, FreeSlots, Holds, Threads
<1>5. WritersHold' /\ ReadersHold'
  BY <1>2 DEF IInv, WritersHold, ReadersHold, Holds, Threads
<1>6. ClaimsUnique'
  BY <1>2 DEF IInv, ClaimsUnique, Holds, Threads
<1> QED
  BY <1>1, <1>3, <1>4, <1>5, <1>6

(* A producer inside its window is the only claim of the lap on its slot.    *)
LEMMA WriterSlot ==
  ASSUME IInv, NEW w \in Producers, Writing(w)
  PROVE  /\ pos[w] \in Nat /\ pos[w] \in head .. tail - 1
         /\ \A p \in head .. head + SlotCount - 1 : p # pos[w] => Slot(p) # Slot(pos[w])
<1>1. pos[w] \in Nat /\ pos[w] \in head .. tail - 1 /\ head \in Nat /\ tail \in Nat
  BY DEF IInv, TypeOK, WritersHold, Threads
<1>2. ASSUME NEW p \in head .. head + SlotCount - 1, p # pos[w]
      PROVE  Slot(p) # Slot(pos[w])
  BY <1>1, <1>2, SlotDistinct, SlotCountAssumption DEF IInv, WindowBounded
<1> QED
  BY <1>1, <1>2

(* A consumer inside its window holds the slot its position + lap will need. *)
LEMMA ReaderSlot ==
  ASSUME IInv, NEW c \in Consumers, Reading(c)
  PROVE  /\ pos[c] \in Nat /\ pos[c] + SlotCount \in tail .. head + SlotCount - 1
         /\ Slot(pos[c] + SlotCount) = Slot(pos[c])
         /\ \A p \in head .. head + SlotCount - 1 :
              p # pos[c] + SlotCount => Slot(p) # Slot(pos[c])
<1>1. /\ pos[c] \in Nat /\ head \in Nat /\ tail \in Nat
      /\ pos[c] + SlotCount \in tail .. head + SlotCount - 1
  BY SlotCountAssumption DEF IInv, TypeOK, ReadersHold, Threads
<1>2. Slot(pos[c] + SlotCount) = Slot(pos[c])
  BY <1>1, SlotNextLap
<1>3. ASSUME NEW p \in head .. head + SlotCount - 1, p # pos[c] + SlotCount
      PROVE  Slot(p) # Slot(pos[c])
  BY <1>1, <1>2, <1>3, SlotDistinct, SlotCountAssumption DEF IInv, WindowBounded
<1> QED
  BY <1>1, <1>2, <1>3

(* Every step of a thread preserves the invariant.                          *)
LEMMA StepInv == IInv /\ [Next]_vars => IInv'
<1> SUFFICES ASSUME IInv, [Next]_vars PROVE IInv'
  OBVIOUS
<1> USE SlotCountAssumption
<1> USE DEF IInv
<1>1. ASSUME NEW w \in Producers, PushStart(w) PROVE IInv'
  <2> USE <1>1
  <2>1. TypeOK'
    <3>1. PICK v \in Items \cup {NoItem} : arg' = [arg EXCEPT ![w] = v]
      BY DEF PushStart
    <3>2. arg' \in [Threads -> Items \cup {NoItem}]
      BY <3>1 DEF TypeOK, Threads
    <3> QED
      BY <3>2, ThreadsAssumption DEF PushStart, Goto, TypeOK, PushPcs, PopPcs, Threads, cells
  <2>2. w \in Threads /\ ~Holds(w) /\ ~Holds(w)'
    BY ThreadsAssumption DEF PushStart, Goto, TypeOK, Holds, Writing, Reading, Threads
  <2>3. UNCHANGED <<tail, head, sequence, payload, log>>
    BY DEF PushStart, cells
  <2>4. \A s \in Threads \ {w} : pc'[s] = pc[s] /\ pos'[s] = pos[s] /\ arg'[s] = arg[s]
    BY <2>1 DEF PushStart, Goto, TypeOK
  <2>5. /\ WindowBounded' /\ LogCoversClaims' /\ NothingLost' /\ FreeSlots'
        /\ WritersHold' /\ ReadersHold' /\ ClaimsUnique'
    BY <2>1, <2>2, <2>3, <2>4, PrivateStep DEF TypeOK
  <2>6. PushViews'
    BY <2>2, <2>3, <2>4, ThreadsAssumption DEF PushStart, Goto, TypeOK, PushViews, Threads, cells
  <2>7. PopViews'
    BY <2>2, <2>3, <2>4, ThreadsAssumption DEF PushStart, Goto, TypeOK, PopViews, Threads, cells
  <2>8. DeliveredAsPushed'
    BY <2>2, <2>3, <2>4, ThreadsAssumption DEF PushStart, Goto, TypeOK, DeliveredAsPushed, Threads
  <2> QED
    BY <2>1, <2>5, <2>6, <2>7, <2>8 DEF IInv
<1>2. ASSUME NEW w \in Producers, PushLoadTail(w) PROVE IInv'
  <2> USE <1>2
  <2>1. TypeOK'
    BY SlotType DEF PushLoadTail, Goto, TypeOK, PushPcs, PopPcs, Threads, cells
  <2>2. w \in Threads /\ ~Holds(w) /\ ~Holds(w)'
    BY ThreadsAssumption DEF PushLoadTail, Goto, TypeOK, Holds, Writing, Reading, Threads
  <2>3. UNCHANGED <<tail, head, sequence, payload, log>>
    BY DEF PushLoadTail, cells
  <2>4. \A s \in Threads \ {w} : pc'[s] = pc[s] /\ pos'[s] = pos[s] /\ arg'[s] = arg[s]
    BY <2>1 DEF PushLoadTail, Goto, TypeOK
  <2>5. /\ WindowBounded' /\ LogCoversClaims' /\ NothingLost' /\ FreeSlots'
        /\ WritersHold' /\ ReadersHold' /\ ClaimsUnique'
    BY <2>1, <2>2, <2>3, <2>4, PrivateStep DEF TypeOK
  <2>6. PushViews'
    BY <2>2, <2>3, <2>4, ThreadsAssumption DEF PushLoadTail, Goto, TypeOK, PushViews, Threads, cells
  <2>7. PopViews'
    BY <2>2, <2>3, <2>4, ThreadsAssumption DEF PushLoadTail, Goto, TypeOK, PopViews, Threads, cells
  <2>8. DeliveredAsPushed'
    BY <2>2, <2>3, <2>4, ThreadsAssumption DEF PushLoadTail, Goto, TypeOK, DeliveredAsPushed, Threads
  <2> QED
    BY <2>1, <2>5, <2>6, <2>7, <2>8 DEF IInv
<1>3. ASSUME NEW w \in Producers, PushCheck(w) PROVE IInv'
  <2> USE <1>3
  <2>1. TypeOK'
    BY SlotType DEF PushCheck, Goto, TypeOK, PushPcs, PopPcs, Threads, cells
  <2>2. w \in Threads /\ ~Holds(w) /\ ~Holds(w)'
    BY ThreadsAssumption DEF PushCheck, Goto, TypeOK, Holds, Writing, Reading, Threads
  <2>3. UNCHANGED <<tail, head, sequence, payload, log>>
    BY DEF PushCheck, cells
  <2>4. \A s \in Threads \ {w} : pc'[s] = pc[s] /\ pos'[s] = pos[s] /\ arg'[s] = arg[s]
    BY <2>1 DEF PushCheck, Goto, TypeOK
  <2>5. /\ WindowBounded' /\ LogCoversClaims' /\ NothingLost' /\ FreeSlots'
        /\ WritersHold' /\ ReadersHold' /\ ClaimsUnique'
    BY <2>1, <2>2, <2>3, <2>4, PrivateStep DEF TypeOK
  <2>6. PushViews'
    <3>1. pos[w] \in Nat /\ Slot(pos[w]) \in Slots /\ sequence[Slot(pos[w])] \in Nat
      BY <2>2, SlotType DEF TypeOK
    <3> QED
      BY <2>2, <2>3, <2>4, <3>1, ThreadsAssumption
      DEF PushCheck, Goto, TypeOK, PushViews, Threads, cells
  <2>7. PopViews'
    BY <2>2, <2>3, <2>4, ThreadsAssumption DEF PushCheck, Goto, TypeOK, PopViews, Threads, cells
  <2>8. DeliveredAsPushed'
    BY <2>2, <2>3, <2>4, ThreadsAssumption DEF PushCheck, Goto, TypeOK, DeliveredAsPushed, Threads
  <2> QED
    BY <2>1, <2>5, <2>6, <2>7, <2>8 DEF IInv
<1>4. ASSUME NEW w \in Producers, PushClaimFails(w) PROVE IInv'
  <2> USE <1>4
  <2>1. TypeOK'
    BY SlotType DEF PushClaimFails, Goto, TypeOK, PushPcs, PopPcs, Threads, cells
  <2>2. w \in Threads /\ ~Holds(w) /\ ~Holds(w)'
    BY ThreadsAssumption DEF PushClaimFails, Goto, TypeOK, Holds, Writing, Reading, Threads
  <2>3. UNCHANGED <<tail, head, sequence, payload, log>>
    BY DEF PushClaimFails, cells
  <2>4. \A s \in Threads \ {w} : pc'[s] = pc[s] /\ pos'[s] = pos[s] /\ arg'[s] = arg[s]
    BY <2>1 DEF PushClaimFails, Goto, TypeOK
  <2>5. /\ WindowBounded' /\ LogCoversClaims' /\ NothingLost' /\ FreeSlots'
        /\ WritersHold' /\ ReadersHold' /\ ClaimsUnique'
    BY <2>1, <2>2, <2>3, <2>4, PrivateStep DEF TypeOK
  <2>6. PushViews'
    BY <2>2, <2>3, <2>4, ThreadsAssumption DEF PushClaimFails, Goto, TypeOK, PushViews, Threads, cells
  <2>7. PopViews'
    BY <2>2, <2>3, <2>4, ThreadsAssumption DEF PushClaimFails, Goto, TypeOK, PopViews, Threads, cells
  <2>8. DeliveredAsPushed'
    BY <2>2, <2>3, <2>4, ThreadsAssumption DEF PushClaimFails, Goto, TypeOK, DeliveredAsPushed, Threads
  <2> QED
    BY <2>1, <2>5, <2>6, <2>7, <2>8 DEF IInv
<1>5. ASSUME NEW c \in Consumers, PopStart(c) PROVE IInv'
  <2> USE <1>5
  <2>1. TypeOK'
    <3>1. PICK v \in Items \cup {NoItem} : arg' = [arg EXCEPT ![c] = v]
      BY DEF PopStart
    <3>2. arg' \in [Threads -> Items \cup {NoItem}]
      BY <3>1 DEF TypeOK, Threads
    <3> QED
      BY <3>2, ThreadsAssumption DEF PopStart, Goto, TypeOK, PushPcs, PopPcs, Threads, cells
  <2>2. c \in Threads /\ ~Holds(c) /\ ~Holds(c)'
    BY ThreadsAssumption DEF PopStart, Goto, TypeOK, Holds, Writing, Reading, Threads
  <2>3. UNCHANGED <<tail, head, sequence, payload, log>>
    BY DEF PopStart, cells
  <2>4. \A s \in Threads \ {c} : pc'[s] = pc[s] /\ pos'[s] = pos[s] /\ arg'[s] = arg[s]
    BY <2>1 DEF PopStart, Goto, TypeOK
  <2>5. /\ WindowBounded' /\ LogCoversClaims' /\ NothingLost' /\ FreeSlots'
        /\ WritersHold' /\ ReadersHold' /\ ClaimsUnique'
    BY <2>1, <2>2, <2>3, <2>4, PrivateStep DEF TypeOK
  <2>6. PushViews'
    BY <2>2, <2>3, <2>4, ThreadsAssumption DEF PopStart, Goto, TypeOK, PushViews, Threads, cells
  <2>7. PopViews'
    BY <2>2, <2>3, <2>4, ThreadsAssumption DEF PopStart, Goto, TypeOK, PopViews, Threads, cells
  <2>8. DeliveredAsPushed'
    BY <2>2, <2>3, <2>4, ThreadsAssumption DEF PopStart, Goto, TypeOK, DeliveredAsPushed, Threads
  <2> QED
    BY <2>1, <2>5, <2>6, <2>7, <2>8 DEF IInv
<1>6. ASSUME NEW c \in Consumers, PopLoadHead(c) PROVE IInv'
  <2> USE <1>6
  <2>1. TypeOK'
    BY SlotType DEF PopLoadHead, Goto, TypeOK, PushPcs, PopPcs, Threads, cells
  <2>2. c \in Threads /\ ~Holds(c) /\ ~Holds(c)'
    BY ThreadsAssumption DEF PopLoadHead, Goto, TypeOK, Holds, Writing, Reading, Threads
  <2>3. UNCHANGED <<tail, head, sequence, payload, log>>
    BY DEF PopLoadHead, cells
  <2>4. \A s \in Threads \ {c} : pc'[s] = pc[s] /\ pos'[s] = pos[s] /\ arg'[s] = arg[s]
    BY <2>1 DEF PopLoadHead, Goto, TypeOK
  <2>5. /\ WindowBounded' /\ LogCoversClaims' /\ NothingLost' /\ FreeSlots'
        /\ WritersHold' /\ ReadersHold' /\ ClaimsUnique'
    BY <2>1, <2>2, <2>3, <2>4, PrivateStep DEF TypeOK
  <2>6. PushViews'
    BY <2>2, <2>3, <2>4, ThreadsAssumption DEF PopLoadHead, Goto, TypeOK, PushViews, Threads, cells
  <2>7. PopViews'
    BY <2>2, <2>3, <2>4, ThreadsAssumption DEF PopLoadHead, Goto, TypeOK, PopViews, Threads, cells
  <2>8. DeliveredAsPushed'
    BY <2>2, <2>3, <2>4, ThreadsAssumption DEF PopLoadHead, Goto, TypeOK, DeliveredAsPushed, Threads
  <2> QED
    BY <2>1, <2>5, <2>6, <2>7, <2>8 DEF IInv
<1>7. ASSUME NEW c \in Consumers, PopCheck(c) PROVE IInv'
  <2> USE <1>7
  <2>1. TypeOK'
    BY SlotType DEF PopCheck, Goto, TypeOK, PushPcs, PopPcs, Threads, cells
  <2>2. c \in Threads /\ ~Holds(c) /\ ~Holds(c)'
    BY ThreadsAssumption DEF PopCheck, Goto, TypeOK, Holds, Writing, Reading, Threads
  <2>3. UNCHANGED <<tail, head, sequence, payload, log>>
    BY DEF PopCheck, cells
  <2>4. \A s \in Threads \ {c} : pc'[s] = pc[s] /\ pos'[s] = pos[s] /\ arg'[s] = arg[s]
    BY <2>1 DEF PopCheck, Goto, TypeOK
  <2>5. /\ WindowBounded' /\ LogCoversClaims' /\ NothingLost' /\ FreeSlots'
        /\ WritersHold' /\ ReadersHold' /\ ClaimsUnique'
    BY <2>1, <2>2, <2>3, <2>4, PrivateStep DEF TypeOK
  <2>6. PushViews'
    BY <2>2, <2>3, <2>4, ThreadsAssumption DEF PopCheck, Goto, TypeOK, PushViews, Threads, cells
  <2>7. PopViews'
    <3>1. pos[c] \in Nat /\ Slot(pos[c]) \in Slots /\ sequence[Slot(pos[c])] \in Nat
      BY <2>2, SlotType DEF TypeOK
    <3> QED
      BY <2>2, <2>3, <2>4, <3>1, ThreadsAssumption
      DEF PopCheck, Goto, TypeOK, PopViews, Threads, cells
  <2>8. DeliveredAsPushed'
    BY <2>2, <2>3, <2>4, ThreadsAssumption DEF PopCheck, Goto, TypeOK, DeliveredAsPushed, Threads
  <2> QED
    BY <2>1, <2>5, <2>6, <2>7, <2>8 DEF IInv
<1>8. ASSUME NEW c \in Consumers, PopClaimFails(c) PROVE IInv'
  <2> USE <1>8
  <2>1. TypeOK'
    BY SlotType DEF PopClaimFails, Goto, TypeOK, PushPcs, PopPcs, Threads, cells
  <2>2. c \in Threads /\ ~Holds(c) /\ ~Holds(c)'
    BY ThreadsAssumption DEF PopClaimFails, Goto, TypeOK, Holds, Writing, Reading, Threads
  <2>3. UNCHANGED <<tail, head, sequence, payload, log>>
    BY DEF PopClaimFails, cells
  <2>4. \A s \in Threads \ {c} : pc'[s] = pc[s] /\ pos'[s] = pos[s] /\ arg'[s] = arg[s]
    BY <2>1 DEF PopClaimFails, Goto, TypeOK
  <2>5. /\ WindowBounded' /\ LogCoversClaims' /\ NothingLost' /\ FreeSlots'
        /\ WritersHold' /\ ReadersHold' /\ ClaimsUnique'
    BY <2>1, <2>2, <2>3, <2>4, PrivateStep DEF TypeOK
  <2>6. PushViews'
    BY <2>2, <2>3, <2>4, ThreadsAssumption DEF PopClaimFails, Goto, TypeOK, PushViews, Threads, cells
  <2>7. PopViews'
    BY <2>2, <2>3, <2>4, ThreadsAssumption DEF PopClaimFails, Goto, TypeOK, PopViews, Threads, cells
  <2>8. DeliveredAsPushed'
    BY <2>2, <2>3, <2>4, ThreadsAssumption DEF PopClaimFails, Goto, TypeOK, DeliveredAsPushed, Threads
  <2> QED
    BY <2>1, <2>5, <2>6, <2>7, <2>8 DEF IInv
<1>9. ASSUME NEW c \in Consumers, PopCount(c) PROVE IInv'
  <2> USE <1>9
  <2>1. TypeOK'
    BY SlotType DEF PopCount, Goto, TypeOK, PushPcs, PopPcs, Threads, cells
  <2>2. c \in Threads /\ ~Holds(c) /\ ~Holds(c)'
    BY ThreadsAssumption DEF PopCount, Goto, TypeOK, Holds, Writing, Reading, Threads
  <2>3. UNCHANGED <<tail, head, sequence, payload, log>>
    BY DEF PopCount, cells
  <2>4. \A s \in Threads \ {c} : pc'[s] = pc[s] /\ pos'[s] = pos[s] /\ arg'[s] = arg[s]
    BY <2>1 DEF PopCount, Goto, TypeOK
  <2>5. /\ WindowBounded' /\ LogCoversClaims' /\ NothingLost' /\ FreeSlots'
        /\ WritersHold' /\ ReadersHold' /\ ClaimsUnique'
    BY <2>1, <2>2, <2>3, <2>4, PrivateStep DEF TypeOK
  <2>6. PushViews'
    BY <2>2, <2>3, <2>4, ThreadsAssumption DEF PopCount, Goto, TypeOK, PushViews, Threads, cells
  <2>7. PopViews'
    BY <2>2, <2>3, <2>4, ThreadsAssumption DEF PopCount, Goto, TypeOK, PopViews, Threads, cells
  <2>8. DeliveredAsPushed'
    BY <2>2, <2>3, <2>4, ThreadsAssumption DEF PopCount, Goto, TypeOK, DeliveredAsPushed, Threads
  <2> QED
    BY <2>1, <2>5, <2>6, <2>7, <2>8 DEF IInv
<1>10. ASSUME NEW w \in Producers, PushClaim(w) PROVE IInv'
  <2> USE <1>10
  <2>1. /\ w \in Threads /\ tail \in Nat /\ head \in Nat /\ tail = pos[w]
        /\ tail' = tail + 1 /\ arg[w] \in Items
        /\ UNCHANGED <<head, sequence, payload, pos, arg, corruption>>
        /\ sequence[Slot(tail)] = tail
    BY DEF PushClaim, TypeOK, PushViews, Threads, cells
  <2>0. log' = Append(log, arg[w])
    BY DEF PushClaim
  <2>2. TypeOK'
    BY <2>1, <2>0 DEF PushClaim, Goto, TypeOK, PushPcs, PopPcs, Threads
  <2>3. tail < head + SlotCount
    <3> SUFFICES ASSUME tail = head + SlotCount PROVE FALSE
      BY <2>1 DEF WindowBounded
    <3>1. Slot(head + SlotCount) = Slot(head)
      BY <2>1, SlotNextLap
    <3>2. head \in head .. tail - 1
      BY <2>1
    <3> QED
      BY <3>1, <3>2, <2>1 DEF NothingLost
  <2>4. ASSUME NEW c \in Consumers, Reading(c) PROVE tail + 1 <= pos[c] + SlotCount
    <3> SUFFICES ASSUME pos[c] + SlotCount = tail PROVE FALSE
      BY <2>1, <2>4, ReaderSlot DEF ReadersHold
    <3> QED
      BY <2>1, <2>4, ReaderSlot DEF ReadersHold
  <2>5. /\ \A v \in Producers : Writing(v)' <=> Writing(v) \/ v = w
        /\ \A c \in Consumers : Reading(c)' <=> Reading(c)
        /\ ~Writing(w)
    BY <2>1, ThreadsAssumption DEF PushClaim, Goto, TypeOK, Writing, Reading, Threads
  <2>6. \A p \in Nat : p < tail => log'[p + 1] = log[p + 1]
    BY <2>1, <2>0 DEF LogCoversClaims, TypeOK
  <2>7. log'[tail + 1] = arg[w] /\ LogCoversClaims'
    BY <2>1, <2>0 DEF LogCoversClaims, TypeOK
  <2>8. WindowBounded'
    BY <2>1, <2>3 DEF WindowBounded
  <2>9. NothingLost'
    <3> SUFFICES ASSUME NEW p \in head .. tail
                 PROVE \/ sequence[Slot(p)] = p + 1 /\ payload[Slot(p)] = log'[p + 1]
                       \/ /\ sequence[Slot(p)] = p
                          /\ \E v \in Producers : (Writing(v) \/ v = w) /\ pos[v] = p
      BY <2>1, <2>5 DEF NothingLost
    <3>1. CASE p = tail
      BY <3>1, <2>1, <2>5
    <3>2. CASE p # tail
      <4>1. p \in head .. tail - 1 /\ p \in Nat /\ p < tail
        BY <3>2, <2>1
      <4>2. log'[p + 1] = log[p + 1]
        BY <4>1, <2>6
      <4> QED
        BY <4>1, <4>2 DEF NothingLost
    <3> QED
      BY <3>1, <3>2
  <2>10. FreeSlots'
    BY <2>1, <2>5 DEF FreeSlots
  <2>11. WritersHold'
    <3> SUFFICES ASSUME NEW v \in Producers, Writing(v)'
                 PROVE  /\ head <= pos[v] /\ pos[v] < tail + 1
                        /\ sequence[Slot(pos[v])] = pos[v]
                        /\ arg[v] = log'[pos[v] + 1]
                        /\ pc'[v] = "commit" => payload[Slot(pos[v])] = arg[v]
      BY <2>1 DEF WritersHold
    <3>1. CASE v = w
      BY <3>1, <2>1, <2>7 DEF WindowBounded, PushClaim, Goto, TypeOK
    <3>2. CASE v # w
      <4>1. Writing(v) /\ pos[v] \in Nat /\ pc'[v] = pc[v]
        BY <3>2, <2>5 DEF PushClaim, Goto, TypeOK, Threads
      <4>2. pos[v] < tail
        BY <4>1 DEF WritersHold
      <4>3. log'[pos[v] + 1] = log[pos[v] + 1]
        BY <4>1, <4>2, <2>6
      <4> QED
        BY <4>1, <4>2, <4>3, <2>1 DEF WritersHold
    <3> QED
      BY <3>1, <3>2
  <2>12. ReadersHold'
    <3> SUFFICES ASSUME NEW c \in Consumers, Reading(c)
                 PROVE  /\ pos[c] < head /\ tail + 1 <= pos[c] + SlotCount
                        /\ sequence[Slot(pos[c])] = pos[c] + 1
                        /\ payload[Slot(pos[c])] = log'[pos[c] + 1]
      BY <2>1, <2>5 DEF ReadersHold
    <3>1. pos[c] \in Nat /\ pos[c] < head /\ pos[c] < tail
      BY <2>1 DEF ReadersHold, WindowBounded, TypeOK, Threads
    <3> QED
      BY <3>1, <2>1, <2>4, <2>6 DEF ReadersHold
  <2>13. ClaimsUnique'
    BY <2>1, <2>5 DEF ClaimsUnique, WritersHold
  <2>14. PushViews'
    BY <2>1 DEF PushViews, PushClaim, Goto, TypeOK, Threads
  <2>15. PopViews'
    BY <2>1, ThreadsAssumption DEF PopViews, PushClaim, Goto, TypeOK, Threads
  <2>16. DeliveredAsPushed'
    <3>1. \A c \in Consumers : pc'[c] = pc[c] /\ pos[c] \in Nat
      BY <2>1, ThreadsAssumption DEF PushClaim, Goto, TypeOK, Threads
    <3>2. \A c \in Consumers : pc[c] \in {"release", "skip", "count"} => pos[c] < tail
      BY <2>1 DEF ReadersHold, Reading, PopViews, WindowBounded, TypeOK, Threads
    <3> QED
      BY <2>1, <2>6, <3>1, <3>2 DEF DeliveredAsPushed
  <2> QED
    BY <2>2, <2>7, <2>8, <2>9, <2>10, <2>11, <2>12, <2>13, <2>14, <2>15, <2>16
<1>11. ASSUME NEW w \in Producers, PushWrite(w) PROVE IInv'
  <2> USE <1>11
  <2>1. /\ w \in Threads /\ pos[w] \in Nat /\ Writing(w)
        /\ UNCHANGED <<tail, head, sequence, pos, arg, log, corruption>>
        /\ payload' = [payload EXCEPT ![Slot(pos[w])] = arg[w]]
        /\ Slot(pos[w]) \in Slots /\ arg[w] \in Items /\ head \in Nat /\ tail \in Nat
    BY SlotType DEF PushWrite, Writing, TypeOK, PushViews, Threads
  <2>2. TypeOK'
    BY <2>1 DEF PushWrite, Goto, TypeOK, PushPcs, PopPcs, Threads
  <2>3. /\ \A v \in Producers : Writing(v)' <=> Writing(v)
        /\ \A c \in Consumers : Reading(c)' <=> Reading(c)
        /\ \A t \in Threads \ {w} : pc'[t] = pc[t]
        /\ pc'[w] = "commit"
    BY <2>1, ThreadsAssumption DEF PushWrite, Goto, TypeOK, Writing, Reading, Threads
  <2>4. pos[w] \in head .. tail - 1 /\ sequence[Slot(pos[w])] = pos[w]
    BY <2>1, WriterSlot DEF WritersHold
  <2>5. \A p \in head .. head + SlotCount - 1 :
          p # pos[w] => payload'[Slot(p)] = payload[Slot(p)]
    <3> SUFFICES ASSUME NEW p \in head .. head + SlotCount - 1, p # pos[w]
                 PROVE  payload'[Slot(p)] = payload[Slot(p)]
      OBVIOUS
    <3>1. p \in Nat
      BY <2>1, SlotCountAssumption
    <3>2. Slot(p) \in Slots
      BY <3>1, SlotType
    <3>3. Slot(p) # Slot(pos[w])
      BY <2>1, WriterSlot
    <3>4. payload \in [Slots -> Items \cup {NoItem}]
      BY DEF TypeOK
    <3> QED
      BY ONLY <2>1, <3>2, <3>3, <3>4
  <2>6. \A c \in Consumers : Reading(c) => payload'[Slot(pos[c])] = payload[Slot(pos[c])]
    BY <2>1, <2>4, <2>5, ReaderSlot, SlotCountAssumption DEF WindowBounded
  <2>7. WindowBounded' /\ LogCoversClaims'
    BY <2>1 DEF WindowBounded, LogCoversClaims
  <2>8. NothingLost'
    <3> SUFFICES ASSUME NEW p \in head .. tail - 1
                 PROVE \/ sequence[Slot(p)] = p + 1 /\ payload'[Slot(p)] = log[p + 1]
                       \/ sequence[Slot(p)] = p /\ \E v \in Producers : Writing(v) /\ pos[v] = p
      BY <2>1, <2>3 DEF NothingLost
    <3>1. CASE p = pos[w]
      BY <3>1, <2>1, <2>4
    <3>2. CASE p # pos[w]
      BY <3>2, <2>1, <2>5 DEF NothingLost, WindowBounded
    <3> QED
      BY <3>1, <3>2
  <2>9. FreeSlots'
    BY <2>1, <2>3 DEF FreeSlots
  <2>10. WritersHold'
    <3> SUFFICES ASSUME NEW v \in Producers, Writing(v), pc'[v] = "commit"
                 PROVE  payload'[Slot(pos[v])] = arg[v]
      BY <2>1, <2>3 DEF WritersHold
    <3>1. CASE v = w
      BY <3>1, <2>1 DEF TypeOK
    <3>2. CASE v # w
      <4>1. pos[v] # pos[w] /\ pc[v] = "commit"
        BY <3>2, <2>1, <2>3 DEF ClaimsUnique, Threads
      <4>2. pos[v] \in head .. head + SlotCount - 1
        BY WriterSlot, <2>1 DEF WindowBounded
      <4> QED
        BY <4>1, <4>2, <2>5 DEF WritersHold
    <3> QED
      BY <3>1, <3>2
  <2>11. ReadersHold'
    BY <2>1, <2>3, <2>6 DEF ReadersHold
  <2>12. ClaimsUnique'
    BY <2>1, <2>3 DEF ClaimsUnique
  <2>13. PushViews' /\ PopViews' /\ DeliveredAsPushed'
    BY <2>1, <2>3, ThreadsAssumption DEF PushViews, PopViews, DeliveredAsPushed, Threads
  <2> QED
    BY <2>2, <2>7, <2>8, <2>9, <2>10, <2>11, <2>12, <2>13
<1>12. ASSUME NEW w \in Producers, PushCommit(w) PROVE IInv'
  <2> USE <1>12
  <2>1. /\ w \in Threads /\ pos[w] \in Nat /\ Writing(w) /\ pc[w] = "commit"
        /\ UNCHANGED <<tail, head, payload, pos, log, corruption>>
        /\ sequence' = [sequence EXCEPT ![Slot(pos[w])] = pos[w] + 1]
        /\ Slot(pos[w]) \in Slots /\ head \in Nat /\ tail \in Nat
    BY SlotType DEF PushCommit, Writing, TypeOK, Threads
  <2>2. TypeOK'
    BY <2>1, ThreadsAssumption DEF PushCommit, Goto, TypeOK, PushPcs, PopPcs, Threads
  <2>3. /\ \A v \in Producers : Writing(v)' <=> (Writing(v) /\ v # w)
        /\ \A c \in Consumers : Reading(c)' <=> Reading(c)
        /\ \A t \in Threads \ {w} : pc'[t] = pc[t] /\ arg'[t] = arg[t]
        /\ pc'[w] = "idle"
    BY <2>1, ThreadsAssumption DEF PushCommit, Goto, TypeOK, Writing, Reading, Threads
  <2>4. /\ pos[w] \in head .. tail - 1 /\ sequence[Slot(pos[w])] = pos[w]
        /\ payload[Slot(pos[w])] = log[pos[w] + 1] /\ sequence'[Slot(pos[w])] = pos[w] + 1
    BY <2>1, WriterSlot DEF WritersHold, TypeOK
  <2>5. \A p \in head .. head + SlotCount - 1 :
          p # pos[w] => sequence'[Slot(p)] = sequence[Slot(p)]
    <3> SUFFICES ASSUME NEW p \in head .. head + SlotCount - 1, p # pos[w]
                 PROVE  sequence'[Slot(p)] = sequence[Slot(p)]
      OBVIOUS
    <3>1. Slot(p) \in Slots /\ Slot(p) # Slot(pos[w])
      BY <2>1, WriterSlot, SlotType
    <3> QED
      BY <3>1, <2>1 DEF TypeOK
  <2>6. \A c \in Consumers : Reading(c) => sequence'[Slot(pos[c])] = sequence[Slot(pos[c])]
    BY <2>1, <2>4, <2>5, ReaderSlot DEF WindowBounded
  <2>7. WindowBounded' /\ LogCoversClaims'
    BY <2>1 DEF WindowBounded, LogCoversClaims
  <2>8. NothingLost'
    <3> SUFFICES ASSUME NEW p \in head .. tail - 1
                 PROVE \/ sequence'[Slot(p)] = p + 1 /\ payload[Slot(p)] = log[p + 1]
                       \/ /\ sequence'[Slot(p)] = p
                          /\ \E v \in Producers : (Writing(v) /\ v # w) /\ pos[v] = p
      BY <2>1, <2>3 DEF NothingLost
    <3>1. CASE p = pos[w]
      BY <3>1, <2>4
    <3>2. CASE p # pos[w]
      <4>1. sequence'[Slot(p)] = sequence[Slot(p)]
        BY <3>2, <2>1, <2>5 DEF WindowBounded
      <4> QED
        BY <3>2, <4>1 DEF NothingLost
    <3> QED
      BY <3>1, <3>2
  <2>9. FreeSlots'
    <3> SUFFICES ASSUME NEW p \in tail .. head + SlotCount - 1
                 PROVE  sequence'[Slot(p)] = sequence[Slot(p)]
      BY <2>1, <2>3 DEF FreeSlots
    <3> QED
      BY <2>1, <2>4, <2>5 DEF WindowBounded
  <2>10. WritersHold'
    <3> SUFFICES ASSUME NEW v \in Producers, Writing(v), v # w
                 PROVE  sequence'[Slot(pos[v])] = sequence[Slot(pos[v])]
      BY <2>1, <2>3 DEF WritersHold, Threads
    <3>1. pos[v] # pos[w] /\ pos[v] \in head .. head + SlotCount - 1
      BY <2>1, WriterSlot DEF ClaimsUnique, WindowBounded
    <3> QED
      BY <3>1, <2>5
  <2>11. ReadersHold'
    BY <2>1, <2>3, <2>6 DEF ReadersHold
  <2>12. ClaimsUnique'
    BY <2>1, <2>3 DEF ClaimsUnique
  <2>13. PushViews'
    <3> SUFFICES ASSUME NEW v \in Producers, v # w, pc[v] = "casTail", tail = pos[v]
                 PROVE  sequence'[Slot(tail)] = tail
      BY <2>1, <2>3 DEF PushViews, Threads
    <3>1. sequence[Slot(tail)] = tail /\ Slot(tail) \in Slots
      BY <2>1, SlotType DEF PushViews
    <3>2. Slot(tail) # Slot(pos[w])
      BY <3>1, <2>1, <2>4
    <3> QED
      BY <3>1, <3>2, <2>1 DEF TypeOK
  <2>14. PopViews'
    <3> SUFFICES ASSUME NEW c \in Consumers, pc[c] = "casHead", head = pos[c]
                 PROVE  sequence'[Slot(head)] = head + 1
      BY <2>1, <2>3, ThreadsAssumption DEF PopViews, Threads
    <3>1. sequence[Slot(head)] = head + 1
      BY DEF PopViews
    <3>2. head # pos[w]
      BY <3>1, <2>1, <2>4
    <3> QED
      BY <3>1, <3>2, <2>1, <2>5
  <2>15. DeliveredAsPushed'
    BY <2>1, <2>3, ThreadsAssumption DEF DeliveredAsPushed, Threads
  <2> QED
    BY <2>2, <2>7, <2>8, <2>9, <2>10, <2>11, <2>12, <2>13, <2>14, <2>15
<1>13. ASSUME NEW c \in Consumers, PopClaim(c) PROVE IInv'
  <2> USE <1>13
  <2>1. /\ c \in Threads /\ tail \in Nat /\ head \in Nat /\ head = pos[c] /\ head' = head + 1
        /\ UNCHANGED <<tail, sequence, payload, pos, arg, log, corruption>>
        /\ sequence[Slot(head)] = head + 1
    BY DEF PopClaim, TypeOK, PopViews, Threads, cells
  <2>2. TypeOK'
    BY <2>1 DEF PopClaim, Goto, TypeOK, PushPcs, PopPcs, Threads
  <2>3. /\ \A w \in Producers : Writing(w)' <=> Writing(w)
        /\ \A b \in Consumers : Reading(b)' <=> (Reading(b) \/ b = c)
        /\ \A t \in Threads \ {c} : pc'[t] = pc[t]
        /\ pc'[c] = "read" /\ ~Reading(c)
    BY <2>1, ThreadsAssumption DEF PopClaim, Goto, TypeOK, Writing, Reading, Threads
  <2>4. head < tail
    <3> SUFFICES ASSUME head = tail PROVE FALSE
      BY <2>1 DEF WindowBounded
    <3> QED
      BY <2>1 DEF FreeSlots
  <2>5. payload[Slot(head)] = log[head + 1]
    BY <2>1, <2>4 DEF NothingLost
  <2>6. \A w \in Producers : Writing(w) => pos[w] # head
    BY <2>1 DEF WritersHold
  <2>7. WindowBounded' /\ LogCoversClaims'
    BY <2>1, <2>4 DEF WindowBounded, LogCoversClaims
  <2>8. NothingLost'
    BY <2>1, <2>3 DEF NothingLost
  <2>9. FreeSlots'
    <3> SUFFICES ASSUME NEW p \in tail .. head + SlotCount
                 PROVE \/ sequence[Slot(p)] = p
                       \/ /\ sequence[Slot(p)] = p + 1 - SlotCount
                          /\ \E b \in Consumers : (Reading(b) \/ b = c) /\ pos[b] = p - SlotCount
      BY <2>1, <2>3 DEF FreeSlots
    <3>1. CASE p = head + SlotCount
      <4>1. Slot(head + SlotCount) = Slot(head)
        BY <2>1, SlotNextLap
      <4> QED
        BY <3>1, <4>1, <2>1
    <3>2. CASE p # head + SlotCount
      <4>1. p \in tail .. head + SlotCount - 1
        BY <3>2, <2>1
      <4> QED
        BY <4>1 DEF FreeSlots
    <3> QED
      BY <3>1, <3>2
  <2>10. WritersHold'
    <3> SUFFICES ASSUME NEW w \in Producers, Writing(w) PROVE head + 1 <= pos[w]
      BY <2>1, <2>3, ThreadsAssumption DEF WritersHold, Threads
    <3> QED
      BY <2>1, <2>6, WriterSlot
  <2>11. ReadersHold'
    <3> SUFFICES ASSUME NEW b \in Consumers, Reading(b) \/ b = c
                 PROVE  /\ pos[b] < head + 1 /\ tail <= pos[b] + SlotCount
                        /\ sequence[Slot(pos[b])] = pos[b] + 1
                        /\ payload[Slot(pos[b])] = log[pos[b] + 1]
      BY <2>1, <2>3 DEF ReadersHold
    <3>1. CASE b = c
      BY <3>1, <2>1, <2>5 DEF WindowBounded
    <3>2. CASE Reading(b)
      BY <3>2, <2>1, ReaderSlot DEF ReadersHold
    <3> QED
      BY <3>1, <3>2
  <2>12. ClaimsUnique'
    BY <2>1, <2>3 DEF ClaimsUnique, ReadersHold
  <2>13. PushViews'
    BY <2>1, <2>3, ThreadsAssumption DEF PushViews, Threads
  <2>14. PopViews'
    BY <2>1, <2>3 DEF PopViews, TypeOK, Threads
  <2>15. DeliveredAsPushed'
    BY <2>1, <2>3 DEF DeliveredAsPushed, Threads
  <2> QED
    BY <2>2, <2>7, <2>8, <2>9, <2>10, <2>11, <2>12, <2>13, <2>14, <2>15
<1>14. ASSUME NEW c \in Consumers, PopRead(c) PROVE IInv'
  <2> USE <1>14
  <2>1. /\ c \in Threads /\ pos[c] \in Nat /\ Reading(c) /\ pc[c] = "read"
        /\ UNCHANGED <<tail, head, sequence, payload, pos, log, corruption>>
        /\ payload[Slot(pos[c])] = log[pos[c] + 1]
        /\ payload[Slot(pos[c])] \in Items \cup {NoItem}
    BY SlotType DEF PopRead, Reading, TypeOK, ReadersHold, Threads, cells
  <2>2. TypeOK'
    BY <2>1 DEF PopRead, Goto, TypeOK, PushPcs, PopPcs, Threads
  <2>3. /\ \A w \in Producers : Writing(w)' <=> Writing(w)
        /\ \A b \in Consumers : Reading(b)' <=> Reading(b)
        /\ \A t \in Threads \ {c} : pc'[t] = pc[t] /\ arg'[t] = arg[t]
        /\ \/ pc'[c] = "skip" /\ log[pos[c] + 1] \in BadCrc
           \/ pc'[c] = "release" /\ arg'[c] = log[pos[c] + 1]
    BY <2>1, ThreadsAssumption DEF PopRead, Goto, TypeOK, Writing, Reading, Threads
  <2>4. WindowBounded' /\ LogCoversClaims'
    BY <2>1 DEF WindowBounded, LogCoversClaims
  <2>5. NothingLost' /\ FreeSlots'
    BY <2>1, <2>3 DEF NothingLost, FreeSlots
  <2>6. WritersHold' /\ ReadersHold'
    BY <2>1, <2>3, ThreadsAssumption DEF WritersHold, ReadersHold, Threads
  <2>7. ClaimsUnique'
    BY <2>1, <2>3 DEF ClaimsUnique
  <2>8. PushViews' /\ PopViews'
    BY <2>1, <2>3, ThreadsAssumption DEF PushViews, PopViews, Threads
  <2>9. DeliveredAsPushed'
    BY <2>1, <2>3 DEF DeliveredAsPushed, Threads
  <2> QED
    BY <2>2, <2>4, <2>5, <2>6, <2>7, <2>8, <2>9
<1>15. ASSUME NEW c \in Consumers, PopRelease(c) PROVE IInv'
  <2> USE <1>15
  <2>1. /\ c \in Threads /\ pos[c] \in Nat /\ Reading(c) /\ pc[c] \in {"release", "skip"}
        /\ UNCHANGED <<tail, head, payload, pos, arg, log, corruption>>
        /\ sequence' = [sequence EXCEPT ![Slot(pos[c])] = pos[c] + SlotCount]
        /\ Slot(pos[c]) \in Slots /\ head \in Nat /\ tail \in Nat
    BY SlotType DEF PopRelease, Reading, TypeOK, Threads
  <2>2. TypeOK'
    <3>1. sequence' \in [Slots -> Nat]
      BY <2>1 DEF TypeOK
    <3>2. PICK l \in {"idle", "count"} : pc' = [pc EXCEPT ![c] = l]
      BY DEF PopRelease, Goto
    <3>3. /\ pc' \in [Threads -> PushPcs \cup PopPcs]
          /\ \A w \in Producers : pc'[w] \in PushPcs
          /\ \A b \in Consumers : pc'[b] \in PopPcs
      BY <3>2, <2>1, ThreadsAssumption DEF TypeOK, PushPcs, PopPcs, Threads
    <3> QED
      BY <3>1, <3>3, <2>1 DEF TypeOK
  <2>3. /\ \A w \in Producers : Writing(w)' <=> Writing(w)
        /\ \A b \in Consumers : Reading(b)' <=> (Reading(b) /\ b # c)
        /\ \A t \in Threads \ {c} : pc'[t] = pc[t]
        /\ pc'[c] = "idle" \/ (pc[c] = "skip" /\ pc'[c] = "count")
    BY <2>1, ThreadsAssumption DEF PopRelease, Goto, TypeOK, Writing, Reading, Threads
  <2>4. /\ pos[c] + SlotCount \in tail .. head + SlotCount - 1 /\ pos[c] < head
        /\ sequence[Slot(pos[c])] = pos[c] + 1
        /\ sequence'[Slot(pos[c])] = pos[c] + SlotCount
        /\ Slot(pos[c] + SlotCount) = Slot(pos[c])
    <3>1. sequence'[Slot(pos[c])] = pos[c] + SlotCount
      BY <2>1 DEF TypeOK
    <3>2. pos[c] < head /\ sequence[Slot(pos[c])] = pos[c] + 1
      BY <2>1 DEF ReadersHold
    <3> QED
      BY <2>1, <3>1, <3>2, ReaderSlot
  <2>5. ASSUME NEW p \in head .. head + SlotCount - 1, p # pos[c] + SlotCount
        PROVE  sequence'[Slot(p)] = sequence[Slot(p)]
    <3>1. Slot(p) \in Slots /\ Slot(p) # Slot(pos[c])
      BY <2>1, <2>5, ReaderSlot, SlotType
    <3> QED
      BY <3>1, <2>1 DEF TypeOK
  <2>6. WindowBounded' /\ LogCoversClaims'
    BY <2>1 DEF WindowBounded, LogCoversClaims
  <2>7. NothingLost'
    <3> SUFFICES ASSUME NEW p \in head .. tail - 1
                 PROVE  sequence'[Slot(p)] = sequence[Slot(p)]
      BY <2>1, <2>3 DEF NothingLost
    <3> QED
      BY <2>1, <2>4, <2>5 DEF WindowBounded
  <2>8. FreeSlots'
    <3> SUFFICES ASSUME NEW p \in tail .. head + SlotCount - 1
                 PROVE \/ sequence'[Slot(p)] = p
                       \/ /\ sequence'[Slot(p)] = p + 1 - SlotCount
                          /\ \E b \in Consumers : (Reading(b) /\ b # c) /\ pos[b] = p - SlotCount
      BY <2>1, <2>3 DEF FreeSlots
    <3>1. CASE p = pos[c] + SlotCount
      BY <3>1, <2>4
    <3>2. CASE p # pos[c] + SlotCount
      <4>1. sequence'[Slot(p)] = sequence[Slot(p)]
        BY <3>2, <2>1, <2>5 DEF WindowBounded
      <4>2. pos[c] # p - SlotCount
        BY <3>2, <2>1
      <4> QED
        BY <4>1, <4>2 DEF FreeSlots
    <3> QED
      BY <3>1, <3>2
  <2>9. WritersHold'
    <3> SUFFICES ASSUME NEW w \in Producers, Writing(w)
                 PROVE  sequence'[Slot(pos[w])] = sequence[Slot(pos[w])]
      BY <2>1, <2>3, ThreadsAssumption DEF WritersHold, Threads
    <3>1. pos[w] \in head .. head + SlotCount - 1 /\ pos[w] # pos[c] + SlotCount
      BY <2>1, <2>4, WriterSlot DEF WindowBounded
    <3> QED
      BY <3>1, <2>5
  <2>10. ReadersHold'
    <3> SUFFICES ASSUME NEW b \in Consumers, Reading(b), b # c
                 PROVE  sequence'[Slot(pos[b])] = sequence[Slot(pos[b])]
      BY <2>1, <2>3 DEF ReadersHold
    <3>1. /\ pos[b] + SlotCount \in head .. head + SlotCount - 1
          /\ pos[b] + SlotCount # pos[c] + SlotCount
          /\ Slot(pos[b] + SlotCount) = Slot(pos[b])
      BY <2>1, ReaderSlot DEF ClaimsUnique, WindowBounded
    <3> QED
      BY <3>1, <2>5
  <2>11. ClaimsUnique'
    BY <2>1, <2>3 DEF ClaimsUnique
  <2>12. PushViews'
    <3> SUFFICES ASSUME NEW w \in Producers, pc[w] = "casTail", tail = pos[w]
                 PROVE  sequence'[Slot(tail)] = tail
      BY <2>1, <2>3, ThreadsAssumption DEF PushViews, Threads
    <3>1. sequence[Slot(tail)] = tail /\ Slot(tail) \in Slots
      BY <2>1, SlotType DEF PushViews
    <3>2. CASE tail = pos[c] + SlotCount
      BY <3>1, <3>2, <2>1, <2>4
    <3>3. CASE tail # pos[c] + SlotCount
      BY <3>1, <3>3, <2>1, <2>4, <2>5 DEF WindowBounded
    <3> QED
      BY <3>2, <3>3
  <2>13. PopViews'
    <3>1. ASSUME NEW b \in Consumers, b # c, pc[b] = "casHead", head = pos[b]
          PROVE  sequence'[Slot(head)] = head + 1
      <4>1. sequence[Slot(head)] = head + 1 /\ Slot(head) \in Slots
        BY <3>1, <2>1, SlotType DEF PopViews
      <4>2. Slot(head) # Slot(pos[c])
        BY <4>1, <2>1, <2>4
      <4> QED
        BY <4>1, <4>2, <2>1 DEF TypeOK
    <3> QED
      BY <3>1, <2>1, <2>3, <2>4 DEF PopViews, Threads
  <2>14. DeliveredAsPushed'
    BY <2>1, <2>3 DEF DeliveredAsPushed, Threads
  <2> QED
    BY <2>2, <2>6, <2>7, <2>8, <2>9, <2>10, <2>11, <2>12, <2>13, <2>14
<1>16. ASSUME UNCHANGED vars PROVE IInv'
  BY <1>16 DEF vars, TypeOK, WindowBounded, LogCoversClaims, NothingLost, FreeSlots, WritersHold,
               ReadersHold, ClaimsUnique, PushViews, PopViews, DeliveredAsPushed, Writing, Reading
<1> QED
  BY <1>1, <1>2, <1>3, <1>4, <1>5, <1>6, <1>7, <1>8, <1>9, <1>10, <1>11, <1>12, <1>13,
     <1>14, <1>15, <1>16 DEF Next, Push, Pop

(* No two holders share a slot, from the windows their positions lie in.      *)
LEMMA InvExclusive == IInv => ExclusiveSlots
<1> SUFFICES ASSUME IInv, NEW s \in Threads, NEW t \in Threads, Holds(s), Holds(t),
                    Slot(pos[s]) = Slot(pos[t])
             PROVE  s = t
  BY DEF ExclusiveSlots
<1> USE SlotCountAssumption
<1>0. head \in Nat /\ tail \in Nat /\ head <= tail /\ tail <= head + SlotCount
  BY DEF IInv, TypeOK, WindowBounded
<1>1. CASE Writing(s) /\ Writing(t)
  BY <1>0, <1>1, WriterSlot DEF Writing, IInv, ClaimsUnique
<1>2. CASE Reading(s) /\ Reading(t)
  BY <1>0, <1>2, ReaderSlot DEF Reading, IInv, ClaimsUnique
<1>3. CASE Writing(s) /\ Reading(t)
  BY <1>0, <1>3, WriterSlot, ReaderSlot DEF Writing, Reading
<1>4. CASE Reading(s) /\ Writing(t)
  BY <1>0, <1>4, WriterSlot, ReaderSlot DEF Writing, Reading
<1> QED
  BY <1>1, <1>2, <1>3, <1>4 DEF Holds

-----------------------------------------------------------------------------
(* Every reachable state of the ring satisfies the inductive invariant.       *)
THEOREM RingInvariant == Spec => []IInv
<1> QED
  BY InitInv, StepInv, PTL DEF Spec

(* The ring's variables keep their types.                                     *)
THEOREM RingTypeOK == Spec => []TypeOK
<1>1. IInv => TypeOK
  BY DEF IInv
<1> QED
  BY RingInvariant, <1>1, PTL

(* head_ and tail_ stay within one lap: 0 <= tail_ - head_ <= SlotCount.       *)
THEOREM RingWindow == Spec => []WindowBounded
<1>1. IInv => WindowBounded
  BY DEF IInv
<1> QED
  BY RingInvariant, <1>1, PTL

(* No two threads are ever inside the claim..release window of one slot, so    *)
(* the plain payload and CRC accesses of try_push_impl and try_pop are free    *)
(* of data races.                                                              *)
THEOREM RingExclusive == Spec => []ExclusiveSlots
BY RingInvariant, InvExclusive, PTL

(* What try_pop delivers for a position is what try_push published there, and  *)
(* only items with a wrong CRC are skipped.                                    *)
THEOREM RingDelivers == Spec => []DeliveredAsPushed
<1>1. IInv => DeliveredAsPushed
  BY DEF IInv
<1> QED
  BY RingInvariant, <1>1, PTL

(* An unconsumed position is committed with its item in place or being written.*)
THEOREM RingNothingLost == Spec => []NothingLost
<1>1. IInv => NothingLost
  BY DEF IInv
<1> QED
  BY RingInvariant, <1>1, PTL

(* The window, one thread per slot, delivery of what was pushed and no loss,    *)
(* together: the safety of try_push and try_pop for any number of slots,        *)
(* producers and consumers.                                                    *)
THEOREM RingSafety == Spec => []RingSafe
<1>1. WindowBounded /\ ExclusiveSlots /\ DeliveredAsPushed /\ NothingLost => RingSafe
  BY DEF RingSafe
<1> QED
  BY RingWindow, RingExclusive, RingDelivers, RingNothingLost, <1>1, PTL


-----------------------------------------------------------------------------
(* The arithmetic of verify_slot_state and derive_state.                    *)

(* A position and its slot differ by whole laps.                            *)
LEMMA SlotLaps ==
  ASSUME NEW p \in Nat
  PROVE  /\ Slot(p) \in Slots /\ p >= Slot(p)
         /\ (p - Slot(p)) % SlotCount = 0
         /\ (p + 1 - Slot(p)) % SlotCount = 1
<1> DEFINE n == SlotCount
           k == p \div n
<1> USE SlotCountAssumption
<1>1. k \in Int /\ p % n \in 0 .. n - 1 /\ p = n * k + (p % n)
  BY DivMod
<1>2. p >= (p % n)
  <2>1. CASE k < 0
    <3>1. n * k + n <= n * 0
      BY <1>1, <2>1, MultiplesApart
    <3> QED
      BY <1>1, <3>1
  <2>2. CASE k >= 0
    <3>1. n * k >= 0
      BY <1>1, <2>2
    <3> QED
      BY <1>1, <3>1
  <2> QED
    BY <1>1, <2>1, <2>2
<1> HIDE DEF k
<1>3. (p - (p % n)) % n = 0
  <2> DEFINE m == p - (p % n)
  <2>1. m = n * k + 0 /\ m \in Int /\ 0 \in 0 .. n - 1
    BY <1>1
  <2> HIDE DEF m
  <2>2. m % n = 0
    BY <1>1, <2>1, RemainderUnique
  <2> QED
    BY <2>2 DEF m
<1>4. (p + 1 - (p % n)) % n = 1
  <2> DEFINE m == p + 1 - (p % n)
  <2>1. m = n * k + 1 /\ m \in Int /\ 1 \in 0 .. n - 1
    BY <1>1
  <2> HIDE DEF m
  <2>2. m % n = 1
    BY <1>1, <2>1, RemainderUnique
  <2> QED
    BY <2>2 DEF m
<1>5. Slot(p) = p % n
  BY DEF Slot
<1> HIDE DEF n
<1> QED
  BY <1>1, <1>2, <1>3, <1>4, <1>5 DEF Slots, n

(* NextAt(i, p) is the only position of slot i in the lap that starts at p. *)
LEMMA NextAtIs ==
  ASSUME NEW p \in Nat, NEW q \in Nat, p <= q, q < p + SlotCount
  PROVE  NextAt(Slot(q), p) = q
<1> DEFINE n == SlotCount
           k == q \div n
<1> USE SlotCountAssumption
<1>1. k \in Int /\ q % n \in 0 .. n - 1 /\ q = n * k + (q % n)
  BY DivMod
<1>2. n * (-k) = -(n * k)
  BY <1>1
<1> HIDE DEF k
<1>3. (q % n) - p = n * (-k) + (q - p) /\ -k \in Int /\ q - p \in 0 .. n - 1 /\ (q % n) - p \in Int
  BY <1>1, <1>2
<1>4. ((q % n) - p) % n = q - p
  BY <1>3, RemainderUnique
<1> QED
  BY <1>4 DEF NextAt, Slot

(* Every slot has one in every lap.                                         *)
LEMMA NextAtType ==
  ASSUME NEW p \in Nat, NEW i \in Slots
  PROVE  /\ NextAt(i, p) \in p .. p + SlotCount - 1
         /\ Slot(NextAt(i, p)) = i
<1> DEFINE n == SlotCount
           k == (i - p) \div n
           r == (i - p) % n
<1> USE SlotCountAssumption
<1>1. i \in 0 .. n - 1 /\ i - p \in Int
  BY DEF Slots
<1>2. k \in Int /\ r \in 0 .. n - 1 /\ i - p = n * k + r
  BY <1>1, DivMod
<1>3. n * (-k) = -(n * k)
  BY <1>2
<1> HIDE DEF k, r
<1>4. p + r = n * (-k) + i /\ -k \in Int /\ p + r \in Int
  BY <1>1, <1>2, <1>3
<1>5. (p + r) % n = i
  BY <1>1, <1>4, RemainderUnique
<1> QED
  BY <1>2, <1>5 DEF NextAt, Slot, r

(* What the checks read off a slot that says "ready for p" or "p committed". *)
LEMMA SlotSays ==
  ASSUME NEW p \in Nat
  PROVE  /\ sequence[Slot(p)] = p =>
              /\ WellFormed(Slot(p))
              /\ FirstUnconsumed(Slot(p)) = p /\ FirstUncommitted(Slot(p)) = p
         /\ sequence[Slot(p)] = p + 1 =>
              /\ WellFormed(Slot(p))
              /\ FirstUnconsumed(Slot(p)) = p /\ FirstUncommitted(Slot(p)) = p + SlotCount
<1>1. /\ Slot(p) \in Nat /\ p >= Slot(p) /\ SlotCount \in Nat
      /\ (p - Slot(p)) % SlotCount = 0 /\ (p + 1 - Slot(p)) % SlotCount = 1
  BY SlotLaps, SlotCountAssumption DEF Slots
<1>2. CASE sequence[Slot(p)] = p
  BY <1>1, <1>2 DEF WellFormed, FirstUnconsumed, FirstUncommitted
<1>3. CASE sequence[Slot(p)] = p + 1
  <2>1. (sequence[Slot(p)] - Slot(p)) % SlotCount = 1
    BY <1>1, <1>3
  <2>2. WellFormed(Slot(p)) /\ FirstUnconsumed(Slot(p)) = p
    BY <1>1, <1>3, <2>1 DEF WellFormed, FirstUnconsumed
  <2>3. FirstUncommitted(Slot(p)) = p + SlotCount
    BY <1>1, <2>1, <2>2 DEF FirstUncommitted
  <2> QED
    BY <1>3, <2>2, <2>3
<1> QED
  BY <1>2, <1>3

-----------------------------------------------------------------------------
(* verify_consistent answers "quiescent" exactly.                           *)

LEMMA QuietVerifies ==
  ASSUME IInv, \A t \in Threads : ~Holds(t)
  PROVE  verify_consistent
<1> USE SlotCountAssumption
<1>1. head \in Nat /\ tail \in Nat /\ head <= tail /\ tail <= head + SlotCount
  BY DEF IInv, TypeOK, WindowBounded
<1>2. ASSUME NEW i \in Slots
      PROVE  WellFormed(i) /\ FirstUnconsumed(i) = NextAt(i, head)
             /\ FirstUncommitted(i) = NextAt(i, tail)
  <2> DEFINE p == NextAt(i, head)
  <2>1. p \in head .. head + SlotCount - 1 /\ p \in Nat /\ Slot(p) = i
    BY <1>1, NextAtType
  <2> HIDE DEF p
  <2>2. CASE p < tail
    <3>1. sequence[i] = p + 1
      BY <1>1, <2>1, <2>2 DEF IInv, NothingLost, Holds, Threads
    <3>2. NextAt(i, tail) = p + SlotCount
      <4>1. Slot(p + SlotCount) = i
        BY <2>1, SlotNextLap
      <4>2. p + SlotCount \in Nat /\ tail <= p + SlotCount /\ p + SlotCount < tail + SlotCount
        BY <1>1, <2>1, <2>2
      <4> QED
        BY <1>1, <4>1, <4>2, NextAtIs
    <3> QED
      BY <2>1, <3>1, <3>2, SlotSays DEF p
  <2>3. CASE p >= tail
    <3>1. sequence[i] = p
      BY <1>1, <2>1, <2>3 DEF IInv, FreeSlots, Holds, Threads
    <3>2. NextAt(i, tail) = p
      BY <1>1, <2>1, <2>3, NextAtIs
    <3> QED
      BY <2>1, <3>1, <3>2, SlotSays DEF p
  <2> QED
    BY <1>1, <2>1, <2>2, <2>3
<1> QED
  BY <1>1, <1>2 DEF verify_consistent

LEMMA VerifiesQuiet ==
  ASSUME IInv, verify_consistent, NEW t \in Threads
  PROVE  ~Holds(t)
<1> USE SlotCountAssumption
<1>1. head \in Nat /\ tail \in Nat
  BY DEF IInv, TypeOK
<1>2. CASE Writing(t)
  <2>1. pos[t] \in Nat /\ pos[t] < tail /\ sequence[Slot(pos[t])] = pos[t]
    BY <1>1, <1>2, WriterSlot DEF IInv, WritersHold, Writing
  <2>2. FirstUncommitted(Slot(pos[t])) = pos[t] /\ Slot(pos[t]) \in Slots
    BY <2>1, SlotSays, SlotType
  <2>3. NextAt(Slot(pos[t]), tail) >= tail
    BY <1>1, <2>2, NextAtType
  <2> QED
    BY <1>1, <2>1, <2>2, <2>3 DEF verify_consistent
<1>3. CASE Reading(t)
  <2>1. pos[t] \in Nat /\ pos[t] < head /\ sequence[Slot(pos[t])] = pos[t] + 1
    BY <1>1, <1>3, ReaderSlot DEF IInv, ReadersHold, Reading
  <2>2. FirstUnconsumed(Slot(pos[t])) = pos[t] /\ Slot(pos[t]) \in Slots
    BY <2>1, SlotSays, SlotType
  <2>3. NextAt(Slot(pos[t]), head) >= head
    BY <1>1, <2>2, NextAtType
  <2> QED
    BY <1>1, <2>1, <2>2, <2>3 DEF verify_consistent
<1> QED
  BY <1>2, <1>3 DEF Holds

(* The reconstructed counters are the least next positions of the slots.    *)
LEMMA LeastNext ==
  ASSUME NEW p \in Nat
  PROVE  Least({NextAt(i, p) : i \in Slots}) = p
<1> DEFINE S == {NextAt(i, p) : i \in Slots}
<1> USE SlotCountAssumption
<1>1. p \in S
  <2>1. Slot(p) \in Slots /\ NextAt(Slot(p), p) = p
    BY SlotType, NextAtIs
  <2> QED
    BY <2>1
<1>2. \A y \in S : y \in Int /\ p <= y
  BY NextAtType
<1> HIDE DEF S
<1>3. \A x \in S : (\A y \in S : x <= y) => x = p
  BY <1>1, <1>2
<1> QED
  BY <1>1, <1>2, <1>3 DEF Least, S

LEMMA InvVerify == IInv => VerifyExact
<1> SUFFICES ASSUME IInv PROVE VerifyExact
  OBVIOUS
<1>1. verify_consistent <=> \A t \in Threads : ~Holds(t)
  BY QuietVerifies, VerifiesQuiet
<1>2. ASSUME verify_consistent
      PROVE  derive_state = [head |-> head, tail |-> tail]
  <2>1. head \in Nat /\ tail \in Nat
    BY DEF IInv, TypeOK
  <2>2. \A i \in Slots : FirstUnconsumed(i) = NextAt(i, head)
                         /\ FirstUncommitted(i) = NextAt(i, tail)
    BY <1>2 DEF verify_consistent
  <2>3. /\ {FirstUnconsumed(i) : i \in Slots} = {NextAt(i, head) : i \in Slots}
        /\ {FirstUncommitted(i) : i \in Slots} = {NextAt(i, tail) : i \in Slots}
    BY <2>2
  <2>4. /\ Least({FirstUnconsumed(i) : i \in Slots}) = head
        /\ Least({FirstUncommitted(i) : i \in Slots}) = tail
    BY <2>1, <2>3, LeastNext
  <2> QED
    BY <2>4 DEF derive_state
<1> QED
  BY <1>1, <1>2 DEF VerifyExact

(* On a snapshot of the ring verify_consistent() accepts exactly the quiescent *)
(* rings, and derive_state() then rebuilds head_ and tail_ from the slots, for *)
(* every slot count: a crashed producer or consumer is always noticed.         *)
THEOREM RingVerify == Spec => []VerifyExact
BY RingInvariant, InvVerify, PTL

-----------------------------------------------------------------------------
(* Refusals.                                                                *)

(* A slot never lags behind a position that was claimed: not for the        *)
(* producers (p < tail), and not for the consumers (p < head).               *)
LEMMA SlotNotBehind ==
  ASSUME IInv, NEW p \in Nat, p < tail
  PROVE  /\ sequence[Slot(p)] \in Nat /\ sequence[Slot(p)] >= p
         /\ p < head => sequence[Slot(p)] >= p + 1
<1> USE SlotCountAssumption
<1>1. /\ head \in Nat /\ tail \in Nat /\ head <= tail /\ tail <= head + SlotCount
      /\ sequence[Slot(p)] \in Nat
  BY SlotType DEF IInv, TypeOK, WindowBounded
<1>2. CASE p >= head
  BY <1>1, <1>2 DEF IInv, NothingLost
<1>3. CASE p < head
  <2> DEFINE q == NextAt(Slot(p), head)
  <2>1. q \in head .. head + SlotCount - 1 /\ q \in Nat /\ Slot(q) = Slot(p)
    BY <1>1, SlotType, NextAtType
  <2> HIDE DEF q
  <2>2. p + SlotCount <= q
    BY <1>1, <1>3, <2>1, SlotApart
  <2>3. sequence[Slot(q)] \in {q, q + 1, q + 1 - SlotCount}
    BY <1>1, <2>1 DEF IInv, NothingLost, FreeSlots
  <2> QED
    BY <1>1, <2>1, <2>2, <2>3
<1> QED
  BY <1>1, <1>2, <1>3

(* Only the check of a thread itself ends its call from the check.          *)
LEMMA RefusalStep ==
  ASSUME IInv, Next
  PROVE  RefusalSound
<1> USE SlotCountAssumption
<1>0. head \in Nat /\ tail \in Nat /\ head <= tail /\ tail <= head + SlotCount
  BY DEF IInv, TypeOK, WindowBounded
<1>1. ASSUME NEW w \in Producers, pc[w] = "checkPush", pc'[w] = "idle"
      PROVE  \/ tail = head + SlotCount
             \/ \E c \in Consumers : Reading(c) /\ pos[c] + SlotCount = tail
  <2>1. PushCheck(w) /\ sequence[Slot(pos[w])] - pos[w] < 0
    BY <1>1, ThreadsAssumption
    DEF Next, Push, Pop, PushStart, PushLoadTail, PushCheck, PushClaim, PushClaimFails, PushWrite,
        PushCommit, PopStart, PopLoadHead, PopCheck, PopClaim, PopClaimFails, PopRead, PopRelease,
        PopCount, Goto, IInv, TypeOK, Threads
  <2>2. pos[w] \in Nat /\ pos[w] <= tail
    BY <1>1 DEF IInv, TypeOK, PushViews, Threads
  <2>3. pos[w] = tail
    BY <1>0, <2>1, <2>2, SlotNotBehind
  <2>4. CASE tail < head + SlotCount
    <3>1. sequence[Slot(tail)] # tail
      BY <1>0, <2>1, <2>3
    <3>2. PICK c \in Consumers : Reading(c) /\ pos[c] = tail - SlotCount
      BY <1>0, <2>4, <3>1 DEF IInv, FreeSlots
    <3> QED
      BY <1>0, <3>2
  <2> QED
    BY <1>0, <2>4
<1>2. ASSUME NEW c \in Consumers, pc[c] = "checkPop", pc'[c] = "idle"
      PROVE  head = tail \/ \E w \in Producers : Writing(w) /\ pos[w] = head
  <2>1. PopCheck(c) /\ sequence[Slot(pos[c])] - (pos[c] + 1) < 0
    BY <1>2, ThreadsAssumption
    DEF Next, Push, Pop, PushStart, PushLoadTail, PushCheck, PushClaim, PushClaimFails, PushWrite,
        PushCommit, PopStart, PopLoadHead, PopCheck, PopClaim, PopClaimFails, PopRead, PopRelease,
        PopCount, Goto, IInv, TypeOK, Threads
  <2>2. pos[c] \in Nat /\ pos[c] <= head
    BY <1>2 DEF IInv, TypeOK, PopViews, Threads
  <2>3. pos[c] = head
    BY <1>0, <2>1, <2>2, SlotNotBehind
  <2>4. CASE head < tail
    <3>1. sequence[Slot(head)] # head + 1
      BY <1>0, <2>1, <2>3
    <3> QED
      BY <1>0, <2>4, <3>1 DEF IInv, NothingLost
  <2> QED
    BY <1>0, <2>4
<1> QED
  BY <1>1, <1>2 DEF RefusalSound

(* try_push says "full" and try_pop says "empty" only when they are, or when  *)
(* the slot they need is inside another thread's window, however stale their  *)
(* view of the counters was.                                                  *)
THEOREM RingRefusals == Spec => RefusalsAreSound
<1>1. IInv /\ [Next]_vars => [RefusalSound]_vars
  BY RefusalStep
<1> QED
  BY <1>1, RingInvariant, PTL DEF Spec, RefusalsAreSound

-----------------------------------------------------------------------------
(* Corruption accounting.                                                   *)

Counting == {c \in Consumers : pc[c] \in {"read", "skip", "count"} /\ log[pos[c] + 1] \in BadCrc}
Corrupted == {p \in 0 .. head - 1 : log[p + 1] \in BadCrc}

(* The sets are finite because only finitely many threads have claimed.     *)
CountInv ==
  /\ IsFiniteSet(Counting) /\ IsFiniteSet(Corrupted)
  /\ corruption + Cardinality(Counting) = Cardinality(Corrupted)

LEMMA CountInit == Init => CountInv
<1> SUFFICES ASSUME Init PROVE CountInv
  OBVIOUS
<1>1. Counting = {} /\ Corrupted = {}
  BY DEF Init, Counting, Corrupted, Threads
<1> QED
  BY <1>1, FS_EmptySet DEF Init, CountInv

LEMMA CountStep == IInv /\ CountInv /\ [Next]_vars => CountInv'
<1> SUFFICES ASSUME IInv, CountInv, [Next]_vars PROVE CountInv'
  OBVIOUS
<1> USE ThreadsAssumption DEF Threads
<1>0. /\ head \in Nat /\ tail \in Nat /\ head <= tail /\ Len(log) = tail /\ corruption \in Nat
      /\ \A c \in Consumers :
           /\ pos[c] \in Nat
           /\ pc[c] \in {"read", "release", "skip", "count"} => pos[c] < head
  BY DEF IInv, TypeOK, WindowBounded, LogCoversClaims, ReadersHold, PopViews, Reading
<1>1. ASSUME NEW w \in Producers, Push(w)
      PROVE  CountInv'
  <2>1. head' = head /\ corruption' = corruption
        /\ \A c \in Consumers : pc'[c] = pc[c] /\ pos'[c] = pos[c]
    BY <1>1 DEF Push, PushStart, PushLoadTail, PushCheck, PushClaim, PushClaimFails, PushWrite,
                PushCommit, Goto, IInv, TypeOK
  <2>2. \A p \in 0 .. tail - 1 : log'[p + 1] = log[p + 1]
    <3>1. \/ log' = log
          \/ log' = Append(log, arg[w])
      BY <1>1 DEF Push, PushStart, PushLoadTail, PushCheck, PushClaim, PushClaimFails, PushWrite,
                  PushCommit
    <3>2. log \in Seq(Items)
      BY DEF IInv, TypeOK
    <3> QED
      BY <1>0, <3>1, <3>2
  <2>3. Counting' = Counting
    BY <1>0, <2>1, <2>2 DEF Counting
  <2>4. Corrupted' = Corrupted
    BY <1>0, <2>1, <2>2 DEF Corrupted
  <2> QED
    BY <2>1, <2>3, <2>4 DEF CountInv
<1>2. ASSUME NEW c \in Consumers, PopClaim(c)
      PROVE  CountInv'
  <2>1. /\ head = pos[c] /\ head' = head + 1 /\ UNCHANGED <<pos, log, corruption>>
        /\ pc' = [pc EXCEPT ![c] = "read"] /\ pc[c] = "casHead"
    BY <1>2 DEF PopClaim, Goto
  <2>2. CASE log[head + 1] \in BadCrc
    <3>1. Counting' = Counting \cup {c} /\ c \notin Counting
      BY <2>1, <2>2 DEF Counting, IInv, TypeOK
    <3>2. Corrupted' = Corrupted \cup {head} /\ head \notin Corrupted
      BY <1>0, <2>1, <2>2 DEF Corrupted
    <3>3. /\ IsFiniteSet(Counting') /\ Cardinality(Counting') = Cardinality(Counting) + 1
          /\ IsFiniteSet(Corrupted') /\ Cardinality(Corrupted') = Cardinality(Corrupted) + 1
          /\ Cardinality(Counting) \in Nat /\ Cardinality(Corrupted) \in Nat
      BY <3>1, <3>2, FS_AddElement, FS_CardinalityType DEF CountInv
    <3> QED
      BY <1>0, <2>1, <3>3 DEF CountInv
  <2>3. CASE log[head + 1] \notin BadCrc
    <3>1. Counting' = Counting
      BY <2>1, <2>3 DEF Counting, IInv, TypeOK
    <3>2. Corrupted' = Corrupted
      BY <1>0, <2>1, <2>3 DEF Corrupted
    <3> QED
      BY <2>1, <3>1, <3>2 DEF CountInv
  <2> QED
    BY <2>2, <2>3
<1>3. ASSUME NEW c \in Consumers, PopCount(c)
      PROVE  CountInv'
  <2>1. /\ corruption' = corruption + 1 /\ UNCHANGED <<head, pos, log>>
        /\ pc' = [pc EXCEPT ![c] = "idle"] /\ pc[c] = "count"
    BY <1>3 DEF PopCount, Goto
  <2>2. log[pos[c] + 1] \in BadCrc
    BY <2>1 DEF IInv, DeliveredAsPushed
  <2>3. Counting' = Counting \ {c} /\ c \in Counting
    BY <2>1, <2>2 DEF Counting, IInv, TypeOK
  <2>4. Corrupted' = Corrupted
    BY <2>1 DEF Corrupted
  <2>5. /\ IsFiniteSet(Counting') /\ Cardinality(Counting') = Cardinality(Counting) - 1
        /\ Cardinality(Counting) \in Nat
    BY <2>3, FS_RemoveElement, FS_CardinalityType DEF CountInv
  <2> QED
    BY <1>0, <2>1, <2>4, <2>5 DEF CountInv
<1>4. ASSUME NEW c \in Consumers, PopRead(c)
      PROVE  CountInv'
  <2>1. UNCHANGED <<head, pos, log, corruption>> /\ pc[c] = "read"
        /\ payload[Slot(pos[c])] = log[pos[c] + 1]
    BY <1>4 DEF PopRead, IInv, ReadersHold, Reading
  <2>2. \/ log[pos[c] + 1] \in BadCrc /\ pc' = [pc EXCEPT ![c] = "skip"]
        \/ log[pos[c] + 1] \notin BadCrc /\ pc' = [pc EXCEPT ![c] = "release"]
    BY <1>4, <2>1 DEF PopRead, Goto
  <2>3. Counting' = Counting
    BY <2>1, <2>2 DEF Counting, IInv, TypeOK
  <2> QED
    BY <2>1, <2>3 DEF CountInv, Corrupted
<1>5. ASSUME NEW c \in Consumers, PopStart(c) \/ PopLoadHead(c) \/ PopCheck(c) \/ PopClaimFails(c)
                                  \/ PopRelease(c)
      PROVE  CountInv'
  <2>1. UNCHANGED <<head, log, corruption>>
        /\ \A b \in Consumers \ {c} : pc'[b] = pc[b] /\ pos'[b] = pos[b]
    BY <1>5 DEF PopStart, PopLoadHead, PopCheck, PopClaimFails, PopRelease, Goto, IInv, TypeOK
  <2>2. \/ /\ pc[c] \notin {"read", "skip", "count"}
           /\ pc'[c] \notin {"read", "skip", "count"}
        \/ pc[c] = "skip" /\ pc'[c] = "count" /\ pos' = pos
    BY <1>5 DEF PopStart, PopLoadHead, PopCheck, PopClaimFails, PopRelease, Goto, IInv, TypeOK
  <2>3. Counting' = Counting
    BY <2>1, <2>2 DEF Counting
  <2> QED
    BY <2>1, <2>3 DEF CountInv, Corrupted
<1>6. CASE UNCHANGED vars
  BY <1>6 DEF vars, CountInv, Counting, Corrupted
<1> QED
  BY <1>1, <1>2, <1>3, <1>4, <1>5, <1>6 DEF Next, Pop

(* corruption_count_ is exact: every position whose CRC does not match is      *)
(* counted once by the consumer that claimed it, with any number of consumers. *)
THEOREM RingCorruption == Spec => []CorruptionCounted
<1>1. CountInv => CorruptionCounted
  BY DEF CountInv, CorruptionCounted, Counting, Corrupted
<1> QED
  BY <1>1, CountInit, CountStep, RingInvariant, PTL DEF Spec

-----------------------------------------------------------------------------
(* The ring implements the bounded FIFO queue.                              *)

(* The refinement mapping, by name.                                         *)
QueueOf == SubSeq(log, head + 1, tail)
TakenOf == [c \in Consumers |-> IF pc[c] \in {"read", "skip", "count"}
                                THEN log[pos[c] + 1] ELSE NoItem]
OutOf == [c \in Consumers |-> arg[c]]

(* Taking the first item off a stretch of the log.                          *)
LEMMA SubSeqFront ==
  ASSUME NEW S, NEW s \in Seq(S), NEW i \in Nat, NEW j \in Nat, 1 <= i, i <= j, j <= Len(s)
  PROVE  /\ SubSeq(s, i, j) # <<>> /\ Head(SubSeq(s, i, j)) = s[i]
         /\ Tail(SubSeq(s, i, j)) = SubSeq(s, i + 1, j)
<1> DEFINE t == SubSeq(s, i, j)
           u == SubSeq(s, i + 1, j)
<1>1. /\ t \in Seq(S) /\ Len(t) = j - i + 1
      /\ \A k \in 1 .. j - i + 1 : t[k] = s[i + k - 1]
  OBVIOUS
<1>2. /\ u \in Seq(S) /\ Len(u) = j - i
      /\ \A k \in 1 .. j - i : u[k] = s[i + 1 + k - 1]
  OBVIOUS
<1> HIDE DEF t, u
<1>3. t # <<>> /\ Head(t) = t[1] /\ t[1] = s[i]
  BY <1>1
<1>4. Tail(t) \in Seq(S) /\ Len(Tail(t)) = j - i /\ \A k \in 1 .. j - i : Tail(t)[k] = t[k + 1]
  BY <1>1, <1>3
<1>5. Tail(t) = u
  <2>1. ASSUME NEW k \in 1 .. j - i
        PROVE  Tail(t)[k] = u[k]
    <3>1. k \in Int /\ k + 1 \in 1 .. j - i + 1 /\ i + (k + 1) - 1 = i + 1 + k - 1
      OBVIOUS
    <3>2. t[k + 1] = s[i + (k + 1) - 1]
      BY <1>1, <3>1
    <3>3. u[k] = s[i + 1 + k - 1] /\ Tail(t)[k] = t[k + 1]
      BY <1>2, <1>4
    <3> QED
      BY <3>1, <3>2, <3>3
  <2> QED
    BY <1>2, <1>4, <2>1
<1> QED
  BY <1>3, <1>5 DEF t, u

LEMMA QueueInit == Init => Queue!Init
<1> SUFFICES ASSUME Init PROVE Queue!Init
  OBVIOUS
<1>1. SubSeq(log, head + 1, tail) = <<>>
  BY DEF Init
<1> QED
  BY <1>1 DEF Init, Queue!Init, Threads

(* Steps that move neither counter and keep the consumers' items.           *)
LEMMA QueueStutter ==
  ASSUME UNCHANGED <<head, tail, log, corruption>>,
         \A c \in Consumers :
           /\ arg'[c] = arg[c]
           /\ \/ pc'[c] = pc[c] /\ pos'[c] = pos[c]
              \/ pc[c] \notin {"read", "skip", "count"} /\ pc'[c] \notin {"read", "skip", "count"}
              \/ /\ pc[c] \in {"read", "skip", "count"} /\ pc'[c] \in {"read", "skip", "count"}
                 /\ pos'[c] = pos[c]
  PROVE  UNCHANGED Queue!qvars
<1>1. TakenOf' = TakenOf /\ OutOf' = OutOf /\ QueueOf' = QueueOf
  BY DEF TakenOf, OutOf, QueueOf
<1> QED
  BY <1>1 DEF Queue!qvars, TakenOf, OutOf, QueueOf

LEMMA QueuePush ==
  ASSUME IInv, NEW w \in Producers, Push(w)
  PROVE  [Queue!Next]_Queue!qvars
<1> USE SlotCountAssumption, ThreadsAssumption DEF Threads
<1>1. \A c \in Consumers : pc'[c] = pc[c] /\ pos'[c] = pos[c] /\ arg'[c] = arg[c]
  BY DEF Push, PushStart, PushLoadTail, PushCheck, PushClaim, PushClaimFails, PushWrite, PushCommit,
         Goto, IInv, TypeOK
<1>2. CASE PushClaim(w)
  <2>1. /\ tail \in Nat /\ head \in Nat /\ head <= tail /\ tail' = tail + 1 /\ Len(log) = tail
        /\ head' = head /\ corruption' = corruption /\ log \in Seq(Items) /\ arg[w] \in Items
        /\ log' = Append(log, arg[w])
    BY <1>2 DEF PushClaim, IInv, TypeOK, WindowBounded, LogCoversClaims, PushViews
  <2>2. tail' <= head' + SlotCount
    <3>1. IInv'
      BY StepInv DEF Next
    <3> QED
      BY <3>1 DEF IInv, WindowBounded
  <2>3. QueueOf' = Append(QueueOf, arg[w]) /\ Len(QueueOf) < SlotCount
    BY <2>1, <2>2 DEF QueueOf
  <2>4. TakenOf' = TakenOf /\ OutOf' = OutOf
    <3>1. ASSUME NEW c \in Consumers, pc[c] \in {"read", "skip", "count"}
          PROVE  log'[pos[c] + 1] = log[pos[c] + 1]
      <4>1. pos[c] \in Nat /\ pos[c] < head
        BY <3>1 DEF IInv, TypeOK, ReadersHold, PopViews, Reading
      <4> QED
        BY <2>1, <4>1
    <3> QED
      BY <1>1, <3>1 DEF TakenOf, OutOf
  <2>5. Queue!Enqueue(arg[w])
    BY <2>1, <2>3, <2>4 DEF Queue!Enqueue, QueueOf, TakenOf, OutOf
  <2> QED
    BY <2>1, <2>5 DEF Queue!Next
<1>3. CASE ~PushClaim(w)
  <2>1. UNCHANGED <<head, tail, log, corruption>>
    BY <1>3 DEF Push, PushStart, PushLoadTail, PushCheck, PushClaimFails, PushWrite, PushCommit
  <2> QED
    BY <1>1, <2>1, QueueStutter
<1> QED
  BY <1>2, <1>3

LEMMA QueuePop ==
  ASSUME IInv, NEW c \in Consumers, Pop(c)
  PROVE  [Queue!Next]_Queue!qvars
<1> USE SlotCountAssumption, ThreadsAssumption DEF Threads
<1>1. /\ tail \in Nat /\ head \in Nat /\ head <= tail /\ Len(log) = tail /\ log \in Seq(Items)
      /\ \A b \in Consumers \ {c} : pc'[b] = pc[b] /\ pos'[b] = pos[b] /\ arg'[b] = arg[b]
      /\ tail' = tail /\ log' = log
  BY DEF Pop, PopStart, PopLoadHead, PopCheck, PopClaim, PopClaimFails, PopRead, PopRelease, PopCount,
         Goto, IInv, TypeOK, WindowBounded, LogCoversClaims
<1>2. CASE PopStart(c)
  <2>1. /\ arg' = [arg EXCEPT ![c] = NoItem] /\ UNCHANGED <<head, corruption, pos>>
        /\ pc[c] = "idle" /\ pc'[c] = "loadHead"
    BY <1>2 DEF PopStart, Goto, IInv, TypeOK
  <2>2. OutOf' = [OutOf EXCEPT ![c] = NoItem]
    BY <2>1 DEF OutOf, IInv, TypeOK
  <2>3. TakenOf' = TakenOf /\ QueueOf' = QueueOf
    BY <1>1, <2>1 DEF TakenOf, QueueOf
  <2>4. Queue!Ask(c)
    BY <2>1, <2>2, <2>3 DEF Queue!Ask, QueueOf, TakenOf, OutOf
  <2> QED
    BY <2>4 DEF Queue!Next
<1>3. CASE PopClaim(c)
  <2>1. /\ head = pos[c] /\ head' = head + 1 /\ UNCHANGED <<corruption, pos, arg>>
        /\ pc[c] = "casHead" /\ pc'[c] = "read"
    BY <1>3 DEF PopClaim, Goto, IInv, TypeOK
  <2>2. head' <= tail
    <3>1. IInv'
      BY StepInv DEF Next
    <3> QED
      BY <1>1, <3>1 DEF IInv, WindowBounded
  <2>3. QueueOf # <<>> /\ Head(QueueOf) = log[head + 1] /\ QueueOf' = Tail(QueueOf)
    <3>1. head + 1 \in Nat /\ 1 <= head + 1 /\ head + 1 <= tail /\ tail <= Len(log)
      BY <1>1, <2>1, <2>2
    <3>2. /\ QueueOf # <<>> /\ Head(QueueOf) = log[head + 1]
          /\ Tail(QueueOf) = SubSeq(log, (head + 1) + 1, tail)
      BY <1>1, <3>1, SubSeqFront DEF QueueOf
    <3> QED
      BY <1>1, <2>1, <3>2 DEF QueueOf
  <2>4. TakenOf[c] = NoItem /\ TakenOf' = [TakenOf EXCEPT ![c] = log[head + 1]] /\ OutOf' = OutOf
    BY <1>1, <2>1 DEF TakenOf, OutOf
  <2>5. Queue!Take(c)
    BY <2>1, <2>3, <2>4 DEF Queue!Take, QueueOf, TakenOf, OutOf
  <2> QED
    BY <2>5 DEF Queue!Next
<1>4. CASE PopRead(c)
  <2>1. /\ UNCHANGED <<head, corruption, pos>> /\ pc[c] = "read" /\ pos[c] \in Nat /\ pos[c] < tail
        /\ payload[Slot(pos[c])] = log[pos[c] + 1]
    BY <1>1, <1>4 DEF PopRead, IInv, TypeOK, ReadersHold, Reading, WindowBounded
  <2>2. CASE log[pos[c] + 1] \in BadCrc
    <3>1. pc'[c] = "skip" /\ arg'[c] = arg[c]
      BY <1>4, <2>1, <2>2 DEF PopRead, Goto, IInv, TypeOK
    <3> QED
      BY <1>1, <2>1, <3>1, QueueStutter
  <2>3. CASE log[pos[c] + 1] \notin BadCrc
    <3>1. pc'[c] = "release" /\ arg' = [arg EXCEPT ![c] = log[pos[c] + 1]]
      BY <1>4, <2>1, <2>3 DEF PopRead, Goto, IInv, TypeOK
    <3>2. TakenOf[c] = log[pos[c] + 1] /\ TakenOf[c] \in Items \ BadCrc
      BY <1>1, <2>1, <2>3 DEF TakenOf
    <3>3. /\ OutOf' = [OutOf EXCEPT ![c] = TakenOf[c]]
          /\ TakenOf' = [TakenOf EXCEPT ![c] = NoItem]
          /\ QueueOf' = QueueOf
      BY <1>1, <2>1, <3>1, <3>2 DEF TakenOf, OutOf, QueueOf, IInv, TypeOK
    <3>4. Queue!Deliver(c)
      BY <2>1, <3>2, <3>3 DEF Queue!Deliver, QueueOf, TakenOf, OutOf
    <3> QED
      BY <3>4 DEF Queue!Next
  <2> QED
    BY <2>2, <2>3
<1>5. CASE PopCount(c)
  <2>1. /\ UNCHANGED <<head, pos, arg>> /\ corruption' = corruption + 1
        /\ pc[c] = "count" /\ pc'[c] = "idle" /\ log[pos[c] + 1] \in BadCrc
    BY <1>5 DEF PopCount, Goto, IInv, TypeOK, DeliveredAsPushed
  <2>2. TakenOf[c] \in BadCrc
    BY <2>1 DEF TakenOf
  <2>3. TakenOf' = [TakenOf EXCEPT ![c] = NoItem] /\ OutOf' = OutOf /\ QueueOf' = QueueOf
    BY <1>1, <2>1 DEF TakenOf, OutOf, QueueOf
  <2>4. Queue!Drop(c)
    BY <2>1, <2>2, <2>3 DEF Queue!Drop, QueueOf, TakenOf, OutOf
  <2> QED
    BY <2>4 DEF Queue!Next
<1>6. CASE PopLoadHead(c) \/ PopCheck(c) \/ PopClaimFails(c) \/ PopRelease(c)
  <2>1. /\ UNCHANGED <<head, corruption, arg>>
        /\ \/ pc[c] \notin {"read", "skip", "count"} /\ pc'[c] \notin {"read", "skip", "count"}
           \/ pc[c] = "skip" /\ pc'[c] = "count" /\ pos' = pos
    BY <1>6 DEF PopLoadHead, PopCheck, PopClaimFails, PopRelease, Goto, IInv, TypeOK
  <2> QED
    BY <1>1, <2>1, QueueStutter
<1> QED
  BY <1>2, <1>3, <1>4, <1>5, <1>6 DEF Pop

(* Every behaviour of the lock-free ring is a behaviour of the bounded FIFO     *)
(* queue, with a push taking effect at its claim on tail_ and a pop at its      *)
(* claim on head_, for every capacity and any number of threads.                *)
THEOREM RingRefinesQueue == Spec => ImplementsQueue
<1>1. IInv /\ [Next]_vars => [Queue!Next]_Queue!qvars
  <2> SUFFICES ASSUME IInv, [Next]_vars PROVE [Queue!Next]_Queue!qvars
    OBVIOUS
  <2>1. CASE UNCHANGED vars
    BY <2>1, QueueStutter DEF vars
  <2>2. CASE Next
    BY <2>2, QueuePush, QueuePop DEF Next
  <2> QED
    BY <2>1, <2>2
<1> QED
  BY <1>1, QueueInit, RingInvariant, PTL DEF Spec, ImplementsQueue, Queue!Spec
=============================================================================
