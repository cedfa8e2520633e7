------------------------ MODULE RegionIntegrityProofs -----------------------
(***************************************************************************)
(* The integrity word for every set of writers and every number of pushes:  *)
(* it is never ahead of the sequence, it only advances, and it is           *)
(* consistent when everybody is done, the last two if the loads keep their   *)
(* program order.                                                           *)
(***************************************************************************)
EXTENDS RegionIntegrity, TLAPS

(* Distinct sequences have distinct checksums.                              *)
LEMMA HInjective ==
  ASSUME NEW s, NEW r, H(s) = H(r)
  PROVE  s = r
BY DEF H

LEMMA IntegrityInit == IInit => IntegrityInv
<1> SUFFICES ASSUME IInit PROVE IntegrityInv
  OBVIOUS
<1> USE IntegrityAssumption DEF IInit
<1>1. 0 \in 0 .. MaxSeq /\ H(0) \in {H(s) : s \in 0 .. MaxSeq}
  OBVIOUS
<1>2. ITypeOK
  BY <1>1 DEF ITypeOK
<1>3. NoneAhead
  BY HInjective DEF NoneAhead
<1> QED
  BY <1>2, <1>3 DEF IntegrityInv, CopiesOrdered, SomebodyResponsible

(* A step of a refresh, a push or a death keeps the types.                   *)
LEMMA IntegrityTypes ==
  ASSUME ITypeOK, INext
  PROVE  ITypeOK'
<1> USE IntegrityAssumption DEF ITypeOK
<1>1. 0 \in 0 .. MaxSeq /\ H(0) \in {H(s) : s \in 0 .. MaxSeq}
  OBVIOUS
<1>2. CASE Transfer
  BY <1>2 DEF Transfer, Step, Processes
<1>3. ASSUME NEW p \in Processes, Add(p)
      PROVE  ITypeOK'
  BY <1>3 DEF Add, Step
<1>4. ASSUME NEW p \in Processes, LoadWord(p) \/ LoadSeq(p)
      PROVE  ITypeOK'
  BY <1>4 DEF LoadWord, LoadSeq, Step
<1>5. ASSUME NEW p \in Processes, Covered(p) \/ Die(p)
      PROVE  ITypeOK'
  BY <1>1, <1>5 DEF Covered, Die, Leave
<1>6. ASSUME NEW p \in Processes, Store(p)
      PROVE  ITypeOK'
  BY <1>1, <1>6 DEF Store, Leave
<1>7. ASSUME NEW p \in Processes, StoreFails(p)
      PROVE  ITypeOK'
  BY <1>7 DEF StoreFails, Step
<1> QED
  BY <1>2, <1>3, <1>4, <1>5, <1>6, <1>7 DEF INext

(* Only a store changes the word, and in program order it moves it forward.  *)
LEMMA StoreAdvances ==
  ASSUME IntegrityInv, NEW p \in Processes, Store(p), in_order,
         NEW s \in 0 .. MaxSeq, integrity_word = H(s)
  PROVE  s <= seq[p] /\ integrity_word' = H(seq[p])
BY DEF IntegrityInv, CopiesOrdered, Store

LEMMA IntegrityStep ==
  ASSUME IntegrityInv, [INext]_ivars
  PROVE  IntegrityInv'
<1> USE IntegrityAssumption DEF IntegrityInv
<1>1. CASE UNCHANGED ivars
  BY <1>1 DEF ivars, ITypeOK, NoneAhead, CopiesOrdered, SomebodyResponsible
<1>2. CASE Transfer
  <2>1. ITypeOK'
    BY <1>2, IntegrityTypes DEF INext
  <2> USE <1>2 DEF Transfer, Step, ITypeOK, Processes
  <2>2. NoneAhead'
    BY DEF NoneAhead
  <2>3. CopiesOrdered'
    BY DEF CopiesOrdered
  <2>4. SomebodyResponsible'
    BY DEF SomebodyResponsible
  <2> QED
    BY <2>1, <2>2, <2>3, <2>4
<1>3. ASSUME NEW p \in Processes, Add(p)
      PROVE  IntegrityInv'
  <2>1. ITypeOK'
    BY <1>3, IntegrityTypes DEF INext
  <2> USE <1>3 DEF Add, Step, ITypeOK
  <2>2. NoneAhead'
    BY DEF NoneAhead
  <2>3. CopiesOrdered'
    BY DEF CopiesOrdered
  <2>4. SomebodyResponsible'
    BY DEF SomebodyResponsible
  <2> QED
    BY <2>1, <2>2, <2>3, <2>4
<1>4. ASSUME NEW p \in Processes, LoadWord(p)
      PROVE  IntegrityInv'
  <2>1. ITypeOK'
    BY <1>4, IntegrityTypes DEF INext
  <2> USE <1>4 DEF LoadWord, Step, ITypeOK
  <2>2. NoneAhead'
    BY DEF NoneAhead
  <2>3. CopiesOrdered'
    BY HInjective DEF CopiesOrdered
  <2>4. SomebodyResponsible'
    BY DEF SomebodyResponsible, CopiesOrdered
  <2> QED
    BY <2>1, <2>2, <2>3, <2>4
<1>5. ASSUME NEW p \in Processes, LoadSeq(p)
      PROVE  IntegrityInv'
  <2>1. ITypeOK'
    BY <1>5, IntegrityTypes DEF INext
  <2> USE <1>5 DEF LoadSeq, Step, ITypeOK
  <2>2. NoneAhead'
    BY DEF NoneAhead
  <2>3. CopiesOrdered'
    BY DEF CopiesOrdered, NoneAhead
  <2>4. SomebodyResponsible'
    BY DEF SomebodyResponsible
  <2> QED
    BY <2>1, <2>2, <2>3, <2>4
<1>6. ASSUME NEW p \in Processes, Covered(p)
      PROVE  IntegrityInv'
  <2>1. ITypeOK'
    BY <1>6, IntegrityTypes DEF INext
  <2> USE <1>6 DEF Covered, Leave, ITypeOK
  <2>2. NoneAhead'
    BY DEF NoneAhead
  <2>3. CopiesOrdered'
    BY DEF CopiesOrdered
  <2>4. ASSUME in_order, seq[p] = global_seq
        PROVE  integrity_word = H(global_seq)
    BY <2>4 DEF CopiesOrdered, NoneAhead
  <2>5. SomebodyResponsible'
    BY <2>4 DEF SomebodyResponsible
  <2> QED
    BY <2>1, <2>2, <2>3, <2>5
<1>7. ASSUME NEW p \in Processes, Store(p)
      PROVE  IntegrityInv'
  <2>1. ITypeOK'
    BY <1>7, IntegrityTypes DEF INext
  <2>0. \A s \in 0 .. MaxSeq : in_order /\ integrity_word = H(s) => s <= seq[p]
    BY <1>7, StoreAdvances
  <2> USE <1>7 DEF Store, Leave, ITypeOK
  <2>2. NoneAhead'
    BY HInjective DEF NoneAhead
  <2>3. CopiesOrdered'
    BY <2>0, HInjective DEF CopiesOrdered
  <2>4. ASSUME in_order, integrity_word = H(global_seq)
        PROVE  seq[p] = global_seq
    BY <2>4, <2>0 DEF NoneAhead
  <2>5. SomebodyResponsible'
    BY <2>4 DEF SomebodyResponsible
  <2> QED
    BY <2>1, <2>2, <2>3, <2>5
<1>8. ASSUME NEW p \in Processes, StoreFails(p)
      PROVE  IntegrityInv'
  <2>1. ITypeOK'
    BY <1>8, IntegrityTypes DEF INext
  <2> USE <1>8 DEF StoreFails, Step, ITypeOK
  <2>2. NoneAhead'
    BY DEF NoneAhead
  <2>3. CopiesOrdered'
    BY DEF CopiesOrdered
  <2>4. SomebodyResponsible'
    BY DEF SomebodyResponsible
  <2> QED
    BY <2>1, <2>2, <2>3, <2>4
<1>9. ASSUME NEW p \in Processes, Die(p)
      PROVE  IntegrityInv'
  <2>1. ITypeOK'
    BY <1>9, IntegrityTypes DEF INext
  <2> USE <1>9 DEF Die, Leave, ITypeOK
  <2>2. NoneAhead'
    BY DEF NoneAhead
  <2>3. CopiesOrdered'
    BY DEF CopiesOrdered
  <2>4. SomebodyResponsible'
    BY DEF SomebodyResponsible
  <2> QED
    BY <2>1, <2>2, <2>3, <2>4
<1> QED
  BY <1>1, <1>2, <1>3, <1>4, <1>5, <1>6, <1>7, <1>8, <1>9 DEF INext

(* The copies of word and sequence are ordered as they were loaded, and an     *)
(* outdated word has a process that will notice it.                            *)
THEOREM IntegrityInvariant == ISpec => []IntegrityInv
BY IntegrityInit, IntegrityStep, PTL DEF ISpec

(* The word refresh_region_integrity leaves is never ahead of global_seq, and  *)
(* it is the checksum of global_seq whenever no refresh is under way.          *)
THEOREM IntegrityConsistent == ISpec => []WordConsistent
<1>1. IntegrityInv => WordConsistent
  <2> SUFFICES ASSUME IntegrityInv PROVE WordConsistent
    OBVIOUS
  <2>1. WordNeverAhead
    BY IntegrityAssumption DEF IntegrityInv, ITypeOK, NoneAhead, WordNeverAhead
  <2>2. ConsistentAtQuiescence
    BY DEF IntegrityInv, SomebodyResponsible, ConsistentAtQuiescence, Quiescent
  <2> QED
    BY <2>1, <2>2 DEF IntegrityInv, WordConsistent
<1> QED
  BY <1>1, IntegrityInvariant, PTL

(* In program order a store never replaces the checksum of a later sequence by  *)
(* that of an earlier one.                                                     *)
THEOREM IntegrityAdvances == ISpec => WordAdvances
<1> DEFINE Forward == \A s, r \in 0 .. MaxSeq :
             (in_order /\ integrity_word = H(s) /\ integrity_word' = H(r)) => s <= r
<1>1. IntegrityInv /\ [INext]_ivars => [Forward]_ivars
  <2> SUFFICES ASSUME IntegrityInv, INext, NEW s \in 0 .. MaxSeq, NEW r \in 0 .. MaxSeq,
                      in_order, integrity_word = H(s), integrity_word' = H(r)
               PROVE  s <= r
    OBVIOUS
  <2>1. CASE integrity_word' = integrity_word
    BY <2>1, IntegrityAssumption DEF H
  <2>2. ASSUME NEW p \in Processes, Store(p)
        PROVE  s <= r
    BY <2>2, StoreAdvances, HInjective, IntegrityAssumption
  <2> QED
    BY <2>1, <2>2
    DEF INext, Transfer, Add, LoadWord, LoadSeq, Covered, StoreFails, Die
<1> QED
  BY <1>1, IntegrityInvariant, PTL DEF ISpec, WordAdvances
=============================================================================
