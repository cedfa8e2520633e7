------------------------- MODULE ObservabilityProofs ------------------------
(***************************************************************************)
(* What the event log, its writers, the perturbation harness and the daemon *)
(* promise, for any number of invocations, targets, records, faults and     *)
(* restarts.                                                                *)
(***************************************************************************)
EXTENDS Observability, FiniteSetTheorems, TLAPS

-----------------------------------------------------------------------------
(* Least and greatest of a set of positions.                                 *)

LEMMA LeastOf ==
  ASSUME NEW S \in SUBSET Nat, S # {}
  PROVE  Min(S) \in S /\ \A y \in S : Min(S) <= y
<1> DEFINE T == {0 .. x : x \in S}
<1>1. T \subseteq FiniteSubsetsOf(Nat) /\ T # {}
  <2>1. \A x \in S : IsFiniteSet(0 .. x) /\ 0 .. x \in SUBSET Nat
    BY FS_Interval
  <2> QED
    BY <2>1 DEF FiniteSubsetsOf
<1>2. PICK A \in T : \A B \in T : ~(<<B, A>> \in StrictSubsetOrdering(Nat))
  BY <1>1, FS_StrictSubsetOrderingWellFounded, WFMin
<1>3. PICK x \in S : A = 0 .. x
  BY <1>2
<1>4. ASSUME NEW y \in S, ~(x <= y)
      PROVE  FALSE
  <2>1. 0 .. y \in T /\ 0 .. y \subseteq 0 .. x /\ x \notin 0 .. y /\ x \in 0 .. x
    BY <1>4
  <2> HIDE DEF T
  <2>2. 0 .. y \in SUBSET Nat /\ 0 .. x \in SUBSET Nat
    OBVIOUS
  <2>3. 0 .. y # 0 .. x
    BY <2>1
  <2> QED
    BY <1>2, <1>3, <2>1, <2>2, <2>3 DEF StrictSubsetOrdering
<1> QED
  BY <1>4 DEF Min

LEMMA GreatestOf ==
  ASSUME NEW S \in SUBSET Nat, S # {}, NEW n \in Nat, \A y \in S : y <= n
  PROVE  Max(S) \in S /\ \A y \in S : Max(S) >= y
<1> DEFINE T == {n - y : y \in S}
<1>1. T \in SUBSET Nat /\ T # {}
  <2>1. \A y \in S : n - y \in Nat
    OBVIOUS
  <2> QED
    BY <2>1
<1>2. PICK x \in S : Min(T) = n - x
  BY <1>1, LeastOf
<1>3. \A y \in S : n - x <= n - y
  BY <1>1, <1>2, LeastOf
<1>4. \A y \in S : x >= y
  BY <1>3
<1> QED
  BY <1>4 DEF Max

(* A set of the first n positions is finite.                                  *)
LEMMA PositionsFinite ==
  ASSUME NEW n \in Nat, NEW S \in SUBSET (1 .. n)
  PROVE  IsFiniteSet(S) /\ Cardinality(S) \in Nat
<1>1. IsFiniteSet(1 .. n)
  BY FS_Interval
<1>2. IsFiniteSet(S)
  BY <1>1, FS_Subset
<1> QED
  BY <1>2, FS_CardinalityType

LEMMA NumberedFinite ==
  ASSUME NEW k, NEW n \in Nat
  PROVE  IsFiniteSet(Numbered(k, n)) /\ Cardinality(Numbered(k, n)) \in Nat
BY PositionsFinite DEF Numbered

LEMMA FragmentsFinite ==
  ASSUME NEW what, NEW n \in Nat
  PROVE  IsFiniteSet(Fragments(what, n)) /\ Cardinality(Fragments(what, n)) \in Nat
BY PositionsFinite DEF Fragments

-----------------------------------------------------------------------------
(* Lines.                                                                     *)

LEMMA LineEndIs ==
  ASSUME file \in Seq(Fragment), NEW p \in Nat, HasLine(p)
  PROVE  /\ LineEnd(p) \in p + 1 .. Len(file) /\ file[LineEnd(p)].cut = "none"
         /\ \A i \in p + 1 .. LineEnd(p) - 1 : file[i].cut # "none"
<1> DEFINE S == {i \in p + 1 .. Len(file) : file[i].cut = "none"}
<1>1. S \in SUBSET Nat /\ S # {}
  BY DEF HasLine
<1>2. Min(S) \in S /\ \A y \in S : Min(S) <= y
  BY <1>1, LeastOf
<1>3. PICK e \in S : e = LineEnd(p) /\ \A y \in S : e <= y
  BY <1>2 DEF LineEnd
<1> QED
  BY <1>3

LEMMA FoundIs ==
  ASSUME file \in Seq(Fragment), NEW p \in Nat, HasLine(p), NEW before, "none" \notin before
  PROVE  \E d \in p + 1 .. LineEnd(p) :
           /\ Found(p, before) = file[d] /\ file[d].cut \notin before
           /\ \A i \in p + 1 .. d - 1 : file[i].cut \in before
<1> DEFINE S == {i \in p + 1 .. LineEnd(p) : file[i].cut \notin before}
<1>1. LineEnd(p) \in S /\ S \in SUBSET Nat
  BY LineEndIs
<1>2. Min(S) \in S /\ \A y \in S : Min(S) <= y
  BY <1>1, LeastOf
<1>3. PICK d \in S : d = Min(S) /\ \A y \in S : d <= y
  BY <1>2
<1>4. ASSUME NEW i \in p + 1 .. d - 1
      PROVE  file[i].cut \in before
  <2>1. LineEnd(p) \in Nat /\ d \in Nat /\ d <= LineEnd(p)
    BY <1>1, <1>3
  <2>2. i \in p + 1 .. LineEnd(p) /\ ~(d <= i)
    BY <2>1
  <2> QED
    BY <1>3, <2>2
<1> QED
  BY <1>3, <1>4 DEF Found

(* The fragments that give a line its key, its number and its event.          *)
LEMMA FieldsAt ==
  ASSUME file \in Seq(Fragment), NEW p \in Nat, HasLine(p)
  PROVE  \E d, n, e \in p + 1 .. LineEnd(p) :
           /\ Decisive(p) = file[d] /\ Counting(p) = file[n] /\ Naming(p) = file[e]
           /\ d <= n /\ d <= e /\ file[d].cut # "head"
           /\ file[d].cut = "number" => n = d
<1>1. PICK d \in p + 1 .. LineEnd(p) :
        /\ Decisive(p) = file[d] /\ file[d].cut \notin {"head"}
        /\ \A i \in p + 1 .. d - 1 : file[i].cut \in {"head"}
  BY FoundIs DEF Decisive
<1>2. PICK n \in p + 1 .. LineEnd(p) :
        /\ Counting(p) = file[n] /\ file[n].cut \notin {"head", "level", "name", "key"}
        /\ \A i \in p + 1 .. n - 1 : file[i].cut \in {"head", "level", "name", "key"}
  BY FoundIs DEF Counting
<1>3. PICK e \in p + 1 .. LineEnd(p) :
        /\ Naming(p) = file[e] /\ file[e].cut \notin {"head", "level", "name", "key", "number", "seq"}
  BY FoundIs DEF Naming
<1>4. LineEnd(p) \in Nat /\ d \in Nat /\ n \in Nat /\ e \in Nat
  BY LineEndIs
<1>5. d <= n /\ d <= e
  BY <1>1, <1>2, <1>3, <1>4
<1>6. file[d].cut = "number" => n = d
  BY <1>2, <1>4, <1>5
<1> QED
  BY <1>1, <1>2, <1>3, <1>5, <1>6

(* A complete record ends the line that starts after the one before.          *)
LEMMA LineOf ==
  ASSUME file \in Seq(Fragment), NEW e \in DOMAIN file, file[e].cut = "none"
  PROVE  \E p \in LineStarts : p \in Nat /\ p < e /\ HasLine(p) /\ LineEnd(p) = e
<1> DEFINE S == {0} \cup {i \in 1 .. e - 1 : file[i].cut = "none"}
<1>1. S \in SUBSET Nat /\ S # {} /\ e \in Nat /\ \A y \in S : y <= e
  OBVIOUS
<1>2. Max(S) \in S /\ \A y \in S : Max(S) >= y
  <2> HIDE DEF S
  <2> QED
    BY <1>1, GreatestOf
<1>3. PICK p \in S : \A y \in S : p >= y
  BY <1>2
<1>4. p \in Nat /\ p < e /\ HasLine(p)
  BY <1>3 DEF HasLine
<1>5. LineEnd(p) \in p + 1 .. Len(file) /\ file[LineEnd(p)].cut = "none"
  BY <1>4, LineEndIs
<1>6. LineEnd(p) = e
  <2>1. \A i \in p + 1 .. e - 1 : file[i].cut # "none"
    BY <1>3, <1>4
  <2>2. \A i \in p + 1 .. LineEnd(p) - 1 : file[i].cut # "none"
    BY <1>4, LineEndIs
  <2> QED
    BY <1>4, <1>5, <2>1, <2>2
<1>7. p \in LineStarts
  BY <1>3, <1>4 DEF LineStarts
<1> QED
  BY <1>4, <1>6, <1>7

LEMMA StartsNat ==
  ASSUME file \in Seq(Fragment), NEW p \in LineStarts
  PROVE  p \in Nat /\ p <= Len(file) /\ HasLine(p)
BY DEF LineStarts

(* In a log whose cuts swallow nothing a line that parses is its last record.   *)
LEMMA LineParses ==
  ASSUME file \in Seq(Fragment), FragmentsKnown, hurt \cap Swallows = {},
         NEW p \in Nat, HasLine(p), ~BadLine(p),
         hurt \subseteq Cuts \cup {"write", "fsync", "read", "flush", "overlap"}
  PROVE  /\ Decisive(p) = file[LineEnd(p)] /\ Counting(p) = file[LineEnd(p)]
         /\ Naming(p) = file[LineEnd(p)]
<1>1. PICK d, n, e \in p + 1 .. LineEnd(p) :
        /\ Decisive(p) = file[d] /\ Counting(p) = file[n] /\ Naming(p) = file[e]
        /\ d <= n /\ d <= e /\ file[d].cut # "head"
        /\ file[d].cut = "number" => n = d
  BY FieldsAt
<1>2. LineEnd(p) \in p + 1 .. Len(file) /\ \A i \in p + 1 .. LineEnd(p) - 1 : file[i].cut # "none"
  BY LineEndIs
<1>3. d \in DOMAIN file /\ file[d].cut # "level" /\ file[d].cut # "number"
  BY <1>1, <1>2 DEF BadLine
<1>4. file[d] \in Fragment
  BY <1>3
<1>5. file[d].cut = "none"
  BY <1>1, <1>3, <1>4 DEF FragmentsKnown, Fragment, Cuts, Swallows
<1>6. d = LineEnd(p) /\ n = d /\ e = d
  BY <1>1, <1>2, <1>5
<1> QED
  BY <1>1, <1>6

-----------------------------------------------------------------------------
(* The recovery scan.                                                          *)

LEMMA HighestType ==
  ASSUME file \in Seq(Fragment), NumbersBounded, NEW k
  PROVE  Highest(k) \in 0 .. Len(file)
<1> DEFINE Q == {q \in LineStarts : parse_event_record(q).key = k}
           S == {0} \cup {parse_event_record(p).seq : p \in Q}
<1>1. ASSUME NEW p \in LineStarts
      PROVE  parse_event_record(p).seq \in 0 .. Len(file)
  <2>1. p \in Nat /\ HasLine(p)
    BY StartsNat
  <2>2. PICK d \in p + 1 .. LineEnd(p) : Counting(p) = file[d]
    BY <2>1, FieldsAt
  <2>3. LineEnd(p) \in p + 1 .. Len(file)
    BY <2>1, LineEndIs
  <2>4. d \in DOMAIN file /\ file[d] \in Fragment
    BY <2>1, <2>2, <2>3
  <2> QED
    BY <2>2, <2>4 DEF parse_event_record, NumbersBounded, Fragment
<1>2. S \in SUBSET Nat /\ S # {} /\ \A y \in S : y <= Len(file)
  BY <1>1
<1>3. Len(file) \in Nat /\ Highest(k) = Max(S)
  BY DEF Highest
<1> HIDE DEF S
<1>4. Max(S) \in S
  BY <1>2, <1>3, GreatestOf
<1>5. PICK h \in S : h = Max(S)
  BY <1>4
<1>6. h \in 0 .. Len(file)
  BY <1>2, <1>3
<1> QED
  BY <1>3, <1>5, <1>6

(* How the complete records of a key are counted.                               *)
LEMMA NumberedGrows ==
  ASSUME NEW k, NEW m \in Nat, NEW n \in Nat, m <= n
  PROVE  /\ Cardinality(Numbered(k, m)) <= Cardinality(Numbered(k, n))
         /\ (\A i \in m + 1 .. n : i \notin Numbered(k, i)) => Numbered(k, n) = Numbered(k, m)
<1>1. Numbered(k, m) \subseteq Numbered(k, n)
  BY DEF Numbered
<1>2. Cardinality(Numbered(k, m)) <= Cardinality(Numbered(k, n))
  BY <1>1, NumberedFinite, FS_Subset
<1>3. ASSUME \A i \in m + 1 .. n : i \notin Numbered(k, i)
      PROVE  Numbered(k, n) = Numbered(k, m)
  <2>1. ASSUME NEW i \in Numbered(k, n)
        PROVE  i \in Numbered(k, m)
    BY <1>3, <2>1 DEF Numbered
  <2> QED
    BY <1>1, <2>1
<1> QED
  BY <1>2, <1>3

LEMMA NumberedNext ==
  ASSUME NEW k, NEW n \in Nat
  PROVE  Cardinality(Numbered(k, n + 1)) =
           IF file[n + 1].cut = "none" /\ file[n + 1].key = k THEN Cardinality(Numbered(k, n)) + 1
                                                            ELSE Cardinality(Numbered(k, n))
<1>1. Numbered(k, n + 1) =
        IF file[n + 1].cut = "none" /\ file[n + 1].key = k THEN Numbered(k, n) \cup {n + 1}
                                                         ELSE Numbered(k, n)
  BY DEF Numbered
<1>2. n + 1 \notin Numbered(k, n)
  BY DEF Numbered
<1> QED
  BY <1>1, <1>2, NumberedFinite, FS_AddElement

LEMMA UnbrokenCuts ==
  ASSUME NEW k, Unbroken(k)
  PROVE  hurt \cap Swallows = {} /\ "fsync" \notin hurt
BY DEF Unbroken

LEMMA HighestRank ==
  ASSUME LogTypeOK, FragmentsKnown, NumbersBounded, NEW k \in LogKeys, Unbroken(k), Ranked(k),
         \A p \in LineStarts : ~BadLine(p)
  PROVE  Highest(k) = Cardinality(Numbered(k, Len(file)))
<1> DEFINE Q == {q \in LineStarts : parse_event_record(q).key = k}
           S == {0} \cup {parse_event_record(p).seq : p \in Q}
           N == Cardinality(Numbered(k, Len(file)))
<1>1. file \in Seq(Fragment) /\ Len(file) \in Nat /\ N \in Nat
  BY NumberedFinite DEF LogTypeOK
<1>2. ASSUME NEW p \in LineStarts
      PROVE  LET e == LineEnd(p) IN
             /\ e \in DOMAIN file /\ file[e].cut = "none"
             /\ parse_event_record(p).key = file[e].key /\ parse_event_record(p).seq = file[e].seq
  <2>1. p \in Nat /\ HasLine(p) /\ ~BadLine(p)
    BY <1>1, <1>2, StartsNat
  <2>2. LineEnd(p) \in DOMAIN file /\ file[LineEnd(p)].cut = "none"
    BY <1>1, <2>1, LineEndIs
  <2>3. Decisive(p) = file[LineEnd(p)] /\ Counting(p) = file[LineEnd(p)]
    BY <1>1, <2>1, UnbrokenCuts, LineParses DEF LogTypeOK
  <2> QED
    BY <2>2, <2>3 DEF parse_event_record
<1>3. \A y \in S : y \in Nat /\ y <= N
  <2>1. ASSUME NEW p \in Q
        PROVE  parse_event_record(p).seq \in Nat /\ parse_event_record(p).seq <= N
    <3>1. PICK e \in DOMAIN file : /\ file[e].cut = "none" /\ file[e].key = k
                                   /\ parse_event_record(p).seq = file[e].seq
      BY <1>2
    <3>2. e \in Nat /\ e <= Len(file) /\ e \in Numbered(k, e)
      BY <1>1, <3>1 DEF Numbered
    <3>3. file[e].seq = Cardinality(Numbered(k, e))
      BY <3>2, <3>1 DEF Ranked
    <3> QED
      BY <1>1, <3>1, <3>2, <3>3, NumberedGrows, NumberedFinite
  <2> QED
    BY <1>1, <2>1
<1>4. N \in S
  <2>1. CASE Numbered(k, Len(file)) = {}
    BY <2>1, FS_EmptySet
  <2>2. CASE Numbered(k, Len(file)) # {}
    <3> DEFINE M == Numbered(k, Len(file))
    <3>1. M \in SUBSET Nat /\ \A y \in M : y <= Len(file)
      BY <1>1 DEF Numbered
    <3>2. PICK e \in M : \A y \in M : e >= y
      <4> HIDE DEF M
      <4> QED
        BY <1>1, <2>2, <3>1, GreatestOf DEF M
    <3>3. e \in DOMAIN file /\ file[e].cut = "none" /\ file[e].key = k /\ e \in Numbered(k, e)
      BY <1>1, <3>2 DEF Numbered
    <3>4. M = Numbered(k, e)
      BY <1>1, <3>2, <3>3 DEF Numbered
    <3>5. file[e].seq = N
      BY <3>3, <3>4 DEF Ranked
    <3>6. PICK p \in LineStarts : LineEnd(p) = e
      BY <1>1, <3>3, LineOf
    <3>7. p \in Q /\ parse_event_record(p).seq = N
      BY <1>2, <3>3, <3>5, <3>6
    <3> QED
      BY <3>7
  <2> QED
    BY <2>1, <2>2
<1>5. Highest(k) = Max(S)
  BY DEF Highest
<1> HIDE DEF S, N
<1>6. \A x \in S : (\A y \in S : x >= y) => x = N
  BY <1>3, <1>4
<1>7. \A y \in S : N >= y
  BY <1>1, <1>3
<1>8. Max(S) = N
  BY <1>4, <1>6, <1>7 DEF Max
<1> QED
  BY <1>5, <1>8 DEF N

-----------------------------------------------------------------------------
(* The steps of the log.                                                        *)

LEMMA WriterKeys ==
  /\ \A w \in Writers : KeyOf(w) \in LogKeys
  /\ \A w \in Writers : KeyOf(w) = "supervisor" <=> w = "supervisor"
  /\ \A w \in Invocations : w \in Writers /\ KeyOf(w) = "perturb"
  /\ "supervisor" \in Writers /\ KeyOf("supervisor") = "supervisor"
BY LogAssumption DEF Writers, KeyOf, LogKeys

LEMMA UnbrokenBefore ==
  ASSUME hurt \subseteq hurt', NEW k, Unbroken(k)'
  PROVE  Unbroken(k)
BY DEF Unbroken

LEMMA LogSame ==
  ASSUME LogInd, UNCHANGED <<file, writer>>, hurt \subseteq hurt'
  PROVE  LogInd'
<1>1. FragmentsKnown' /\ NumbersBounded'
  BY DEF LogInd, FragmentsKnown, NumbersBounded
<1>2. ASSUME NEW k \in LogKeys, Unbroken(k)'
      PROVE  Ranked(k)'
  <2>1. Ranked(k)
    BY <1>2, UnbrokenBefore DEF LogInd
  <2> QED
    BY <2>1 DEF Ranked, Numbered
<1> QED
  BY <1>1, <1>2 DEF LogInd

LEMMA LogCloses ==
  ASSUME LogTypeOK, LogInd, NEW w \in Writers, Close(w), UNCHANGED file, hurt \subseteq hurt'
  PROVE  LogInd' /\ writer' \in [Writers -> [open : BOOLEAN, next : Nat]]
<1>0. writer' \in [Writers -> [open : BOOLEAN, next : Nat]]
  BY DEF LogTypeOK, Close, Closed
<1>1. \A v \in Writers : writer'[v].open => writer[v].open /\ writer'[v] = writer[v]
  BY DEF LogTypeOK, Close, Closed
<1>2. FragmentsKnown' /\ NumbersBounded'
  BY <1>1 DEF LogInd, FragmentsKnown, NumbersBounded
<1>3. ASSUME NEW k \in LogKeys, Unbroken(k)'
      PROVE  Ranked(k)'
  <2>1. Ranked(k)
    BY <1>3, UnbrokenBefore DEF LogInd
  <2>2. \A n : Numbered(k, n)' = Numbered(k, n)
    BY DEF Numbered
  <2> QED
    BY <1>1, <2>1, <2>2 DEF Ranked
<1> QED
  BY <1>0, <1>2, <1>3 DEF LogInd

LEMMA LogOpens ==
  ASSUME LogTypeOK, LogInd, NEW w \in Writers, Open(w), UNCHANGED file, hurt \subseteq hurt',
         w \in Invocations /\ (\E b \in Invocations \ {w} : writer[b].open) => "overlap" \in hurt'
  PROVE  LogInd' /\ writer' \in [Writers -> [open : BOOLEAN, next : Nat]]
<1>1. file \in Seq(Fragment) /\ Len(file) \in Nat
  BY DEF LogTypeOK
<1>2. Highest(KeyOf(w)) \in 0 .. Len(file)
  BY <1>1, HighestType DEF LogInd
<1>3. /\ writer' \in [Writers -> [open : BOOLEAN, next : Nat]]
      /\ writer'[w].open /\ writer'[w].next = Highest(KeyOf(w)) + 1
      /\ \A v \in Writers \ {w} : writer'[v] = writer[v]
  BY <1>1, <1>2 DEF LogTypeOK, Open
<1>4. FragmentsKnown' /\ NumbersBounded'
  BY <1>1, <1>2, <1>3 DEF LogInd, FragmentsKnown, NumbersBounded
<1>5. ASSUME NEW k \in LogKeys, Unbroken(k)'
      PROVE  Ranked(k)'
  <2>1. Unbroken(k) /\ Ranked(k)
    BY <1>5, UnbrokenBefore DEF LogInd
  <2>2. \A n : Numbered(k, n)' = Numbered(k, n)
    BY DEF Numbered
  <2>3. CASE KeyOf(w) # k
    BY <1>3, <2>1, <2>2, <2>3 DEF Ranked
  <2>4. CASE KeyOf(w) = k
    <3>1. writer'[w].next = Cardinality(Numbered(k, Len(file))) + 1
      BY <1>3, <2>1, <2>4, HighestRank DEF LogInd, Open
    <3>2. ASSUME NEW v \in Writers, KeyOf(v) = k, v # w, writer[v].open
          PROVE  FALSE
      <4>1. w \in Invocations /\ v \in Invocations /\ k = "perturb"
        BY <2>4, <3>2, WriterKeys, LogAssumption DEF Writers, KeyOf
      <4> QED
        BY <1>5, <3>2, <4>1 DEF Unbroken
    <3>3. \A v \in Writers : KeyOf(v) = k /\ writer'[v].open => v = w
      BY <1>3, <3>2
    <3> QED
      BY <2>1, <2>2, <3>1, <3>3 DEF Ranked
  <2> QED
    BY <2>3, <2>4
<1> QED
  BY <1>3, <1>4, <1>5 DEF LogInd

(* Appending a fragment changes nothing before it.                              *)
LEMMA Appended ==
  ASSUME file \in Seq(Fragment), NEW f \in Fragment, file' = Append(file, f)
  PROVE  /\ file' \in Seq(Fragment) /\ Len(file') = Len(file) + 1 /\ Len(file) \in Nat
         /\ \A i \in 1 .. Len(file) : file'[i] = file[i]
         /\ file'[Len(file) + 1] = f
         /\ DOMAIN file' = 1 .. Len(file) + 1 /\ DOMAIN file = 1 .. Len(file)
         /\ \A k, n : n \in 0 .. Len(file) => Numbered(k, n)' = Numbered(k, n)
         /\ \A what, n : n \in 0 .. Len(file) => Fragments(what, n)' = Fragments(what, n)
<1>1. /\ file' \in Seq(Fragment) /\ Len(file') = Len(file) + 1 /\ Len(file) \in Nat
      /\ \A i \in 1 .. Len(file) : file'[i] = file[i]
      /\ file'[Len(file) + 1] = f
      /\ DOMAIN file' = 1 .. Len(file) + 1 /\ DOMAIN file = 1 .. Len(file)
  OBVIOUS
<1>2. ASSUME NEW k, NEW n \in 0 .. Len(file)
      PROVE  Numbered(k, n)' = Numbered(k, n) /\ Fragments(k, n)' = Fragments(k, n)
  <2>1. \A i \in 1 .. n : file'[i] = file[i]
    BY <1>1
  <2> QED
    BY <2>1 DEF Numbered, Fragments
<1> QED
  BY <1>1, <1>2

(* What an append leaves of its writer: the next number, the same one after a   *)
(* failure, or nothing.                                                         *)
WriterAfter(w, cut) ==
  \/ cut = "none" /\ writer' = [writer EXCEPT ![w].next = @ + 1]
  \/ (cut # "none" \/ "fsync" \in hurt') /\ writer' = writer
  \/ Close(w)

LEMMA LogAppends ==
  ASSUME LogTypeOK, LogInd, NEW w \in Writers, writer[w].open,
         NEW what \in {"loss", "other", "applied"}, what = "applied" <=> KeyOf(w) = "perturb",
         NEW cut \in Cuts \cup {"none"}, cut = "none" \/ cut \in hurt', hurt \subseteq hurt',
         NEW seq \in 1 .. writer[w].next, cut = "none" => seq = writer[w].next,
         file' = Append(file, NewRecord(w, what, cut, seq)), WriterAfter(w, cut)
  PROVE  /\ LogInd' /\ NewRecord(w, what, cut, seq) \in Fragment
         /\ writer' \in [Writers -> [open : BOOLEAN, next : Nat]]
<1> DEFINE f == NewRecord(w, what, cut, seq)
<1>0. PICK m \in Nat : m = Len(file) + 1
  BY DEF LogTypeOK
<1>1. file \in Seq(Fragment) /\ writer \in [Writers -> [open : BOOLEAN, next : Nat]]
  BY DEF LogTypeOK
<1>2. writer[w].next \in 1 .. m /\ KeyOf(w) \in LogKeys
  BY <1>0, <1>1, WriterKeys DEF LogInd, NumbersBounded
<1>3. /\ f \in Fragment /\ f.key = KeyOf(w) /\ f.seq = seq /\ f.cut = cut /\ f.what = what
      /\ seq \in 1 .. m
  BY <1>0, <1>2 DEF NewRecord, Fragment
<1> HIDE DEF f
<1>4. /\ file' \in Seq(Fragment) /\ Len(file') = m
      /\ \A i \in 1 .. Len(file) : file'[i] = file[i]
      /\ file'[m] = f /\ DOMAIN file' = 1 .. m /\ DOMAIN file = 1 .. Len(file)
      /\ \A k, n : n \in 0 .. Len(file) => Numbered(k, n)' = Numbered(k, n)
  BY <1>0, <1>1, <1>3, Appended DEF f
<1>5. /\ writer' \in [Writers -> [open : BOOLEAN, next : Nat]]
      /\ \A v \in Writers \ {w} : writer'[v] = writer[v]
      /\ writer'[w].open =>
           \/ writer'[w].next = writer[w].next + 1 /\ cut = "none"
           \/ writer'[w].next = writer[w].next /\ (cut # "none" \/ "fsync" \in hurt')
  <2>1. CASE cut = "none" /\ writer' = [writer EXCEPT ![w].next = @ + 1]
    BY <1>1, <1>2, <2>1
  <2>2. CASE (cut # "none" \/ "fsync" \in hurt') /\ writer' = writer
    BY <1>1, <2>2
  <2>3. CASE Close(w)
    BY <1>1, <2>3 DEF Close, Closed
  <2> QED
    BY <2>1, <2>2, <2>3 DEF WriterAfter
<1>6. FragmentsKnown'
  BY <1>3, <1>4 DEF LogInd, FragmentsKnown, Fragment, LogKeys
<1>7. NumbersBounded'
  <2>1. \A i \in DOMAIN file' : file'[i].seq <= i
    BY <1>0, <1>2, <1>3, <1>4 DEF LogInd, NumbersBounded
  <2>2. ASSUME NEW v \in Writers, writer'[v].open
        PROVE  writer'[v].next \in 1 .. Len(file') + 1
    <3>1. CASE v = w
      BY <1>2, <1>4, <1>5, <2>2, <3>1
    <3>2. CASE v # w
      <4>1. writer[v].next \in 1 .. m
        BY <1>0, <1>5, <2>2, <3>2 DEF LogInd, NumbersBounded
      <4> QED
        BY <1>2, <1>4, <1>5, <3>2, <4>1
    <3> QED
      BY <3>1, <3>2
  <2> QED
    BY <2>1, <2>2 DEF NumbersBounded
<1>8. ASSUME NEW k \in LogKeys, Unbroken(k)'
      PROVE  Ranked(k)'
  <2> DEFINE N == Cardinality(Numbered(k, Len(file)))
             N2 == Cardinality(Numbered(k, m)')
  <2>1. Unbroken(k) /\ Ranked(k) /\ "fsync" \notin hurt'
    BY <1>8, UnbrokenBefore DEF LogInd, Unbroken
  <2>2. Len(file) \in Nat /\ N \in Nat
    BY <1>1, NumberedFinite
  <2>3. Numbered(k, m)' = IF cut = "none" /\ KeyOf(w) = k THEN Numbered(k, Len(file)) \cup {m}
                                                        ELSE Numbered(k, Len(file))
    BY <1>0, <1>3, <1>4, <2>2 DEF Numbered
  <2>4. N2 = IF cut = "none" /\ KeyOf(w) = k THEN N + 1 ELSE N
    <3>1. m \notin Numbered(k, Len(file))
      BY <1>0, <2>2 DEF Numbered
    <3>2. IsFiniteSet(Numbered(k, Len(file)))
      BY <2>2, NumberedFinite
    <3>3. CASE cut = "none" /\ KeyOf(w) = k
      <4>1. Numbered(k, m)' = Numbered(k, Len(file)) \cup {m}
        BY <2>3, <3>3
      <4>2. Cardinality(Numbered(k, Len(file)) \cup {m}) = N + 1
        BY <3>1, <3>2, FS_AddElement
      <4> QED
        BY <3>3, <4>1, <4>2
    <3>4. CASE ~(cut = "none" /\ KeyOf(w) = k)
      <4>1. Numbered(k, m)' = Numbered(k, Len(file))
        BY <2>3, <3>4
      <4> QED
        BY <3>4, <4>1
    <3> QED
      BY <3>3, <3>4
  <2>5. \A v \in Writers : KeyOf(v) = k /\ writer[v].open =>
          writer[v].next = N + 1 /\ \A u \in Writers : KeyOf(u) = k /\ writer[u].open => u = v
    BY <2>1 DEF Ranked
  <2>6. \A i \in DOMAIN file' : i \in Numbered(k, i)' => file'[i].seq = Cardinality(Numbered(k, i)')
    <3>1. ASSUME NEW i \in 1 .. Len(file), i \in Numbered(k, i)'
          PROVE  file'[i].seq = Cardinality(Numbered(k, i)')
      <4>1. Numbered(k, i)' = Numbered(k, i) /\ file'[i] = file[i] /\ i \in DOMAIN file
        BY <1>4, <2>2
      <4> QED
        BY <2>1, <3>1, <4>1 DEF Ranked
    <3>2. ASSUME m \in Numbered(k, m)'
          PROVE  file'[m].seq = N2
      <4>1. cut = "none" /\ KeyOf(w) = k
        <5>1. m \notin Numbered(k, Len(file))
          BY <1>0, <2>2 DEF Numbered
        <5> QED
          BY <2>3, <3>2, <5>1
      <4> QED
        BY <1>3, <1>4, <2>4, <2>5, <4>1
    <3> QED
      BY <1>0, <1>4, <2>2, <3>1, <3>2
  <2>7. \A v \in Writers : KeyOf(v) = k /\ writer'[v].open =>
          writer'[v].next = N2 + 1 /\ \A u \in Writers : KeyOf(u) = k /\ writer'[u].open => u = v
    <3>1. \A v \in Writers : writer'[v].open => writer[v].open
      BY <1>5
    <3>2. ASSUME NEW v \in Writers, KeyOf(v) = k, writer'[v].open
          PROVE  writer'[v].next = N2 + 1
      <4>1. CASE v = w
        <5>1. writer[w].next = N + 1
          BY <2>5, <3>2, <4>1
        <5> QED
          BY <1>5, <2>1, <2>2, <2>4, <3>2, <4>1, <5>1
      <4>2. CASE v # w
        <5>1. KeyOf(w) # k
          BY <2>5, <3>1, <3>2, <4>2
        <5> QED
          BY <1>5, <2>4, <2>5, <3>1, <3>2, <4>2, <5>1
      <4> QED
        BY <4>1, <4>2
    <3> QED
      BY <2>5, <3>1, <3>2
  <2> HIDE DEF N, N2
  <2>8. Len(file') = m
    BY <1>4
  <2> QED
    BY <2>6, <2>7, <2>8 DEF Ranked, N2
<1> QED
  BY <1>3, <1>5, <1>6, <1>7, <1>8 DEF LogInd, f

-----------------------------------------------------------------------------
(* The harness.                                                                 *)

LEMMA ActorNames ==
  /\ "replay" \in Actors /\ "replay" \notin Invocations /\ "none" \notin Invocations
  /\ \A a \in Invocations : a \in Actors /\ a # "replay"
  /\ \A a \in Actors : a # "replay" => a \in Invocations
BY PerturbAssumption DEF Actors

LEMMA MoveIs ==
  ASSUME PTypeOK, NEW a \in Actors, NEW step \in PSteps, Move(a, step)
  PROVE  /\ actor' \in [Actors -> ActorRecord]
         /\ actor'[a].pc = step /\ actor'[a].cat = actor[a].cat /\ actor'[a].to = actor[a].to
         /\ actor'[a].second = actor[a].second /\ actor'[a].logging = actor[a].logging
         /\ \A b \in Actors \ {a} : actor'[b] = actor[b]
BY DEF PTypeOK, ActorRecord, Move

(* What one actor does leaves the others alone.                                 *)
Others(a) == \A b \in Actors \ {a} : actor'[b] = actor[b] /\ sent'[b] = sent[b]

LEMMA SignalSent ==
  ASSUME PTypeOK, NEW a \in Actors, SendSignal(a)
  PROVE  /\ PTypeOK' /\ Others(a) /\ UNCHANGED <<out, replay>>
         /\ actor'[a].cat = actor[a].cat /\ actor'[a].to = actor[a].to
         /\ actor'[a].second = actor[a].second /\ actor'[a].logging = actor[a].logging
         /\ actor[a].pc \in {"signal", "fallback", "second"}
         /\ \/ /\ sent'[a] = Append(sent[a], <<actor[a].cat, Victim(a)>>)
               /\ actor'[a].pc = Delivered(a)
            \/ sent'[a] = sent[a] /\ actor'[a].pc = Failed(a)
<1>1. actor[a] \in ActorRecord /\ Victim(a) \in Targets /\ <<actor[a].cat, Victim(a)>> \in Categories \X Targets
  BY DEF PTypeOK, ActorRecord, Victim
<1>2. Delivered(a) \in PSteps /\ Failed(a) \in PSteps
  BY DEF Delivered, Failed, PSteps
<1>3. UNCHANGED <<out, replay>> /\ actor[a].pc \in {"signal", "fallback", "second"}
  BY DEF SendSignal
<1>4. CASE /\ sent' = [sent EXCEPT ![a] = Append(@, <<actor[a].cat, Victim(a)>>)]
           /\ target' = IF actor[a].cat \in Fatal THEN [target EXCEPT ![Victim(a)] = "dying"] ELSE target
           /\ Move(a, Delivered(a))
  <2>1. sent' \in [Actors -> Seq(Categories \X Targets)]
    <3>1. Append(sent[a], <<actor[a].cat, Victim(a)>>) \in Seq(Categories \X Targets)
      BY <1>1 DEF PTypeOK
    <3> QED
      BY <1>4, <3>1 DEF PTypeOK
  <2>2. target' \in [Targets -> {"running", "dying", "gone"}]
    BY <1>1, <1>4 DEF PTypeOK
  <2>3. PTypeOK'
    BY <1>2, <1>3, <1>4, <2>1, <2>2, MoveIs DEF PTypeOK
  <2> QED
    BY <1>2, <1>3, <1>4, <2>3, MoveIs DEF PTypeOK, Others
<1>5. CASE Move(a, Failed(a)) /\ UNCHANGED <<sent, target>>
  <2>1. PTypeOK'
    BY <1>2, <1>3, <1>5, MoveIs DEF PTypeOK
  <2> QED
    BY <1>2, <1>3, <1>5, <2>1, MoveIs DEF PTypeOK, Others
<1> QED
  BY <1>4, <1>5 DEF SendSignal

LEMMA HarnessKept ==
  ASSUME PTypeOK, Signalled, Recorded, UNCHANGED out, hurt \subseteq hurt',
         \A b \in Invocations : actor'[b] = actor[b] /\ sent'[b] = sent[b]
  PROVE  Signalled' /\ Recorded'
<1>1. Signalled'
  BY DEF Signalled
<1>2. Recorded'
  BY DEF Recorded
<1> QED
  BY <1>1, <1>2

LEMMA ReplayKept ==
  ASSUME ReplayAt, ReplaySent, ReplayFaithful, ReplayNeverEarly, UNCHANGED replay,
         actor'["replay"] = actor["replay"], sent'["replay"] = sent["replay"]
  PROVE  ReplayAt' /\ ReplaySent' /\ ReplayFaithful' /\ ReplayNeverEarly'
<1>1. \A n : Planned(n)' = Planned(n)
  BY DEF Planned
<1>2. Taken' = Taken
  BY DEF Taken
<1>3. ReplayAt' /\ ReplayNeverEarly'
  BY <1>2 DEF ReplayAt, ReplayNeverEarly, Acting, Offset
<1>4. ReplaySent'
  BY <1>1, <1>2 DEF ReplaySent
<1>5. ReplayFaithful'
  BY <1>1 DEF ReplayFaithful, Place, Call
<1> QED
  BY <1>3, <1>4, <1>5

(* An invocation that has not recorded yet has no entry, and the entries of the  *)
(* others stay as they are.                                                      *)
LEMMA NotRecorded ==
  ASSUME PTypeOK, Recorded, NEW a \in Invocations,
         actor[a].pc \notin {"log", "append", "exit0"}, NEW i \in DOMAIN out
  PROVE  out[i].by # a
BY DEF Recorded

LEMMA SendHonest ==
  ASSUME PTypeOK, Signalled, Recorded, NEW a \in Invocations, SendSignal(a), hurt \subseteq hurt'
  PROVE  Signalled' /\ Recorded'
<1>1. a \in Actors /\ \A b \in Invocations : b \in Actors
  BY ActorNames
<1>2. /\ PTypeOK' /\ Others(a) /\ UNCHANGED <<out, replay>>
      /\ actor'[a].cat = actor[a].cat /\ actor'[a].to = actor[a].to
      /\ actor'[a].second = actor[a].second /\ actor'[a].logging = actor[a].logging
      /\ actor[a].pc \in {"signal", "fallback", "second"}
      /\ \/ /\ sent'[a] = Append(sent[a], <<actor[a].cat, Victim(a)>>)
            /\ actor'[a].pc = Delivered(a)
         \/ sent'[a] = sent[a] /\ actor'[a].pc = Failed(a)
  BY <1>1, SignalSent
<1>3. actor[a].pc \notin {"log", "append", "exit0"} /\ actor'[a].pc \notin {"log", "append", "exit0"}
  BY <1>2 DEF Delivered, Failed
<1>4. \A b \in Invocations : b # a => actor'[b] = actor[b] /\ sent'[b] = sent[b]
  BY <1>1, <1>2 DEF Others
<1>5. Recorded'
  <2>1. \A i \in DOMAIN out : out[i].by # a
    BY <1>3, NotRecorded
  <2> QED
    BY <1>2, <1>3, <1>4, <2>1 DEF Recorded
<1>6. Signalled'
  <2>1. /\ actor'[a].pc \notin {"next", "refused", "idle", "signal", "log", "append", "exit0"}
        /\ actor'[a].pc = "fallback" => sent'[a] = <<>> /\ actor'[a].cat = "crash"
    BY <1>2 DEF Delivered, Failed, Signalled
  <2>2. ASSUME actor'[a].pc = "second"
        PROVE  /\ actor'[a].cat = "double-fault"
               /\ sent'[a] = <<<<actor'[a].cat, actor'[a].to>>>>
    <3>1. /\ actor[a].pc = "signal" /\ actor[a].cat = "double-fault"
          /\ sent'[a] = Append(sent[a], <<actor[a].cat, Victim(a)>>)
      BY <1>2, <2>2 DEF Delivered, Failed
    <3>2. sent[a] = <<>> /\ Victim(a) = actor[a].to
      BY <3>1 DEF Signalled, Victim
    <3> QED
      BY <1>2, <3>1, <3>2
  <2>3. actor'[a].pc = "record" => sent'[a] = Signals(actor'[a].cat, actor'[a].to, actor'[a].second)
    <3>1. CASE actor[a].pc \in {"signal", "fallback"}
      BY <1>2, <3>1 DEF Delivered, Failed, Signalled, Victim, Signals
    <3>2. CASE actor[a].pc = "second"
      <4>1. sent[a] = <<<<actor[a].cat, actor[a].to>>>> /\ actor[a].cat = "double-fault"
        BY <3>2 DEF Signalled
      <4> QED
        BY <1>2, <3>2, <4>1 DEF Delivered, Failed, Victim, Signals
    <3> QED
      BY <1>2, <3>1, <3>2
  <2> QED
    BY <1>4, <2>1, <2>2, <2>3 DEF Signalled
<1> QED
  BY <1>5, <1>6

(* A move of an invocation past its record.                                      *)
LEMMA LateMoves ==
  ASSUME PTypeOK, Signalled, Recorded, NEW a \in Invocations, NEW step \in {"append", "exit0"},
         actor[a].pc \in {"log", "append"}, Move(a, step), UNCHANGED <<target, sent, out, replay>>,
         hurt \subseteq hurt'
  PROVE  PTypeOK' /\ Others(a) /\ Signalled' /\ Recorded'
<1>1. a \in Actors /\ step \in PSteps /\ \A b \in Invocations : b \in Actors
  BY ActorNames DEF PSteps
<1>2. /\ actor' \in [Actors -> ActorRecord]
      /\ actor'[a].pc = step /\ actor'[a].cat = actor[a].cat /\ actor'[a].to = actor[a].to
      /\ actor'[a].second = actor[a].second
      /\ \A b \in Actors \ {a} : actor'[b] = actor[b]
  BY <1>1, MoveIs
<1>3. PTypeOK' /\ Others(a)
  BY <1>2 DEF PTypeOK, Others
<1>4. Signalled'
  BY <1>1, <1>2 DEF Signalled
<1>5. Recorded'
  <2>1. \A i \in DOMAIN out : out[i].by \in Invocations =>
          LET me == actor'[out[i].by] IN
          /\ me.pc \in {"log", "append", "exit0"}
          /\ out[i].cat = me.cat /\ out[i].to = me.to /\ out[i].second = me.second
          /\ \A j \in DOMAIN out : out[j].by = out[i].by => i = j
    BY <1>1, <1>2 DEF Recorded
  <2>2. \A b \in Invocations : actor'[b].pc \in {"log", "append", "exit0"} =>
          "flush" \in hurt' \/ \E i \in DOMAIN out : out[i].by = b
    BY <1>1, <1>2 DEF Recorded
  <2> QED
    BY <2>1, <2>2 DEF Recorded
<1> QED
  BY <1>3, <1>4, <1>5

LEMMA InvokeHonest ==
  ASSUME PTypeOK, Signalled, Recorded, NEW a \in Invocations, hurt \subseteq hurt',
         SinkFails(a) \/ \E request \in Requests : Invoke(a, request)
  PROVE  PTypeOK' /\ Others(a) /\ UNCHANGED replay /\ Signalled' /\ Recorded'
<1>1. a \in Actors /\ actor[a].pc = "idle" /\ \A b \in Invocations : b \in Actors
  BY ActorNames DEF SinkFails, Invoke
<1>2. \A i \in DOMAIN out : out[i].by # a
  BY <1>1, NotRecorded
<1>3. CASE SinkFails(a)
  <2>1. /\ actor' \in [Actors -> ActorRecord] /\ actor'[a].pc = "exit1"
        /\ \A b \in Actors \ {a} : actor'[b] = actor[b]
    BY <1>1, <1>3, MoveIs DEF SinkFails, PSteps
  <2>2. PTypeOK' /\ Others(a)
    BY <1>3, <2>1 DEF PTypeOK, SinkFails, Others
  <2>3. Signalled'
    BY <1>1, <1>3, <2>1 DEF Signalled, SinkFails
  <2>4. Recorded'
    BY <1>1, <1>2, <1>3, <2>1 DEF Recorded, SinkFails
  <2> QED
    BY <1>3, <2>2, <2>3, <2>4 DEF SinkFails
<1>4. ASSUME NEW request \in Requests, Invoke(a, request)
      PROVE  PTypeOK' /\ Others(a) /\ UNCHANGED replay /\ Signalled' /\ Recorded'
  <2>1. request \in ActorRecord /\ request.pc = "signal"
    BY DEF Requests, ActorRecord, PSteps
  <2>2. /\ actor' \in [Actors -> ActorRecord] /\ actor'[a].pc = "signal"
        /\ \A b \in Actors \ {a} : actor'[b] = actor[b]
    BY <1>1, <1>4, <2>1 DEF Invoke, PTypeOK
  <2>3. UNCHANGED <<target, sent, replay>> /\ out' = Append(out, Header)
    BY <1>4 DEF Invoke
  <2>4. /\ out' \in ReplayLog /\ Len(out) \in Nat /\ DOMAIN out = 1 .. Len(out)
        /\ DOMAIN out' = 1 .. Len(out) + 1 /\ out'[Len(out) + 1] = Header
        /\ \A i \in 1 .. Len(out) : out'[i] = out[i]
    BY <2>3 DEF PTypeOK, ReplayLog
  <2>5. PTypeOK' /\ Others(a)
    BY <2>2, <2>3, <2>4 DEF PTypeOK, Others
  <2>6. Signalled'
    BY <1>1, <2>2, <2>3 DEF Signalled
  <2>7. Header.by \notin Invocations
    BY ActorNames DEF Header
  <2>8. Recorded'
    <3>1. \A i \in DOMAIN out' : out'[i].by \in Invocations =>
            i \in DOMAIN out /\ out'[i] = out[i] /\ out[i].by # a
      BY <1>2, <2>4, <2>7
    <3>2. \A b \in Invocations : (\E i \in DOMAIN out : out[i].by = b) => \E i \in DOMAIN out' : out'[i].by = b
      BY <2>4
    <3> QED
      BY <1>1, <2>2, <3>1, <3>2 DEF Recorded
  <2> QED
    BY <2>3, <2>5, <2>6, <2>8
<1> QED
  BY <1>3, <1>4

LEMMA RecordFailsHonest ==
  ASSUME PTypeOK, Signalled, Recorded, NEW a \in Invocations, RecordFails(a), hurt \subseteq hurt'
  PROVE  PTypeOK' /\ Others(a) /\ UNCHANGED replay /\ Signalled' /\ Recorded'
<1>1. a \in Actors /\ actor[a].pc = "record" /\ Move(a, "exit1") /\ \A b \in Invocations : b \in Actors
  BY ActorNames DEF RecordFails
<1>2. /\ actor' \in [Actors -> ActorRecord] /\ actor'[a].pc = "exit1"
      /\ \A b \in Actors \ {a} : actor'[b] = actor[b]
  BY <1>1, MoveIs DEF PSteps
<1>3. UNCHANGED <<target, sent, out, replay>>
  BY DEF RecordFails
<1>4. \A i \in DOMAIN out : out[i].by # a
  BY <1>1, NotRecorded
<1>5. Signalled'
  BY <1>1, <1>2, <1>3 DEF Signalled
<1>6. Recorded'
  BY <1>1, <1>2, <1>3, <1>4 DEF Recorded
<1> QED
  BY <1>2, <1>3, <1>5, <1>6 DEF PTypeOK, Others

LEMMA RecordHonest ==
  ASSUME PTypeOK, Signalled, Recorded, NEW a \in Invocations, NEW lost \in BOOLEAN,
         RecordAction(a, lost, 1), hurt \subseteq hurt', lost => "flush" \in hurt'
  PROVE  PTypeOK' /\ Others(a) /\ UNCHANGED replay /\ Signalled' /\ Recorded'
<1>1. a \in Actors /\ a # "replay" /\ actor[a].pc = "record" /\ \A b \in Invocations : b \in Actors
  BY ActorNames DEF RecordAction
<1>2. \A i \in DOMAIN out : out[i].by # a
  BY <1>1, NotRecorded
<1>3. PICK step \in {"log", "exit0"} : Move(a, step) /\ step = IF actor[a].logging THEN "log" ELSE "exit0"
  BY <1>1 DEF RecordAction
<1>4. /\ actor' \in [Actors -> ActorRecord] /\ actor'[a].pc = step
      /\ actor'[a].cat = actor[a].cat /\ actor'[a].to = actor[a].to
      /\ actor'[a].second = actor[a].second /\ \A b \in Actors \ {a} : actor'[b] = actor[b]
  BY <1>1, <1>3, MoveIs DEF PSteps
<1>5. UNCHANGED <<target, sent, replay>>
  BY DEF RecordAction
<1>6. Signalled'
  BY <1>1, <1>3, <1>4, <1>5 DEF Signalled
<1>7. CASE lost
  <2>1. out' = out
    BY <1>7 DEF RecordAction
  <2>2. Recorded'
    BY <1>1, <1>2, <1>4, <1>7, <2>1 DEF Recorded
  <2> QED
    BY <1>4, <1>5, <1>6, <2>1, <2>2 DEF PTypeOK, Others
<1>8. CASE ~lost
  <2> DEFINE e == RecordEntry(a, 1)
  <2>1. e \in EntryBy(Invocations \cup {"none"})
    BY <1>1 DEF RecordEntry, EntryBy, PTypeOK, ActorRecord, NoTime
  <2>2. e.by = a /\ e.cat = actor[a].cat /\ e.to = actor[a].to /\ e.second = actor[a].second
    BY DEF RecordEntry
  <2>3. out' = Append(out, e)
    BY <1>1, <1>8 DEF RecordAction
  <2> HIDE DEF e
  <2>4. /\ out' \in ReplayLog /\ Len(out) \in Nat /\ DOMAIN out = 1 .. Len(out)
        /\ DOMAIN out' = 1 .. Len(out) + 1 /\ out'[Len(out) + 1] = e
        /\ \A i \in 1 .. Len(out) : out'[i] = out[i]
    BY <2>1, <2>3 DEF PTypeOK, ReplayLog
  <2>5. Recorded'
    <3>1. ASSUME NEW i \in DOMAIN out', out'[i].by \in Invocations
          PROVE  LET me == actor'[out'[i].by] IN
                 /\ me.pc \in {"log", "append", "exit0"}
                 /\ out'[i].cat = me.cat /\ out'[i].to = me.to /\ out'[i].second = me.second
                 /\ \A j \in DOMAIN out' : out'[j].by = out'[i].by => i = j
      <4>1. CASE i = Len(out) + 1
        BY <1>2, <1>3, <1>4, <2>2, <2>4, <4>1
      <4>2. CASE i # Len(out) + 1
        <5>1. i \in DOMAIN out /\ out'[i] = out[i] /\ out[i].by # a
          BY <1>2, <2>4, <4>2
        <5>2. actor'[out[i].by] = actor[out[i].by]
          BY <1>1, <1>4, <3>1, <5>1
        <5> QED
          BY <2>2, <2>4, <3>1, <5>1, <5>2 DEF Recorded
      <4> QED
        BY <4>1, <4>2
    <3>2. ASSUME NEW b \in Invocations, actor'[b].pc \in {"log", "append", "exit0"}
          PROVE  "flush" \in hurt' \/ \E i \in DOMAIN out' : out'[i].by = b
      <4>1. CASE b = a
        BY <2>2, <2>4, <4>1
      <4>2. CASE b # a
        BY <1>1, <1>4, <2>4, <3>2, <4>2 DEF Recorded
      <4> QED
        BY <4>1, <4>2
    <3> QED
      BY <3>1, <3>2 DEF Recorded
  <2> QED
    BY <1>4, <1>5, <1>6, <2>4, <2>5 DEF PTypeOK, Others
<1> QED
  BY <1>7, <1>8

-----------------------------------------------------------------------------
(* The replay.                                                                  *)

(* The signals that the first n entries stand for, one entry more at a time.     *)
LEMMA PairsFinite ==
  ASSUME NEW n \in Nat, NEW S \in SUBSET ((1 .. n) \X {1, 2})
  PROVE  IsFiniteSet(S) /\ Cardinality(S) \in Nat
<1>1. IsFiniteSet(1 .. n)
  BY FS_Interval
<1>2. IsFiniteSet({1, 2})
  <2>1. {1, 2} = 1 .. 2
    OBVIOUS
  <2>2. \A m \in Nat : IsFiniteSet(1 .. m)
    BY FS_Interval
  <2> QED
    BY <2>1, <2>2
<1>3. IsFiniteSet((1 .. n) \X {1, 2})
  BY <1>1, <1>2, FS_Product
<1>4. IsFiniteSet(S)
  BY <1>3, FS_Subset
<1> QED
  BY <1>4, FS_CardinalityType

LEMMA PlannedFinite ==
  ASSUME NEW n \in Nat
  PROVE  IsFiniteSet(Planned(n)) /\ Cardinality(Planned(n)) \in Nat
BY PairsFinite DEF Planned

LEMMA PlannedGrows ==
  ASSUME NEW m \in Nat, NEW n \in Nat, m <= n
  PROVE  Cardinality(Planned(m)) <= Cardinality(Planned(n))
<1>1. Planned(m) \subseteq Planned(n)
  <2>1. \A q \in (1 .. m) \X {1, 2} : q \in (1 .. n) \X {1, 2}
    OBVIOUS
  <2> QED
    BY <2>1 DEF Planned
<1> QED
  BY <1>1, PlannedFinite, FS_Subset

LEMMA PlannedNone == Planned(0) = {} /\ Cardinality(Planned(0)) = 0
<1>1. Planned(0) = {}
  <2>1. (1 .. 0) \X {1, 2} = {}
    OBVIOUS
  <2> QED
    BY <2>1 DEF Planned
<1> QED
  BY <1>1, FS_EmptySet

LEMMA PlannedNext ==
  ASSUME NEW n \in Nat
  PROVE  Cardinality(Planned(n + 1)) =
           IF replay.log[n + 1] = Header THEN Cardinality(Planned(n))
           ELSE IF replay.log[n + 1].cat = "double-fault" THEN Cardinality(Planned(n)) + 2
           ELSE Cardinality(Planned(n)) + 1
<1> DEFINE P == Planned(n)
           q1 == <<n + 1, 1>>
           q2 == <<n + 1, 2>>
<1>1. \A q \in (1 .. n + 1) \X {1, 2} : q \in (1 .. n) \X {1, 2} \/ q = q1 \/ q = q2
  OBVIOUS
<1>2. /\ \A q \in (1 .. n) \X {1, 2} : q \in (1 .. n + 1) \X {1, 2} /\ q # q1 /\ q # q2
      /\ q1 \in (1 .. n + 1) \X {1, 2} /\ q2 \in (1 .. n + 1) \X {1, 2}
      /\ q1[1] = n + 1 /\ q1[2] = 1 /\ q2[1] = n + 1 /\ q2[2] = 2 /\ q1 # q2
  OBVIOUS
<1>3. q1 \notin P /\ q2 \notin P
  BY <1>2 DEF Planned
<1>4. IsFiniteSet(P) /\ Cardinality(P) \in Nat
  BY PlannedFinite
<1> HIDE DEF q1, q2
<1>5. CASE replay.log[n + 1] = Header
  <2>1. Planned(n + 1) = P
    BY <1>1, <1>2, <1>5 DEF Planned
  <2> QED
    BY <1>5, <2>1
<1>6. CASE replay.log[n + 1] # Header /\ replay.log[n + 1].cat # "double-fault"
  <2>1. Planned(n + 1) = P \cup {q1}
    BY <1>1, <1>2, <1>6 DEF Planned
  <2> HIDE DEF P
  <2>2. Cardinality(P \cup {q1}) = Cardinality(P) + 1
    BY <1>3, <1>4, FS_AddElement
  <2> QED
    BY <1>6, <2>1, <2>2 DEF P
<1>7. CASE replay.log[n + 1] # Header /\ replay.log[n + 1].cat = "double-fault"
  <2>1. Planned(n + 1) = (P \cup {q1}) \cup {q2}
    BY <1>1, <1>2, <1>7 DEF Planned
  <2> HIDE DEF P
  <2>2. Cardinality(P \cup {q1}) = Cardinality(P) + 1 /\ IsFiniteSet(P \cup {q1})
    BY <1>3, <1>4, FS_AddElement
  <2>3. q2 \notin P \cup {q1}
    BY <1>2, <1>3
  <2>4. Cardinality((P \cup {q1}) \cup {q2}) = Cardinality(P \cup {q1}) + 1
    BY <2>2, <2>3, FS_AddElement
  <2>5. Cardinality((P \cup {q1}) \cup {q2}) = Cardinality(P) + 2
    BY <1>4, <2>2, <2>4
  <2> QED
    BY <1>7, <2>1, <2>5 DEF P
<1> QED
  BY <1>5, <1>6, <1>7

(* The place of a signal is after those of the entries before, and within those up to its own. *)
LEMMA PlaceIn ==
  ASSUME NEW n \in Nat, NEW q \in Planned(n)
  PROVE  /\ q[1] \in 1 .. n /\ q[2] \in {1, 2} /\ Place(q) \in Nat \ {0}
         /\ Place(q) <= Cardinality(Planned(q[1]))
         /\ Place(q) = Cardinality(Planned(q[1] - 1)) + q[2]
<1>1. /\ q[1] \in 1 .. n /\ q[2] \in {1, 2} /\ replay.log[q[1]] # Header
      /\ q[2] = 2 => replay.log[q[1]].cat = "double-fault"
  BY DEF Planned
<1>2. PICK m \in Nat : q[1] = m + 1 /\ m = q[1] - 1
  BY <1>1
<1>3. Cardinality(Planned(m)) \in Nat
  BY PlannedFinite
<1>4. Cardinality(Planned(m + 1)) >= Cardinality(Planned(m)) + q[2]
  BY <1>1, <1>2, <1>3, PlannedNext
<1> QED
  BY <1>1, <1>2, <1>3, <1>4 DEF Place

LEMMA ReplayTypes ==
  ASSUME PTypeOK, ReplayAt
  PROVE  /\ replay.log \in ReplayLog /\ replay.todo \in ReplayLog /\ replay.base \in Nat
         /\ replay.slept \in Nat /\ replay.remap \in Remaps
         /\ Len(replay.log) \in Nat /\ Len(replay.todo) \in Nat
         /\ Taken \in Nat /\ Taken <= Len(replay.log) /\ Len(replay.log) = Taken + Len(replay.todo)
         /\ DOMAIN replay.log = 1 .. Len(replay.log) /\ DOMAIN replay.todo = 1 .. Len(replay.todo)
         /\ \A i \in DOMAIN replay.log : replay.log[i] # Header =>
              replay.log[i] \in EntryBy(Invocations \cup {"none"})
         /\ sent["replay"] \in Seq(Categories \X Targets) /\ Len(sent["replay"]) \in Nat
         /\ actor["replay"] \in ActorRecord
<1>1. /\ replay.log \in ReplayLog /\ replay.todo \in ReplayLog /\ replay.base \in Nat
      /\ replay.slept \in Nat /\ replay.remap \in Remaps
  BY DEF PTypeOK, ReplayRecord
<1>2. sent["replay"] \in Seq(Categories \X Targets) /\ actor["replay"] \in ActorRecord
  BY ActorNames DEF PTypeOK
<1>3. /\ Len(replay.log) \in Nat /\ Len(replay.todo) \in Nat
      /\ DOMAIN replay.log = 1 .. Len(replay.log) /\ DOMAIN replay.todo = 1 .. Len(replay.todo)
      /\ \A i \in DOMAIN replay.log : replay.log[i] # Header =>
           replay.log[i] \in EntryBy(Invocations \cup {"none"})
  <2> DEFINE E == EntryBy(Invocations \cup {"none"})
  <2>1. \A s \in Seq({Header} \cup E) :
          Len(s) \in Nat /\ DOMAIN s = 1 .. Len(s) /\ \A i \in DOMAIN s : s[i] # Header => s[i] \in E
    <3> HIDE DEF E
    <3> QED
      OBVIOUS
  <2> QED
    BY <1>1, <2>1 DEF ReplayLog
<1>4. Taken \in Nat /\ Taken = Len(replay.log) - Len(replay.todo)
  BY DEF ReplayAt, Taken
<1>5. \A x, y \in Nat : x - y \in Nat => x - y <= x /\ x = (x - y) + y
  OBVIOUS
<1>6. Taken <= Len(replay.log) /\ Len(replay.log) = Taken + Len(replay.todo)
  BY <1>3, <1>4, <1>5
<1>7. Len(sent["replay"]) \in Nat
  BY <1>2
<1> QED
  BY <1>1, <1>2, <1>3, <1>4, <1>6, <1>7

(* A signal of the replay is the next one of the plan.                              *)
LEMMA ReplaySends ==
  ASSUME PTypeOK, ReplayAt, ReplaySent, ReplayFaithful, ReplayNeverEarly, SendSignal("replay")
  PROVE  ReplayAt' /\ ReplaySent' /\ ReplayFaithful' /\ ReplayNeverEarly'
<1> DEFINE r == "replay"
<1>1. /\ PTypeOK' /\ UNCHANGED <<out, replay>>
      /\ actor'[r].cat = actor[r].cat /\ actor'[r].to = actor[r].to
      /\ actor'[r].second = actor[r].second
      /\ actor[r].pc \in {"signal", "fallback", "second"}
      /\ \/ /\ sent'[r] = Append(sent[r], <<actor[r].cat, Victim(r)>>)
            /\ actor'[r].pc = Delivered(r)
         \/ sent'[r] = sent[r] /\ actor'[r].pc = Failed(r)
  BY SignalSent, ActorNames
<1>2. /\ \A n : Planned(n)' = Planned(n)
      /\ Taken' = Taken
      /\ \A q : Place(q)' = Place(q) /\ Call(q)' = Call(q)
  BY <1>1 DEF Planned, Taken, Place, Call
<1>3. PICK T \in Nat : /\ T = Taken /\ T > 0 /\ T <= Len(replay.log)
  BY <1>1, ReplayTypes DEF ReplayAt
<1>4. PICK L \in Nat : L = Len(replay.log)
  BY ReplayTypes
<1>5. /\ replay.log[T] # Header /\ actor[r].cat = replay.log[T].cat
      /\ actor[r].to = replay.remap[replay.log[T].to]
      /\ actor[r].second = replay.remap[replay.log[T].second]
      /\ actor[r].pc = "fallback" => actor[r].cat = "crash"
      /\ actor[r].pc = "second" => actor[r].cat = "double-fault"
  BY <1>1, <1>3 DEF ReplayAt
<1>6. PICK B \in Nat : B = Cardinality(Planned(T - 1))
  BY <1>3, PlannedFinite
<1>7. PICK n \in Nat : n = Len(sent[r])
  BY ReplayTypes
<1>8. /\ actor[r].pc \in {"signal", "fallback"} => n = B
      /\ actor[r].pc = "second" => n = B + 1
  BY <1>3, <1>6, <1>7 DEF ReplaySent
<1>9. Cardinality(Planned(T)) = IF actor[r].cat = "double-fault" THEN B + 2 ELSE B + 1
  <2>1. T - 1 \in Nat /\ (T - 1) + 1 = T
    BY <1>3
  <2> QED
    BY <1>5, <1>6, <2>1, PlannedNext
<1>10. Cardinality(Planned(T)) <= Cardinality(Planned(L)) /\ Cardinality(Planned(L)) \in Nat
  BY <1>3, <1>4, PlannedGrows, PlannedFinite
<1>11. ReplayAt'
  <2>1. /\ actor'[r].pc \notin {"idle", "refused", "log", "append", "exit0", "next", "signal"}
        /\ actor'[r].pc = "fallback" => actor'[r].cat = "crash"
        /\ actor'[r].pc = "second" => actor'[r].cat = "double-fault"
    BY <1>1, <1>5 DEF Delivered, Failed
  <2> QED
    BY <1>1, <1>2, <1>3, <1>5, <2>1 DEF ReplayAt
<1>12. ReplayNeverEarly'
  BY <1>1, <1>2 DEF ReplayNeverEarly, Acting, Offset
<1>13. CASE sent'[r] = sent[r] /\ actor'[r].pc = Failed(r)
  <2>1. actor'[r].pc = "exit1" \/ (actor'[r].pc = "fallback" /\ actor[r].pc = "signal")
    BY <1>13 DEF Failed
  <2>2. ReplaySent'
    BY <1>2, <1>3, <1>6, <1>7, <1>8, <1>13, <2>1 DEF ReplaySent
  <2>3. ReplayFaithful'
    BY <1>1, <1>2, <1>13, <2>1 DEF ReplayFaithful
  <2> QED
    BY <1>11, <1>12, <2>2, <2>3
<1>14. CASE /\ sent'[r] = Append(sent[r], <<actor[r].cat, Victim(r)>>)
            /\ actor'[r].pc = Delivered(r)
  <2> DEFINE new == <<actor[r].cat, Victim(r)>>
  <2>1. /\ Len(sent'[r]) = n + 1 /\ sent'[r][n + 1] = new
        /\ \A i \in 1 .. n : sent'[r][i] = sent[r][i]
    BY <1>7, <1>14, ReplayTypes
  <2>2. \/ actor'[r].pc = "second" /\ actor[r].pc = "signal"
        \/ /\ actor'[r].pc = "record"
           /\ actor[r].pc = "second" \/ actor[r].cat # "double-fault"
    BY <1>1, <1>5, <1>14 DEF Delivered
  <2>3. ReplaySent'
    BY <1>1, <1>2, <1>3, <1>5, <1>6, <1>8, <1>9, <2>1, <2>2 DEF ReplaySent
  <2>4. n + 1 <= Cardinality(Planned(L))
    BY <1>1, <1>5, <1>8, <1>9, <1>10
  <2>5. ASSUME NEW q \in Planned(L), Place(q) <= n + 1
        PROVE  sent'[r][Place(q)] = Call(q)
    <3>1. /\ q[1] \in 1 .. L /\ q[2] \in {1, 2} /\ Place(q) \in Nat \ {0}
          /\ Place(q) <= Cardinality(Planned(q[1]))
          /\ Place(q) = Cardinality(Planned(q[1] - 1)) + q[2]
      BY PlaceIn
    <3>2. CASE Place(q) <= n
      <4>1. sent[r][Place(q)] = Call(q)
        BY <1>4, <1>7, <3>2 DEF ReplayFaithful
      <4> QED
        BY <2>1, <3>1, <3>2, <4>1
    <3>3. CASE Place(q) = n + 1
      <4>1. ~(q[1] <= T - 1)
        <5> SUFFICES ASSUME q[1] <= T - 1 PROVE FALSE
          OBVIOUS
        <5>1. q[1] \in Nat /\ T - 1 \in Nat
          BY <1>3, <3>1
        <5>2. Cardinality(Planned(q[1])) <= B /\ Cardinality(Planned(q[1])) \in Nat
          BY <1>6, <5>1, PlannedGrows, PlannedFinite
        <5> QED
          BY <1>1, <1>8, <3>1, <3>3, <5>2
      <4>2. ~(q[1] - 1 >= T)
        <5> SUFFICES ASSUME q[1] - 1 >= T PROVE FALSE
          OBVIOUS
        <5>0. PICK m \in Nat : m = q[1] - 1
          BY <3>1
        <5>1. Cardinality(Planned(T)) <= Cardinality(Planned(m)) /\ Cardinality(Planned(m)) \in Nat
          BY <5>0, PlannedGrows, PlannedFinite
        <5> QED
          BY <1>1, <1>5, <1>8, <1>9, <3>1, <3>3, <5>0, <5>1
      <4>3. q[1] = T
        BY <1>3, <3>1, <4>1, <4>2
      <4>4. q[2] = IF actor[r].pc = "second" THEN 2 ELSE 1
        BY <1>1, <1>6, <1>8, <3>1, <3>3, <4>3
      <4>5. Call(q) = new
        BY <1>5, <4>3, <4>4 DEF Call, Victim
      <4> QED
        BY <2>1, <3>3, <4>5
    <3> QED
      BY <2>5, <3>1, <3>2, <3>3
  <2>6. ReplayFaithful'
    <3>1. Len(replay'.log) = L
      BY <1>1, <1>4
    <3> QED
      BY <1>2, <2>1, <2>2, <2>4, <2>5, <3>1 DEF ReplayFaithful
  <2> QED
    BY <1>11, <1>12, <2>3, <2>6
<1> QED
  BY <1>1, <1>13, <1>14

(* The replay looks at its next entry, or is done.                                   *)
LEMMA ReplayMoves ==
  ASSUME PTypeOK, ReplayAt, ReplaySent, ReplayFaithful, ReplayNeverEarly,
         \/ RecordAction("replay", FALSE, 1)
         \/ ReplayEnds
  PROVE  /\ PTypeOK' /\ Others("replay") /\ UNCHANGED out
         /\ ReplayAt' /\ ReplaySent' /\ ReplayFaithful' /\ ReplayNeverEarly'
<1> DEFINE r == "replay"
<1>1. r \in Actors
  BY ActorNames
<1>2. PICK step \in {"next", "exit0"} :
        /\ Move(r, step) /\ UNCHANGED <<target, sent, out, replay>>
        /\ step = "next" => actor[r].pc = "record"
        /\ step = "exit0" => actor[r].pc = "next" /\ replay.todo = <<>>
  <2>1. CASE RecordAction(r, FALSE, 1)
    <3>1. Move(r, "next") /\ UNCHANGED <<target, sent, out, replay>> /\ actor[r].pc = "record"
      BY <2>1 DEF RecordAction
    <3> QED
      BY <3>1
  <2>2. CASE ReplayEnds
    <3>1. /\ Move(r, "exit0") /\ UNCHANGED <<target, sent, out, replay>>
          /\ actor[r].pc = "next" /\ replay.todo = <<>>
      BY <2>2 DEF ReplayEnds
    <3> QED
      BY <3>1
  <2> QED
    BY <2>1, <2>2
<1>3. /\ actor' \in [Actors -> ActorRecord] /\ actor'[r].pc = step
      /\ actor'[r].cat = actor[r].cat /\ actor'[r].to = actor[r].to
      /\ actor'[r].second = actor[r].second /\ \A b \in Actors \ {r} : actor'[b] = actor[b]
  BY <1>1, <1>2, MoveIs DEF PSteps
<1>4. PTypeOK' /\ Others(r) /\ UNCHANGED out
  BY <1>2, <1>3 DEF PTypeOK, Others
<1>5. /\ \A n : Planned(n)' = Planned(n)
      /\ Taken' = Taken
      /\ \A q : Place(q)' = Place(q) /\ Call(q)' = Call(q)
  BY <1>2 DEF Planned, Taken, Place, Call
<1>6. ReplayAt' /\ ReplayNeverEarly'
  BY <1>2, <1>3, <1>5 DEF ReplayAt, ReplayNeverEarly, Acting, Offset
<1>7. ReplaySent'
  BY <1>2, <1>3, <1>5 DEF ReplaySent
<1>8. ReplayFaithful'
  <2>1. step = "exit0" => Len(sent[r]) = Cardinality(Planned(Len(replay.log)))
    <3>1. ASSUME step = "exit0"
          PROVE  Taken = Len(replay.log) /\ actor[r].pc = "next"
      <4>1. replay.todo = <<>> /\ actor[r].pc = "next"
        BY <1>2, <3>1
      <4>2. Len(replay.log) = Taken + 0 /\ Taken \in Nat
        BY <4>1, ReplayTypes
      <4> QED
        BY <4>1, <4>2
    <3> QED
      BY <3>1 DEF ReplaySent
  <2> QED
    BY <1>2, <1>3, <1>5, <2>1 DEF ReplayFaithful
<1> QED
  BY <1>4, <1>6, <1>7, <1>8

LEMMA ReplayStarts ==
  ASSUME PTypeOK, ReplayAt, ReplaySent, ReplayFaithful, ReplayNeverEarly, StartReplay
  PROVE  /\ PTypeOK' /\ Others("replay") /\ UNCHANGED out
         /\ ReplayAt' /\ ReplaySent' /\ ReplayFaithful' /\ ReplayNeverEarly'
<1> DEFINE r == "replay"
<1>1. r \in Actors /\ actor[r].pc = "idle" /\ replay.log = <<>>
  BY ActorNames DEF StartReplay, ReplayAt
<1>2. PICK step \in {"next", "refused"} : Move(r, step) /\ UNCHANGED <<target, sent, out>>
        /\ \/ UNCHANGED replay /\ step = "refused"
           \/ /\ step = "next"
              /\ \E m \in Remaps : replay' = [replay EXCEPT !.todo = out, !.log = out, !.remap = m]
  BY DEF StartReplay
<1>3. /\ actor' \in [Actors -> ActorRecord] /\ actor'[r].pc = step
      /\ actor'[r].cat = actor[r].cat /\ actor'[r].to = actor[r].to
      /\ actor'[r].second = actor[r].second /\ \A b \in Actors \ {r} : actor'[b] = actor[b]
  BY <1>1, <1>2, MoveIs DEF PSteps
<1>4. Taken = 0 /\ sent[r] = <<>>
  <2>1. Taken = 0
    BY <1>1, ReplayTypes
  <2>2. Len(sent[r]) = 0
    BY <1>1, <2>1, PlannedNone DEF ReplaySent
  <2> QED
    BY <2>1, <2>2, ReplayTypes
<1>5. CASE UNCHANGED replay /\ step = "refused"
  <2>1. PTypeOK' /\ Others(r) /\ UNCHANGED out
    BY <1>2, <1>3, <1>5 DEF PTypeOK, Others
  <2>2. /\ \A n : Planned(n)' = Planned(n)
        /\ Taken' = Taken
        /\ \A q : Place(q)' = Place(q) /\ Call(q)' = Call(q)
    BY <1>5 DEF Planned, Taken, Place, Call
  <2>3. ReplayAt' /\ ReplayNeverEarly'
    BY <1>1, <1>3, <1>5, <2>2 DEF ReplayAt, ReplayNeverEarly, Acting, Offset
  <2>4. ReplaySent'
    BY <1>1, <1>2, <1>3, <1>5, <2>2 DEF ReplaySent
  <2>5. ReplayFaithful'
    BY <1>2, <1>3, <1>5, <2>2 DEF ReplayFaithful
  <2> QED
    BY <2>1, <2>3, <2>4, <2>5
<1>6. CASE step = "next" /\ \E m \in Remaps : replay' = [replay EXCEPT !.todo = out, !.log = out, !.remap = m]
  <2>1. /\ replay' \in ReplayRecord /\ replay'.todo = out /\ replay'.log = out
    BY <1>6 DEF PTypeOK, ReplayRecord
  <2>2. PTypeOK' /\ Others(r) /\ UNCHANGED out
    BY <1>2, <1>3, <2>1 DEF PTypeOK, Others
  <2>3. Len(out) \in Nat
    BY DEF PTypeOK, ReplayLog
  <2>4. Taken' = 0
    BY <2>1, <2>3 DEF Taken
  <2>5. \A n \in Nat : Cardinality(Planned(n)') \in Nat
    BY PairsFinite DEF Planned
  <2>6. Cardinality(Planned(0)') = 0
    <3>1. Planned(0)' = {}
      <4>1. (1 .. 0) \X {1, 2} = {}
        OBVIOUS
      <4> QED
        BY <4>1 DEF Planned
    <3> QED
      BY <3>1, FS_EmptySet
  <2>7. ReplayAt'
    <3>1. \A j \in DOMAIN out : 0 + j = j
      BY DEF PTypeOK, ReplayLog
    <3> QED
      BY <1>3, <1>6, <2>1, <2>4, <3>1 DEF ReplayAt
  <2>8. ReplayNeverEarly'
    BY <1>3, <1>6 DEF ReplayNeverEarly, Acting
  <2>9. Len(sent'[r]) = 0
    BY <1>2, <1>4
  <2>10. ReplaySent'
    BY <1>3, <1>6, <2>4, <2>6, <2>9 DEF ReplaySent
  <2>11. ReplayFaithful'
    <3>0. PICK L \in Nat : L = Len(replay'.log)
      BY <2>1, <2>3
    <3>1. ASSUME NEW q \in Planned(L)'
          PROVE  ~(Place(q)' <= 0)
      <4>1. q[1] \in 1 .. L /\ q[2] \in {1, 2}
        BY DEF Planned
      <4>2. PICK m \in Nat : m = q[1] - 1
        BY <4>1
      <4>3. Place(q)' = Cardinality(Planned(m)') + q[2]
        BY <4>2 DEF Place
      <4> QED
        BY <2>5, <4>1, <4>3
    <3>2. Cardinality(Planned(L)') \in Nat
      BY <2>5
    <3> QED
      BY <1>3, <1>6, <2>9, <3>0, <3>1, <3>2 DEF ReplayFaithful
  <2> QED
    BY <2>2, <2>7, <2>8, <2>10, <2>11
<1> QED
  BY <1>2, <1>5, <1>6

(* Cut to whole milliseconds, a time loses less than one.                        *)
LEMMA WholeMillis ==
  ASSUME NEW m \in Nat \ {0}, NEW x \in Nat
  PROVE  (x \div m) * m \in Nat /\ (x \div m) * m + m > x
<1>1. PICK q \in Nat : q = x \div m
  OBVIOUS
<1>2. PICK r \in Nat : r = x % m /\ r < m
  OBVIOUS
<1>3. x = m * q + r
  BY <1>1, <1>2
<1>4. PICK y \in Nat : y = m * q /\ y = q * m
  OBVIOUS
<1> QED
  BY <1>1, <1>2, <1>3, <1>4

LEMMA ReplayLooks ==
  ASSUME PTypeOK, ReplayAt, ReplaySent, ReplayFaithful, ReplayNeverEarly, ReplayNext
  PROVE  /\ PTypeOK' /\ Others("replay") /\ UNCHANGED out
         /\ ReplayAt' /\ ReplaySent' /\ ReplayFaithful' /\ ReplayNeverEarly'
<1> DEFINE r == "replay"
           e == Head(replay.todo)
<1>1. r \in Actors /\ actor[r].pc = "next" /\ replay.todo # <<>> /\ UNCHANGED <<target, sent, out>>
  BY ActorNames DEF ReplayNext
<1>2. PICK T \in Nat : T = Taken
  BY ReplayTypes
<1>3. PICK L \in Nat : L = Len(replay.log)
  BY ReplayTypes
<1>4. /\ Len(replay.todo) \in Nat /\ Len(replay.todo) > 0 /\ L = T + Len(replay.todo)
      /\ Tail(replay.todo) \in ReplayLog /\ Len(Tail(replay.todo)) = Len(replay.todo) - 1
      /\ \A j \in 1 .. Len(replay.todo) - 1 : Tail(replay.todo)[j] = replay.todo[j + 1]
      /\ e = replay.todo[1] /\ DOMAIN replay.todo = 1 .. Len(replay.todo)
      /\ DOMAIN Tail(replay.todo) = 1 .. Len(replay.todo) - 1
  BY <1>1, <1>2, <1>3, ReplayTypes DEF ReplayLog
<1>5. e = replay.log[T + 1] /\ T + 1 \in DOMAIN replay.log
  BY <1>2, <1>3, <1>4, ReplayTypes DEF ReplayAt
<1> HIDE DEF e
<1>6. PICK B \in Nat : B = Cardinality(Planned(T)) /\ Len(sent[r]) = B
  BY <1>1, <1>2, PlannedFinite DEF ReplaySent
<1>7. ASSUME replay'.todo = Tail(replay.todo), replay'.log = replay.log, replay'.remap = replay.remap
      PROVE  /\ Taken' = T + 1
             /\ \A j \in DOMAIN replay'.todo : replay'.todo[j] = replay'.log[(T + 1) + j]
             /\ \A n : Planned(n)' = Planned(n)
             /\ \A q : Place(q)' = Place(q) /\ Call(q)' = Call(q)
  <2>1. Taken' = T + 1
    <3>1. Taken' = Len(replay.log) - Len(Tail(replay.todo))
      BY <1>7 DEF Taken
    <3>2. Taken' = (T + Len(replay.todo)) - (Len(replay.todo) - 1)
      BY <1>3, <1>4, <3>1
    <3>3. \A x \in Nat : (T + x) - (x - 1) = T + 1
      OBVIOUS
    <3>4. Len(replay.todo) \in Nat
      BY <1>4
    <3> QED
      BY <3>2, <3>3, <3>4
  <2>2. ASSUME NEW j \in 1 .. Len(replay.todo) - 1
        PROVE  Tail(replay.todo)[j] = replay.log[(T + 1) + j]
    <3>1. j + 1 \in DOMAIN replay.todo /\ T + (j + 1) = (T + 1) + j
      BY <1>4
    <3>2. replay.todo[j + 1] = replay.log[T + (j + 1)]
      BY <1>2, <3>1 DEF ReplayAt
    <3> QED
      BY <1>4, <3>1, <3>2
  <2>3. \A n : Planned(n)' = Planned(n)
    BY <1>7 DEF Planned
  <2>4. \A q : Place(q)' = Place(q) /\ Call(q)' = Call(q)
    BY <1>7, <2>3 DEF Place, Call
  <2> QED
    BY <1>4, <1>7, <2>1, <2>2, <2>3, <2>4
<1>8. CASE e = Header /\ replay' = [replay EXCEPT !.todo = Tail(@)] /\ UNCHANGED actor
  <2>1. /\ replay' \in ReplayRecord /\ replay'.todo = Tail(replay.todo) /\ replay'.log = replay.log
        /\ replay'.remap = replay.remap
    BY <1>4, <1>8 DEF PTypeOK, ReplayRecord
  <2>2. PTypeOK' /\ Others(r) /\ UNCHANGED out
    BY <1>1, <1>8, <2>1 DEF PTypeOK, Others
  <2>3. Cardinality(Planned(T + 1)) = B
    BY <1>5, <1>6, <1>8, PlannedNext
  <2>4. ReplayAt' /\ ReplayNeverEarly'
    BY <1>1, <1>2, <1>7, <1>8, <2>1 DEF ReplayAt, ReplayNeverEarly, Acting, Offset
  <2>5. ReplaySent'
    BY <1>1, <1>6, <1>7, <1>8, <2>1, <2>3 DEF ReplaySent
  <2>6. ReplayFaithful'
    BY <1>1, <1>7, <1>8, <2>1 DEF ReplayFaithful
  <2> QED
    BY <2>2, <2>4, <2>5, <2>6
<1>9. CASE /\ e # Header
           /\ replay' = [replay EXCEPT !.todo = Tail(@),
                                       !.base = IF @ = NoTime THEN e.ts ELSE @,
                                       !.slept = IF replay.base = NoTime THEN @ ELSE @ + Delay(e.ts)]
           /\ actor' = [actor EXCEPT ![r] =
                          [@ EXCEPT !.pc = "signal", !.cat = e.cat, !.to = replay.remap[e.to],
                                    !.second = replay.remap[e.second]]]
  <2>1. e \in EntryBy(Invocations \cup {"none"})
    BY <1>5, <1>9, ReplayTypes
  <2>2. /\ e.ts \in Nat /\ e.ts # NoTime /\ e.cat \in Categories /\ e.to \in Targets /\ e.second \in Targets
    BY <2>1 DEF EntryBy
  <2>3. replay.remap[e.to] \in Targets /\ replay.remap[e.second] \in Targets
    BY <2>2, ReplayTypes, PerturbAssumption
  <2>4. replay.base \in Nat /\ replay.slept \in Nat /\ Delay(e.ts) \in Nat
    <3>1. replay.base \in Nat /\ replay.slept \in Nat
      BY ReplayTypes
    <3>2. CASE e.ts > replay.base
      <4>1. e.ts - replay.base \in Nat
        BY <2>2, <3>1, <3>2
      <4> QED
        BY <3>1, <3>2, <4>1, WholeMillis, PerturbAssumption DEF Delay
    <3>3. CASE ~(e.ts > replay.base)
      BY <3>1, <3>3 DEF Delay
    <3> QED
      BY <3>2, <3>3
  <2>5. /\ replay' \in ReplayRecord /\ replay'.todo = Tail(replay.todo) /\ replay'.log = replay.log
        /\ replay'.remap = replay.remap /\ replay'.base = IF replay.base = NoTime THEN e.ts ELSE replay.base
        /\ replay'.slept = IF replay.base = NoTime THEN replay.slept ELSE replay.slept + Delay(e.ts)
    <3> DEFINE b == IF replay.base = NoTime THEN e.ts ELSE replay.base
               s == IF replay.base = NoTime THEN replay.slept ELSE replay.slept + Delay(e.ts)
    <3>1. replay \in ReplayRecord
      BY DEF PTypeOK
    <3>2. b \in Nat /\ s \in Nat
      BY <2>2, <2>4
    <3>3. replay' = [replay EXCEPT !.todo = Tail(replay.todo), !.base = b, !.slept = s]
      BY <1>9, <3>1 DEF ReplayRecord
    <3> HIDE DEF b, s
    <3>4. /\ replay' \in ReplayRecord /\ replay'.todo = Tail(replay.todo) /\ replay'.log = replay.log
          /\ replay'.remap = replay.remap /\ replay'.base = b /\ replay'.slept = s
      BY <1>4, <3>1, <3>2, <3>3 DEF ReplayRecord
    <3> QED
      BY <3>4 DEF b, s
  <2>6. /\ actor' \in [Actors -> ActorRecord]
        /\ actor'[r].pc = "signal" /\ actor'[r].cat = e.cat /\ actor'[r].to = replay.remap[e.to]
        /\ actor'[r].second = replay.remap[e.second] /\ \A b \in Actors \ {r} : actor'[b] = actor[b]
    BY <1>1, <1>9, <2>2, <2>3 DEF PTypeOK, ActorRecord, PSteps
  <2>7. PTypeOK' /\ Others(r) /\ UNCHANGED out
    BY <1>1, <2>5, <2>6 DEF PTypeOK, Others
  <2>8. ReplayAt'
    BY <1>2, <1>5, <1>7, <1>9, <2>5, <2>6 DEF ReplayAt
  <2>9. ReplaySent'
    <3>1. (T + 1) - 1 = T
      OBVIOUS
    <3> QED
      BY <1>1, <1>6, <1>7, <2>5, <2>6, <3>1 DEF ReplaySent
  <2>10. ReplayFaithful'
    BY <1>1, <1>7, <2>5, <2>6 DEF ReplayFaithful
  <2>11. ReplayNeverEarly'
    <3>1. replay'.slept + Milli > IF e.ts > replay'.base THEN e.ts - replay'.base ELSE 0
      <4>1. Milli \in Nat /\ Milli > 0
        BY PerturbAssumption
      <4>2. CASE replay.base = NoTime
        BY <2>2, <2>4, <2>5, <4>1, <4>2
      <4>3. CASE replay.base # NoTime /\ e.ts > replay.base
        <5>1. e.ts - replay.base \in Nat
          BY <2>2, <2>4, <4>3
        <5>2. Delay(e.ts) + Milli > e.ts - replay.base
          BY <4>3, <5>1, WholeMillis, PerturbAssumption DEF Delay
        <5> QED
          BY <2>2, <2>4, <2>5, <4>1, <4>3, <5>1, <5>2
      <4>4. CASE replay.base # NoTime /\ ~(e.ts > replay.base)
        BY <2>2, <2>4, <2>5, <4>1, <4>4
      <4> QED
        BY <4>2, <4>3, <4>4
    <3>2. replay'.log[Len(replay'.log) - Len(replay'.todo)] = e
      BY <1>5, <1>7, <2>5 DEF Taken
    <3> QED
      BY <3>1, <3>2 DEF ReplayNeverEarly, Offset
  <2> QED
    BY <2>7, <2>8, <2>9, <2>10, <2>11
<1> QED
  BY <1>8, <1>9 DEF ReplayNext, e

-----------------------------------------------------------------------------
(* The harness as a whole.                                                        *)

LEMMA PerturbStarts ==
  ASSUME PInit
  PROVE  PerturbInd
<1>1. (CHOOSE t \in Targets : TRUE) \in Targets /\ (CHOOSE m \in Remaps : TRUE) \in Remaps
  BY PerturbAssumption
<1>2. Idle \in ActorRecord /\ Idle.pc = "idle"
  BY <1>1 DEF Idle, ActorRecord, PSteps, Categories
<1>3. actor \in [Actors -> ActorRecord] /\ \A a \in Actors : actor[a].pc = "idle" /\ sent[a] = <<>>
  BY <1>2 DEF PInit
<1>4. out \in Seq({Header} \cup EntryBy({"none"}))
  BY PerturbAssumption DEF PInit
<1>5. {Header} \cup EntryBy({"none"}) \subseteq {Header} \cup EntryBy(Invocations \cup {"none"})
  BY DEF EntryBy
<1>6. out \in ReplayLog
  <2> DEFINE A == {Header} \cup EntryBy({"none"})
             B == {Header} \cup EntryBy(Invocations \cup {"none"})
  <2>1. out \in Seq(A) /\ A \subseteq B
    BY <1>4, <1>5
  <2> HIDE DEF A, B
  <2>2. Len(out) \in Nat /\ out \in [1 .. Len(out) -> B]
    BY <2>1
  <2>3. out \in Seq(B)
    BY <2>2
  <2> QED
    BY <2>3 DEF ReplayLog, B
<1>7. \A i \in DOMAIN out : out[i].by = "none"
  <2>1. \A x \in {Header} \cup EntryBy({"none"}) : x.by = "none"
    BY DEF Header, EntryBy
  <2> QED
    BY <1>4, <2>1
<1>8. /\ replay \in ReplayRecord /\ replay.log = <<>> /\ replay.todo = <<>>
  <2>1. <<>> \in ReplayLog
    BY DEF ReplayLog
  <2> QED
    BY <1>1, <2>1 DEF PInit, ReplayRecord, NoTime
<1>9. PTypeOK
  <2>1. <<>> \in Seq(Categories \X Targets)
    OBVIOUS
  <2>2. sent \in [Actors -> Seq(Categories \X Targets)]
    BY <2>1 DEF PInit
  <2> QED
    BY <1>3, <1>6, <1>8, <2>2 DEF PTypeOK, PInit
<1>10. Signalled
  BY <1>3, ActorNames DEF Signalled
<1>11. Recorded
  BY <1>3, <1>7, ActorNames DEF Recorded
<1>12. actor["replay"].pc = "idle" /\ sent["replay"] = <<>>
  BY <1>3, ActorNames
<1>13. Taken = 0 /\ Len(replay.log) = 0 /\ Len(sent["replay"]) = 0
  BY <1>8, <1>12 DEF Taken
<1>14. ReplayAt /\ ReplayNeverEarly
  BY <1>8, <1>12, <1>13 DEF ReplayAt, ReplayNeverEarly, Acting, Offset
<1>15. ReplaySent
  BY <1>12, <1>13, PlannedNone DEF ReplaySent
<1>16. ReplayFaithful
  BY <1>12, <1>13, PlannedNone DEF ReplayFaithful
<1> QED
  BY <1>9, <1>10, <1>11, <1>14, <1>15, <1>16 DEF PerturbInd

LEMMA PerturbSame ==
  ASSUME PerturbInd, UNCHANGED pvars, hurt \subseteq hurt'
  PROVE  PerturbInd'
<1>1. UNCHANGED <<actor, target, sent, out, replay>>
  BY DEF pvars
<1>2. PTypeOK'
  BY <1>1 DEF PerturbInd, PTypeOK
<1>3. Signalled' /\ Recorded'
  BY <1>1, HarnessKept DEF PerturbInd
<1>4. ReplayAt' /\ ReplaySent' /\ ReplayFaithful' /\ ReplayNeverEarly'
  BY <1>1, ReplayKept DEF PerturbInd
<1> QED
  BY <1>2, <1>3, <1>4 DEF PerturbInd

(* A step of one invocation leaves the replay where it is.                          *)
LEMMA InvocationKeeps ==
  ASSUME PerturbInd, NEW a \in Invocations, PTypeOK', Others(a), UNCHANGED replay, Signalled', Recorded'
  PROVE  PerturbInd'
<1>1. actor'["replay"] = actor["replay"] /\ sent'["replay"] = sent["replay"]
  BY ActorNames DEF Others
<1>2. ReplayAt' /\ ReplaySent' /\ ReplayFaithful' /\ ReplayNeverEarly'
  BY <1>1, ReplayKept DEF PerturbInd
<1> QED
  BY <1>2 DEF PerturbInd

(* A step of the replay leaves the invocations and their entries alone.             *)
LEMMA ReplayKeeps ==
  ASSUME PerturbInd, PTypeOK', Others("replay"), UNCHANGED out, hurt \subseteq hurt',
         ReplayAt', ReplaySent', ReplayFaithful', ReplayNeverEarly'
  PROVE  PerturbInd'
<1>1. \A b \in Invocations : actor'[b] = actor[b] /\ sent'[b] = sent[b]
  BY ActorNames DEF Others
<1>2. Signalled' /\ Recorded'
  BY <1>1, HarnessKept DEF PerturbInd
<1> QED
  BY <1>2 DEF PerturbInd

LEMMA HurtGrows ==
  ASSUME PerturbStep
  PROVE  hurt \subseteq hurt'
BY DEF PerturbStep, logvars, LogOpen, LogAppend, Written, AppendFails

LEMMA PerturbPreserves ==
  ASSUME OTypeOK, PerturbInd, PerturbStep
  PROVE  PerturbInd'
<1>1. hurt \subseteq hurt'
  BY HurtGrows
<1> USE DEF PerturbInd
<1>2. ASSUME NEW a \in Invocations, SinkFails(a) \/ \E request \in plan.requests : Invoke(a, request)
      PROVE  PerturbInd'
  <2>1. plan.requests \subseteq Requests
    BY DEF OTypeOK, Budget
  <2>2. SinkFails(a) \/ \E request \in Requests : Invoke(a, request)
    BY <1>2, <2>1
  <2> QED
    BY <1>1, <2>2, InvokeHonest, InvocationKeeps
<1>3. ASSUME NEW a \in Invocations, LogOpen(a) \/ LogAppend(a, TRUE) \/ LogAppend(a, FALSE)
      PROVE  PerturbInd'
  <2>1. PICK step \in {"append", "exit0"} :
          actor[a].pc \in {"log", "append"} /\ Move(a, step) /\ UNCHANGED <<target, sent, out, replay>>
    BY <1>3 DEF LogOpen, LogAppend
  <2> QED
    BY <1>1, <2>1, LateMoves, InvocationKeeps
<1>4. ASSUME NEW a \in Actors, SendSignal(a)
      PROVE  PerturbInd'
  <2>1. PTypeOK' /\ Others(a) /\ UNCHANGED <<out, replay>>
    BY <1>4, SignalSent
  <2>2. CASE a = "replay"
    <3>1. ReplayAt' /\ ReplaySent' /\ ReplayFaithful' /\ ReplayNeverEarly'
      BY <1>4, <2>2, ReplaySends
    <3> QED
      BY <1>1, <2>1, <2>2, <3>1, ReplayKeeps
  <2>3. CASE a # "replay"
    <3>1. a \in Invocations
      BY <2>3, ActorNames
    <3>2. Signalled' /\ Recorded'
      BY <1>1, <1>4, <3>1, SendHonest
    <3> QED
      BY <2>1, <3>1, <3>2, InvocationKeeps
  <2> QED
    BY <2>2, <2>3
<1>5. ASSUME NEW a \in Actors, RecordAction(a, FALSE, 1)
      PROVE  PerturbInd'
  <2>1. CASE a = "replay"
    BY <1>1, <1>5, <2>1, ReplayMoves, ReplayKeeps
  <2>2. CASE a # "replay"
    <3>1. a \in Invocations
      BY <2>2, ActorNames
    <3> QED
      BY <1>1, <1>5, <3>1, RecordHonest, InvocationKeeps
  <2> QED
    BY <2>1, <2>2
<1>6. ASSUME NEW a \in Invocations, RecordAction(a, TRUE, 1), hurt' = hurt \cup {"flush"}
      PROVE  PerturbInd'
  <2>1. PTypeOK' /\ Others(a) /\ UNCHANGED replay /\ Signalled' /\ Recorded'
    BY <1>1, <1>6, RecordHonest
  <2> QED
    BY <2>1, InvocationKeeps
<1>7. ASSUME NEW t \in Targets, Reap(t)
      PROVE  PerturbInd'
  <2>1. UNCHANGED <<actor, sent, out, replay>> /\ target' \in [Targets -> {"running", "dying", "gone"}]
    BY <1>7 DEF Reap, PTypeOK
  <2>2. PTypeOK'
    BY <2>1 DEF PTypeOK
  <2>3. Signalled' /\ Recorded'
    BY <1>1, <2>1, HarnessKept
  <2>4. ReplayAt' /\ ReplaySent' /\ ReplayFaithful' /\ ReplayNeverEarly'
    BY <2>1, ReplayKept
  <2> QED
    BY <2>2, <2>3, <2>4
<1>8. CASE StartReplay
  BY <1>1, <1>8, ReplayStarts, ReplayKeeps
<1>9. CASE ReplayNext
  BY <1>1, <1>9, ReplayLooks, ReplayKeeps
<1>10. CASE ReplayEnds
  BY <1>1, <1>10, ReplayMoves, ReplayKeeps
<1>11. ASSUME NEW a \in Invocations, RecordFails(a)
       PROVE  PerturbInd'
  BY <1>1, <1>11, RecordFailsHonest, InvocationKeeps
<1> HIDE DEF PerturbInd
<1> QED
  BY <1>2, <1>3, <1>4, <1>5, <1>6, <1>7, <1>8, <1>9, <1>10, <1>11 DEF PerturbStep

-----------------------------------------------------------------------------
(* Appends, whatever becomes of them.                                                *)

(* What an append can leave in the file.                                             *)
Left(w, what) ==
  \/ file' = file /\ "write" \in hurt'
  \/ \E cut \in Cuts \cup {"none"}, n \in Nat :
       /\ file' = Append(file, NewRecord(w, what, cut, n)) /\ NewRecord(w, what, cut, n) \in Fragment
       /\ cut = "none" \/ cut \in hurt'

LEMMA ShortenedBelow ==
  ASSUME NEW n
  PROVE  Shortened(n) \subseteq 1 .. n
<1> SUFFICES ASSUME NEW m \in Shortened(n)
             PROVE  m \in 1 .. n
  OBVIOUS
<1> QED
  BY DEF Shortened

LEMMA LogWrites ==
  ASSUME LogTypeOK, LogInd, NEW w \in Writers, writer[w].open,
         NEW what \in {"loss", "other", "applied"}, what = "applied" <=> KeyOf(w) = "perturb",
         \/ \E ok \in BOOLEAN : append(w, what, ok)
         \/ (Written(w, what) \/ AppendFails(w, what)) /\ Close(w)
  PROVE  LogTypeOK' /\ LogInd' /\ hurt \subseteq hurt' /\ Left(w, what)
<1>0. writer[w].next \in Nat \ {0}
  BY DEF LogTypeOK, LogInd, NumbersBounded
<1>1. ASSUME NEW cut \in Cuts \cup {"none"}, cut = "none" \/ cut \in hurt', hurt \subseteq hurt',
             NEW n \in 1 .. writer[w].next, cut = "none" => n = writer[w].next,
             file' = Append(file, NewRecord(w, what, cut, n)), WriterAfter(w, cut),
             hurt' \subseteq Cuts \cup {"write", "fsync", "read", "flush", "overlap"}
      PROVE  LogTypeOK' /\ LogInd' /\ Left(w, what)
  <2>1. /\ LogInd' /\ NewRecord(w, what, cut, n) \in Fragment
        /\ writer' \in [Writers -> [open : BOOLEAN, next : Nat]]
    BY <1>1, LogAppends
  <2>2. file' \in Seq(Fragment)
    BY <1>1, <2>1, Appended DEF LogTypeOK
  <2>3. n \in Nat
    BY <1>0
  <2> QED
    BY <1>1, <2>1, <2>2, <2>3 DEF LogTypeOK, Left
<1>2. CASE Written(w, what) /\ (writer' = [writer EXCEPT ![w].next = @ + 1] \/ Close(w))
  <2>1. file' = Append(file, NewRecord(w, what, "none", writer[w].next)) /\ UNCHANGED hurt
    BY <1>2 DEF Written
  <2>2. WriterAfter(w, "none")
    BY <1>2 DEF WriterAfter
  <2> QED
    BY <1>0, <1>1, <2>1, <2>2 DEF LogTypeOK
<1>3. CASE AppendFails(w, what) /\ (UNCHANGED writer \/ Close(w))
  <2>1. CASE file' = file /\ hurt' = hurt \cup {"write"}
    <3>1. LogInd' /\ writer' \in [Writers -> [open : BOOLEAN, next : Nat]]
      <4>1. CASE UNCHANGED writer
        BY <2>1, <4>1, LogSame DEF LogTypeOK
      <4>2. CASE Close(w)
        BY <2>1, <4>2, LogCloses
      <4> QED
        BY <1>3, <4>1, <4>2
    <3> QED
      BY <2>1, <3>1 DEF LogTypeOK, Left
  <2>2. ASSUME NEW cut \in Cuts, NEW n \in 1 .. writer[w].next,
               file' = Append(file, NewRecord(w, what, cut, n)), hurt' = hurt \cup {cut}
        PROVE  LogTypeOK' /\ LogInd' /\ hurt \subseteq hurt' /\ Left(w, what)
    <3>1. cut # "none"
      BY DEF Cuts, Swallows
    <3>2. WriterAfter(w, cut)
      BY <1>3, <3>1 DEF WriterAfter
    <3>3. hurt' \subseteq Cuts \cup {"write", "fsync", "read", "flush", "overlap"}
      BY <2>2 DEF LogTypeOK
    <3> QED
      BY <1>1, <2>2, <3>1, <3>2, <3>3
  <2>3. CASE file' = Append(file, NewRecord(w, what, "none", writer[w].next)) /\ hurt' = hurt \cup {"fsync"}
    <3>1. WriterAfter(w, "none")
      BY <1>3, <2>3 DEF WriterAfter
    <3>2. hurt' \subseteq Cuts \cup {"write", "fsync", "read", "flush", "overlap"}
      BY <2>3 DEF LogTypeOK
    <3> QED
      BY <1>0, <1>1, <2>3, <3>1, <3>2
  <2>4. \A cut \in Cuts :
          {writer[w].next} \cup (IF cut = "seq" THEN Shortened(writer[w].next) ELSE {}) \subseteq 1 .. writer[w].next
    BY <1>0, ShortenedBelow
  <2>5. ASSUME NEW cut \in Cuts, hurt' = hurt \cup {cut},
               NEW n \in {writer[w].next} \cup (IF cut = "seq" THEN Shortened(writer[w].next) ELSE {}),
               file' = Append(file, NewRecord(w, what, cut, n))
        PROVE  LogTypeOK' /\ LogInd' /\ hurt \subseteq hurt' /\ Left(w, what)
    <3>1. n \in 1 .. writer[w].next
      BY <2>4, <2>5
    <3> QED
      BY <2>2, <2>5, <3>1
  <2>6. CASE \E cut \in Cuts :
             /\ \E n \in {writer[w].next} \cup (IF cut = "seq" THEN Shortened(writer[w].next) ELSE {}) :
                  file' = Append(file, NewRecord(w, what, cut, n))
             /\ hurt' = hurt \cup {cut}
    BY <2>5, <2>6
  <2>7. hurt \subseteq hurt'
    BY <1>3 DEF AppendFails
  <2> DEFINE Torn == \E cut \in Cuts :
               /\ \E n \in {writer[w].next} \cup (IF cut = "seq" THEN Shortened(writer[w].next) ELSE {}) :
                    file' = Append(file, NewRecord(w, what, cut, n))
               /\ hurt' = hurt \cup {cut}
  <2>8. \/ file' = file /\ hurt' = hurt \cup {"write"}
        \/ Torn
        \/ file' = Append(file, NewRecord(w, what, "none", writer[w].next)) /\ hurt' = hurt \cup {"fsync"}
    BY <1>3 DEF AppendFails
  <2> HIDE DEF Torn
  <2>9. CASE Torn
    BY <2>6, <2>9 DEF Torn
  <2> QED
    BY <2>1, <2>3, <2>7, <2>8, <2>9
<1> QED
  BY <1>2, <1>3 DEF append

LEMMA FragmentsGrow ==
  ASSUME NEW what, NEW m \in Nat, NEW n \in Nat, m <= n
  PROVE  /\ Cardinality(Fragments(what, m)) <= Cardinality(Fragments(what, n))
         /\ (\E i \in m + 1 .. n : file[i].what = what) =>
              Cardinality(Fragments(what, m)) + 1 <= Cardinality(Fragments(what, n))
<1>1. Fragments(what, m) \subseteq Fragments(what, n)
  BY DEF Fragments
<1>2. Cardinality(Fragments(what, m)) <= Cardinality(Fragments(what, n))
  BY <1>1, FragmentsFinite, FS_Subset
<1>3. ASSUME NEW i \in m + 1 .. n, file[i].what = what
      PROVE  Cardinality(Fragments(what, m)) + 1 <= Cardinality(Fragments(what, n))
  <2>1. Fragments(what, m) \cup {i} \subseteq Fragments(what, n) /\ i \notin Fragments(what, m)
    BY <1>1, <1>3 DEF Fragments
  <2>2. Cardinality(Fragments(what, m) \cup {i}) = Cardinality(Fragments(what, m)) + 1
    BY <2>1, FragmentsFinite, FS_AddElement
  <2> QED
    BY <2>1, <2>2, FragmentsFinite, FS_Subset
<1> QED
  BY <1>2, <1>3

LEMMA FragmentsNext ==
  ASSUME NEW what, NEW n \in Nat
  PROVE  Cardinality(Fragments(what, n + 1)) =
           IF file[n + 1].what = what THEN Cardinality(Fragments(what, n)) + 1
                                      ELSE Cardinality(Fragments(what, n))
<1>1. Fragments(what, n + 1) =
        IF file[n + 1].what = what THEN Fragments(what, n) \cup {n + 1} ELSE Fragments(what, n)
  BY DEF Fragments
<1>2. n + 1 \notin Fragments(what, n)
  BY DEF Fragments
<1> QED
  BY <1>1, <1>2, FragmentsFinite, FS_AddElement

(* The fragments after an append.                                                     *)
LEMMA FragmentsAppended ==
  ASSUME file \in Seq(Fragment), NEW f \in Fragment, file' = Append(file, f), NEW what
  PROVE  Cardinality(Fragments(what, Len(file))') =
           IF f.what = what THEN Cardinality(Fragments(what, Len(file))) + 1
                            ELSE Cardinality(Fragments(what, Len(file)))
<1>1. PICK n \in Nat : n = Len(file)
  OBVIOUS
<1>2. /\ Len(file') = n + 1 /\ file'[n + 1] = f
      /\ \A i \in 1 .. n : file'[i] = file[i]
  BY <1>1, Appended
<1>3. Fragments(what, n + 1)' =
        IF f.what = what THEN Fragments(what, n) \cup {n + 1} ELSE Fragments(what, n)
  BY <1>2 DEF Fragments
<1>4. n + 1 \notin Fragments(what, n)
  BY DEF Fragments
<1>5. Fragments(what, Len(file))' = Fragments(what, n + 1)'
  BY <1>2
<1>6. IsFiniteSet(Fragments(what, n)) /\ Cardinality(Fragments(what, n) \cup {n + 1}) = Cardinality(Fragments(what, n)) + 1
  BY <1>4, FragmentsFinite, FS_AddElement
<1> QED
  BY <1>1, <1>3, <1>5, <1>6

LEMMA TimesGrows ==
  ASSUME NEW x \in Nat, NEW y \in Nat, NEW z \in Nat, y <= z
  PROVE  x * y <= x * z /\ x * y \in Nat /\ x * z \in Nat
OBVIOUS

LEMMA TimesOneLess ==
  ASSUME NEW x \in Nat, NEW y \in Nat
  PROVE  (x + 1) * y = x * y + y /\ x * y \in Nat /\ (x > 0 => (x - 1) * y + y = x * y /\ (x - 1) * y \in Nat)
OBVIOUS

-----------------------------------------------------------------------------
(* The daemon while others work.                                                      *)

DaemonInd == Positions /\ Expecting /\ CountedLoss /\ CountedApplied /\ Exact

(* What was in the file stays there.                                                   *)
FileKept ==
  /\ Len(file) \in Nat /\ Len(file') \in Nat /\ Len(file) <= Len(file')
  /\ \A x, n : n \in 0 .. Len(file) =>
       Fragments(x, n)' = Fragments(x, n) /\ Numbered(x, n)' = Numbered(x, n)

LEMMA CarriedNat ==
  ASSUME IsFiniteSet(CarriedOut({"append", "exit0"}))
  PROVE  /\ IsFiniteSet(CarriedOut({"exit0"})) /\ Cardinality(CarriedOut({"exit0"})) \in Nat
         /\ Cardinality(CarriedOut({"append", "exit0"})) \in Nat
         /\ Cardinality(CarriedOut({"exit0"})) <= Cardinality(CarriedOut({"append", "exit0"}))
<1>1. CarriedOut({"exit0"}) \subseteq CarriedOut({"append", "exit0"})
  BY DEF CarriedOut
<1> QED
  BY <1>1, FS_Subset, FS_CardinalityType

LEMMA ReaderTypes ==
  ASSUME OTypeOK, NEW r \in Readers
  PROVE  /\ rd[r] \in Reader /\ rd[r].pos \in Nat /\ rd[r].open \in BOOLEAN
         /\ \A k \in LogKeys : rd[r].expected[k] \in Nat /\ rd[r].gaps[k] \in Nat
         /\ Len(file) \in Nat /\ file \in Seq(Fragment)
BY DEF OTypeOK, Reader, LogTypeOK

LEMMA DaemonWaits ==
  ASSUME OTypeOK, DaemonInd, UNCHANGED dvars, hurt \subseteq hurt', FileKept,
         emits' \in Nat, emits <= emits', Cardinality(Fragments("loss", Len(file))') <= emits',
         hurt' \subseteq Harmless \ {"write"} => Cardinality(Fragments("loss", Len(file))') = emits',
         IsFiniteSet(CarriedOut({"append", "exit0"})'), Cardinality(CarriedOut({"exit0"})') \in Nat,
         Cardinality(CarriedOut({"exit0"})) <= Cardinality(CarriedOut({"exit0"})'),
         Cardinality(Fragments("applied", Len(file))') <= Cardinality(CarriedOut({"exit0"})')
  PROVE  DaemonInd'
<1>1. UNCHANGED <<pc, rd, dataLoss, applied, gapsShown, opens>>
  BY DEF dvars
<1>2. /\ \A r \in Readers : rd[r].pos \in 0 .. Len(file)
      /\ "loss" \in Readers /\ "collector" \in Readers
  BY ReaderTypes DEF DaemonInd, Positions, Readers
<1>3. opens \in Nat /\ dataLoss \in Nat /\ applied \in Nat /\ emits \in Nat
  BY ObsAssumption DEF OTypeOK
<1>4. Positions'
  BY <1>1, <1>2 DEF DaemonInd, Positions, FileKept
<1>5. Expecting'
  <2>1. \A r \in Readers, k \in LogKeys : Numbered(k, rd[r].pos)' = Numbered(k, rd[r].pos)
    <3> SUFFICES ASSUME NEW r \in Readers, NEW k \in LogKeys
                 PROVE  Numbered(k, rd[r].pos)' = Numbered(k, rd[r].pos)
      OBVIOUS
    <3>1. PICK p \in 0 .. Len(file) : p = rd[r].pos
      BY <1>2
    <3>2. Numbered(k, p)' = Numbered(k, p) /\ p = rd'[r].pos
      BY <1>1, <3>1 DEF FileKept
    <3> QED
      BY <3>1, <3>2
  <2>2. \A k \in LogKeys : Unbroken(k)' => Unbroken(k)
    BY UnbrokenBefore
  <2> QED
    BY <1>1, <2>1, <2>2 DEF DaemonInd, Expecting
<1>6. PICK p \in 0 .. Len(file), c \in 0 .. Len(file) : p = rd["loss"].pos /\ c = rd["collector"].pos
  BY <1>2
<1>7. /\ Fragments("loss", p)' = Fragments("loss", p) /\ Fragments("applied", c)' = Fragments("applied", c)
      /\ rd'["loss"].pos = p /\ rd'["collector"].pos = c
  BY <1>1, <1>6 DEF FileKept
<1>8. /\ Cardinality(Fragments("loss", p)) \in Nat /\ Cardinality(Fragments("applied", c)) \in Nat
  BY FragmentsFinite DEF FileKept
<1>9. rd["loss"].open \/ rd["collector"].open => opens > 0
  BY <1>2 DEF DaemonInd, Positions
<1>10. CountedLoss'
  <2>1. PICK d \in Nat, e \in Nat : d = emits /\ e = emits' /\ d <= e
    BY <1>3
  <2>2. /\ dataLoss <= opens * d
        /\ rd["loss"].open => dataLoss <= (opens - 1) * d + Cardinality(Fragments("loss", p))
    BY <1>6, <2>1 DEF DaemonInd, CountedLoss
  <2>3. opens * d <= opens * e /\ opens * d \in Nat /\ opens * e \in Nat
    BY <1>3, <2>1, TimesGrows
  <2>4. dataLoss <= opens * e
    BY <1>3, <2>2, <2>3
  <2>5. ASSUME rd["loss"].open
        PROVE  dataLoss <= (opens - 1) * e + Cardinality(Fragments("loss", p))
    <3>1. opens - 1 \in Nat
      BY <1>3, <1>9, <2>5
    <3>2. (opens - 1) * d <= (opens - 1) * e /\ (opens - 1) * d \in Nat /\ (opens - 1) * e \in Nat
      BY <2>1, <3>1, TimesGrows
    <3> QED
      BY <1>3, <1>8, <2>2, <2>5, <3>2
  <2> QED
    BY <1>1, <1>7, <2>1, <2>4, <2>5 DEF CountedLoss
<1>11. CountedApplied'
  <2> DEFINE d == Cardinality(CarriedOut({"exit0"}))
             e == Cardinality(CarriedOut({"exit0"})')
  <2>1. d \in Nat /\ e \in Nat /\ d <= e
    BY CarriedNat DEF DaemonInd, CountedApplied
  <2>2. /\ applied <= opens * d
        /\ rd["collector"].open => applied <= (opens - 1) * d + Cardinality(Fragments("applied", c))
    BY <1>6 DEF DaemonInd, CountedApplied
  <2> HIDE DEF d, e
  <2>3. opens * d <= opens * e /\ opens * d \in Nat /\ opens * e \in Nat
    BY <1>3, <2>1, TimesGrows
  <2>4. applied <= opens * e
    BY <1>3, <2>2, <2>3
  <2>5. ASSUME rd["collector"].open
        PROVE  applied <= (opens - 1) * e + Cardinality(Fragments("applied", c))
    <3>1. opens - 1 \in Nat
      BY <1>3, <1>9, <2>5
    <3>2. (opens - 1) * d <= (opens - 1) * e /\ (opens - 1) * d \in Nat /\ (opens - 1) * e \in Nat
      BY <2>1, <3>1, TimesGrows
    <3> QED
      BY <1>3, <1>8, <2>2, <2>5, <3>2
  <2> QED
    BY <1>1, <1>7, <2>4, <2>5 DEF CountedApplied, e
<1>12. Exact'
  <2> SUFFICES ASSUME hurt' \subseteq Harmless \ {"write"}
               PROVE  Exact'
    BY DEF Exact
  <2>1. hurt \subseteq Harmless \ {"write"}
    OBVIOUS
  <2> QED
    BY <1>1, <1>6, <1>7, <2>1 DEF DaemonInd, Exact
<1> QED
  BY <1>4, <1>5, <1>10, <1>11, <1>12 DEF DaemonInd

LEMMA FileSame ==
  ASSUME file \in Seq(Fragment), UNCHANGED file
  PROVE  FileKept /\ \A x : Fragments(x, Len(file))' = Fragments(x, Len(file))
<1>1. Len(file) \in Nat
  OBVIOUS
<1>2. \A x, n : Fragments(x, n)' = Fragments(x, n) /\ Numbered(x, n)' = Numbered(x, n)
  BY DEF Fragments, Numbered
<1> QED
  BY <1>1, <1>2 DEF FileKept

LEMMA FileLeft ==
  ASSUME file \in Seq(Fragment), NEW w, NEW what, Left(w, what)
  PROVE  /\ FileKept
         /\ \A x : LET was == Cardinality(Fragments(x, Len(file)))
                       is  == Cardinality(Fragments(x, Len(file))') IN
                   /\ was \in Nat /\ is \in Nat
                   /\ is <= IF x = what THEN was + 1 ELSE was
                   /\ "write" \in hurt' \/ (is = IF x = what THEN was + 1 ELSE was)
<1>0. Len(file) \in Nat /\ \A x : Cardinality(Fragments(x, Len(file))) \in Nat
  BY FragmentsFinite
<1>1. CASE file' = file /\ "write" \in hurt'
  BY <1>0, <1>1, FileSame
<1>2. ASSUME NEW cut, NEW n, file' = Append(file, NewRecord(w, what, cut, n)),
             NewRecord(w, what, cut, n) \in Fragment
      PROVE  /\ FileKept
             /\ \A x : Cardinality(Fragments(x, Len(file))') =
                         IF x = what THEN Cardinality(Fragments(x, Len(file))) + 1
                                     ELSE Cardinality(Fragments(x, Len(file)))
  <2> DEFINE f == NewRecord(w, what, cut, n)
  <2>1. f.what = what
    BY DEF NewRecord
  <2> HIDE DEF f
  <2>2. f \in Fragment /\ file' = Append(file, f)
    BY <1>2 DEF f
  <2>3. FileKept
    BY <2>2, Appended DEF FileKept
  <2> QED
    BY <2>1, <2>2, <2>3, FragmentsAppended
<1> QED
  BY <1>0, <1>1, <1>2 DEF Left

LEMMA CarriedSame ==
  ASSUME UNCHANGED <<actor, sent>>, NEW steps
  PROVE  CarriedOut(steps)' = CarriedOut(steps)
BY DEF CarriedOut

LEMMA Spends ==
  ASSUME plan \in Budget
  PROVE  /\ \A n \in Nat : n > 0 => n - 1 \in Nat
         /\ Spend("starts") => plan' \in Budget
         /\ Spend("invocations") => plan' \in Budget
         /\ Spend("wfaults") => plan' \in Budget
         /\ Spend("flushes") => plan' \in Budget
         /\ Spend("rfaults") => plan' \in Budget
         /\ Spend("restarts") => plan' \in Budget
         /\ Spend("replay") => plan' \in Budget
<1>1. \A n \in Nat : n > 0 => n - 1 \in Nat
  OBVIOUS
<1>2. Spend("starts") => plan' \in Budget
  BY <1>1 DEF Spend, Budget
<1>3. Spend("invocations") => plan' \in Budget
  BY <1>1 DEF Spend, Budget
<1>4. Spend("wfaults") => plan' \in Budget
  BY <1>1 DEF Spend, Budget
<1>5. Spend("flushes") => plan' \in Budget
  BY <1>1 DEF Spend, Budget
<1>6. Spend("rfaults") => plan' \in Budget
  BY <1>1 DEF Spend, Budget
<1>7. Spend("restarts") => plan' \in Budget
  BY <1>1 DEF Spend, Budget
<1>8. Spend("replay") => plan' \in Budget
  BY <1>1 DEF Spend, Budget
<1> QED
  BY <1>1, <1>2, <1>3, <1>4, <1>5, <1>6, <1>7, <1>8

-----------------------------------------------------------------------------
(* The supervisor.                                                                      *)

(* Its steps leave the harness and the daemon alone.                                    *)
LEMMA SupervisorKeeps ==
  ASSUME OInd, UNCHANGED <<pvars, dvars>>, hurt \subseteq hurt', FileKept,
         emits' \in Nat, emits <= emits', Cardinality(Fragments("loss", Len(file))') <= emits',
         hurt' \subseteq Harmless \ {"write"} => Cardinality(Fragments("loss", Len(file))') = emits',
         Cardinality(Fragments("applied", Len(file))') <= Cardinality(Fragments("applied", Len(file)))
  PROVE  PerturbInd' /\ DaemonInd'
<1>1. UNCHANGED <<actor, target, sent, out, replay>>
  BY DEF pvars
<1>2. PerturbInd'
  BY PerturbSame DEF OInd
<1>3. OTypeOK /\ DaemonInd /\ LogTypeOK
  BY DEF OInd, DaemonInd, OTypeOK
<1>4. \A steps : CarriedOut(steps)' = CarriedOut(steps)
  BY <1>1, CarriedSame
<1>5. /\ IsFiniteSet(CarriedOut({"append", "exit0"})) /\ Cardinality(CarriedOut({"exit0"})) \in Nat
      /\ Cardinality(Fragments("applied", Len(file))) <= Cardinality(CarriedOut({"exit0"}))
  BY <1>3, CarriedNat DEF DaemonInd, CountedApplied
<1>6. Cardinality(Fragments("applied", Len(file))') <= Cardinality(CarriedOut({"exit0"})')
  <2>1. Cardinality(Fragments("applied", Len(file))) \in Nat /\ Cardinality(Fragments("applied", Len(file))') \in Nat
    BY FragmentsFinite, PositionsFinite DEF FileKept, Fragments
  <2> QED
    BY <1>4, <1>5, <2>1
<1> QED
  BY <1>2, <1>3, <1>4, <1>5, <1>6, DaemonWaits

LEMMA SupStarts ==
  ASSUME OInd, SupStart
  PROVE  OInd'
<1>1. UNCHANGED <<file, hurt, pvars, dvars, emits>> /\ sup' = "up" /\ Spend("starts")
  BY DEF SupStart
<1>2. LogTypeOK /\ LogInd /\ OTypeOK /\ "supervisor" \in Writers /\ DaemonInd /\ file \in Seq(Fragment)
  BY WriterKeys DEF OInd, OTypeOK, DaemonInd, LogTypeOK
<1>3. LogInd' /\ writer' \in [Writers -> [open : BOOLEAN, next : Nat]]
  <2>1. CASE Open("supervisor")
    BY <1>1, <1>2, <2>1, LogOpens, LogAssumption
  <2>2. CASE OpenFails("supervisor")
    BY <1>1, <1>2, <2>2, LogSame DEF OpenFails, LogTypeOK
  <2> QED
    BY <2>1, <2>2 DEF SupStart
<1>4. \A a \in Invocations : writer'[a] = writer[a]
  <2>1. \A a \in Invocations : a \in Writers /\ a # "supervisor"
    BY LogAssumption DEF Writers
  <2> QED
    BY <1>2, <2>1 DEF SupStart, Open, OpenFails, LogTypeOK
<1>5. WritersOpen'
  BY <1>1, <1>4 DEF OInd, WritersOpen, pvars
<1>6. PerturbInd' /\ DaemonInd'
  <2>1. FileKept /\ \A x : Fragments(x, Len(file))' = Fragments(x, Len(file))
    BY <1>1, <1>2, FileSame
  <2>2. /\ emits \in Nat /\ Cardinality(Fragments("loss", Len(file))) <= emits
        /\ Cardinality(Fragments("applied", Len(file))) \in Nat
        /\ hurt \subseteq Harmless \ {"write"} => Cardinality(Fragments("loss", Len(file))) = emits
    BY <1>2, FragmentsFinite DEF DaemonInd, CountedLoss, Exact, OTypeOK
  <2>3. emits' = emits /\ hurt' = hurt
    BY <1>1
  <2> QED
    BY <1>1, <2>1, <2>2, <2>3, SupervisorKeeps
<1>7. OTypeOK'
  <2>1. LogTypeOK'
    BY <1>1, <1>2, <1>3 DEF LogTypeOK
  <2>2. plan' \in Budget
    BY <1>1, <1>2, Spends DEF OTypeOK
  <2> QED
    BY <1>1, <1>2, <1>6, <2>1, <2>2 DEF OTypeOK, PerturbInd, dvars
<1> QED
  BY <1>3, <1>5, <1>6, <1>7 DEF OInd, DaemonInd

LEMMA SupStops ==
  ASSUME OInd, SupEnds
  PROVE  OInd'
<1>1. UNCHANGED <<file, hurt, pvars, dvars, plan, emits>> /\ sup' = "down" /\ Close("supervisor")
  BY DEF SupEnds
<1>2. LogTypeOK /\ LogInd /\ OTypeOK /\ "supervisor" \in Writers /\ DaemonInd /\ file \in Seq(Fragment)
  BY WriterKeys DEF OInd, OTypeOK, DaemonInd, LogTypeOK
<1>3. LogInd' /\ writer' \in [Writers -> [open : BOOLEAN, next : Nat]]
  BY <1>1, <1>2, LogCloses
<1>4. /\ \A a \in Invocations : writer'[a] = writer[a]
      /\ ~writer'["supervisor"].open
  <2>1. \A a \in Invocations : a \in Writers /\ a # "supervisor"
    BY LogAssumption DEF Writers
  <2> QED
    BY <1>1, <1>2, <2>1 DEF Close, Closed, LogTypeOK
<1>5. WritersOpen'
  BY <1>1, <1>4 DEF OInd, WritersOpen, pvars
<1>6. PerturbInd' /\ DaemonInd'
  <2>1. FileKept /\ \A x : Fragments(x, Len(file))' = Fragments(x, Len(file))
    BY <1>1, <1>2, FileSame
  <2>2. /\ emits \in Nat /\ Cardinality(Fragments("loss", Len(file))) <= emits
        /\ Cardinality(Fragments("applied", Len(file))) \in Nat
        /\ hurt \subseteq Harmless \ {"write"} => Cardinality(Fragments("loss", Len(file))) = emits
    BY <1>2, FragmentsFinite DEF DaemonInd, CountedLoss, Exact, OTypeOK
  <2>3. emits' = emits /\ hurt' = hurt
    BY <1>1
  <2> QED
    BY <1>1, <2>1, <2>2, <2>3, SupervisorKeeps
<1>7. OTypeOK'
  <2>1. LogTypeOK'
    BY <1>1, <1>2, <1>3 DEF LogTypeOK
  <2> QED
    BY <1>1, <1>2, <1>6, <2>1 DEF OTypeOK, PerturbInd, dvars
<1> QED
  BY <1>3, <1>5, <1>6, <1>7 DEF OInd, DaemonInd

LEMMA Emits ==
  ASSUME OInd, NEW what \in {"loss", "other"}, NEW ok \in BOOLEAN, Emit(what, ok),
         UNCHANGED <<pvars, dvars>>, sup' \in {"up", "failsafe", "ending"}, plan' \in Budget
  PROVE  OInd'
<1>1. LogTypeOK /\ LogInd /\ OTypeOK /\ "supervisor" \in Writers /\ DaemonInd /\ file \in Seq(Fragment)
  BY WriterKeys DEF OInd, OTypeOK, DaemonInd, LogTypeOK
<1>2. /\ emits \in Nat /\ Cardinality(Fragments("loss", Len(file))) <= emits
      /\ \A x : Cardinality(Fragments(x, Len(file))) \in Nat
      /\ hurt \subseteq Harmless \ {"write"} => Cardinality(Fragments("loss", Len(file))) = emits
  BY <1>1, FragmentsFinite DEF DaemonInd, CountedLoss, Exact, OTypeOK
<1>3. ASSUME LogTypeOK', LogInd', WritersOpen', PerturbInd', DaemonInd', emits' \in Nat
      PROVE  OInd'
  <2>1. OTypeOK'
    BY <1>1, <1>3 DEF OTypeOK, PerturbInd, dvars
  <2> QED
    BY <1>3, <2>1 DEF OInd, DaemonInd
<1>4. CASE UNCHANGED <<logvars, emits>>
  <2>1. UNCHANGED <<file, writer, hurt, emits>>
    BY <1>4 DEF logvars
  <2>2. FileKept /\ \A x : Fragments(x, Len(file))' = Fragments(x, Len(file))
    BY <1>1, <2>1, FileSame
  <2>3. LogTypeOK' /\ LogInd'
    BY <1>1, <2>1, LogSame DEF LogTypeOK
  <2>4. WritersOpen'
    BY <2>1 DEF OInd, WritersOpen, pvars
  <2>5. PerturbInd' /\ DaemonInd'
    BY <1>2, <2>1, <2>2, SupervisorKeeps
  <2> QED
    BY <1>2, <1>3, <2>1, <2>3, <2>4, <2>5
<1>5. CASE /\ writer["supervisor"].open /\ append("supervisor", what, ok)
           /\ emits' = IF what = "loss" THEN emits + 1 ELSE emits
  <2>1. LogTypeOK' /\ LogInd' /\ hurt \subseteq hurt' /\ Left("supervisor", what)
    <3>1. what = "applied" <=> KeyOf("supervisor") = "perturb"
      BY WriterKeys
    <3> QED
      BY <1>1, <1>5, <3>1, LogWrites
  <2>2. /\ FileKept
        /\ \A x : LET was == Cardinality(Fragments(x, Len(file)))
                      is  == Cardinality(Fragments(x, Len(file))') IN
                  /\ was \in Nat /\ is \in Nat
                  /\ is <= IF x = what THEN was + 1 ELSE was
                  /\ "write" \in hurt' \/ (is = IF x = what THEN was + 1 ELSE was)
    BY <1>1, <2>1, FileLeft
  <2>3. /\ emits' \in Nat /\ emits <= emits'
        /\ Cardinality(Fragments("loss", Len(file))') <= emits'
        /\ Cardinality(Fragments("applied", Len(file))') <= Cardinality(Fragments("applied", Len(file)))
    BY <1>2, <1>5, <2>2
  <2>4. ASSUME hurt' \subseteq Harmless \ {"write"}
        PROVE  Cardinality(Fragments("loss", Len(file))') = emits'
    <3>1. "write" \notin hurt' /\ hurt \subseteq Harmless \ {"write"}
      BY <2>1, <2>4
    <3> QED
      BY <1>2, <1>5, <2>2, <3>1
  <2>5. PerturbInd' /\ DaemonInd'
    BY <2>1, <2>2, <2>3, <2>4, SupervisorKeeps
  <2>6. WritersOpen'
    <3>1. \A w \in Writers : writer'[w].open = writer[w].open
      BY <1>1, <1>5 DEF append, LogTypeOK
    <3> QED
      BY <3>1, WriterKeys DEF OInd, WritersOpen, pvars
  <2> QED
    BY <1>3, <2>1, <2>3, <2>5, <2>6
<1> QED
  BY <1>4, <1>5 DEF Emit

LEMMA SupEmits ==
  ASSUME OInd, Event \/ Loss
  PROVE  OInd'
<1>1. plan \in Budget /\ \A n \in Nat : n > 0 => n - 1 \in Nat
  BY DEF OInd, OTypeOK
<1>2. CASE Event
  <2>1. PICK ok \in BOOLEAN :
          /\ Emit("other", ok)
          /\ plan' = [plan EXCEPT !.events = @ - 1, !.wfaults = IF ok THEN @ ELSE @ - 1]
          /\ ok \/ plan.wfaults > 0
    BY <1>2 DEF Event
  <2>2. plan.events > 0 /\ UNCHANGED <<pvars, dvars>>
    BY <1>2 DEF Event
  <2>3. sup' \in {"up", "failsafe", "ending"}
    BY <1>2 DEF Event
  <2>4. plan' \in Budget
    BY <1>1, <2>1, <2>2 DEF Budget
  <2> QED
    BY <2>1, <2>2, <2>3, <2>4, Emits
<1>3. CASE Loss
  <2>1. PICK ok \in BOOLEAN :
          /\ Emit("loss", ok)
          /\ plan' = [plan EXCEPT !.losses = @ - 1, !.wfaults = IF ok THEN @ ELSE @ - 1]
          /\ ok \/ plan.wfaults > 0
    BY <1>3 DEF Loss
  <2>2. plan.losses > 0 /\ UNCHANGED <<pvars, dvars>>
    BY <1>3 DEF Loss
  <2>3. sup' \in {"up", "failsafe", "ending"}
    BY <1>3 DEF Loss
  <2>4. plan' \in Budget
    BY <1>1, <2>1, <2>2 DEF Budget
  <2> QED
    BY <2>1, <2>2, <2>3, <2>4, Emits
<1> QED
  BY <1>2, <1>3

-----------------------------------------------------------------------------
(* The harness and the log.                                                              *)

LEMMA CarriedGrows ==
  ASSUME IsFiniteSet(CarriedOut({"append", "exit0"})), NEW a \in Actors, Others(a),
         a \in Invocations => actor[a].pc # "exit0"
  PROVE  /\ IsFiniteSet(CarriedOut({"append", "exit0"})')
         /\ Cardinality(CarriedOut({"exit0"})') \in Nat /\ Cardinality(CarriedOut({"exit0"})) \in Nat
         /\ Cardinality(CarriedOut({"exit0"})') = IF a \in CarriedOut({"exit0"})'
                                                THEN Cardinality(CarriedOut({"exit0"})) + 1
                                                ELSE Cardinality(CarriedOut({"exit0"}))
<1>1. \A b \in Invocations : b # a => actor'[b] = actor[b] /\ sent'[b] = sent[b]
  BY ActorNames DEF Others
<1>2. CarriedOut({"append", "exit0"})' \subseteq CarriedOut({"append", "exit0"}) \cup {a}
  BY <1>1 DEF CarriedOut
<1>3. CarriedOut({"exit0"})' = IF a \in CarriedOut({"exit0"})' THEN CarriedOut({"exit0"}) \cup {a}
                                                             ELSE CarriedOut({"exit0"})
  <2>1. \A b : b # a => (b \in CarriedOut({"exit0"})' <=> b \in CarriedOut({"exit0"}))
    BY <1>1 DEF CarriedOut
  <2>2. a \notin CarriedOut({"exit0"})
    BY DEF CarriedOut
  <2> QED
    BY <2>1, <2>2
<1>4. a \notin CarriedOut({"exit0"})
  BY DEF CarriedOut
<1>5. IsFiniteSet(CarriedOut({"append", "exit0"})')
  <2>1. IsFiniteSet(CarriedOut({"append", "exit0"}) \cup {a})
    BY FS_AddElement
  <2> QED
    BY <1>2, <2>1, FS_Subset
<1>6. IsFiniteSet(CarriedOut({"exit0"})) /\ Cardinality(CarriedOut({"exit0"})) \in Nat
  BY CarriedNat
<1>7. Cardinality(CarriedOut({"exit0"}) \cup {a}) = Cardinality(CarriedOut({"exit0"})) + 1
  BY <1>4, <1>6, FS_AddElement
<1> QED
  BY <1>3, <1>5, <1>6, <1>7

(* A step of the harness that writes nothing to the log.                                  *)
LEMMA HarnessKeeps ==
  ASSUME OInd, UNCHANGED <<dvars, sup, emits, file>>, hurt \subseteq hurt', plan' \in Budget,
         LogTypeOK', LogInd', PerturbInd', WritersOpen',
         NEW a \in Actors, Others(a), a \in Invocations => actor[a].pc # "exit0"
  PROVE  OInd'
<1>1. LogTypeOK /\ OTypeOK /\ DaemonInd /\ file \in Seq(Fragment)
  BY DEF OInd, OTypeOK, DaemonInd, LogTypeOK
<1>2. /\ emits \in Nat /\ Cardinality(Fragments("loss", Len(file))) <= emits
      /\ Cardinality(Fragments("applied", Len(file))) \in Nat
      /\ hurt \subseteq Harmless \ {"write"} => Cardinality(Fragments("loss", Len(file))) = emits
      /\ Cardinality(Fragments("applied", Len(file))) <= Cardinality(CarriedOut({"exit0"}))
      /\ IsFiniteSet(CarriedOut({"append", "exit0"}))
  BY <1>1, FragmentsFinite DEF DaemonInd, CountedLoss, CountedApplied, Exact, OTypeOK
<1>3. FileKept /\ \A x : Fragments(x, Len(file))' = Fragments(x, Len(file))
  BY <1>1, FileSame
<1>4. /\ IsFiniteSet(CarriedOut({"append", "exit0"})')
      /\ Cardinality(CarriedOut({"exit0"})') \in Nat /\ Cardinality(CarriedOut({"exit0"})) \in Nat
      /\ Cardinality(CarriedOut({"exit0"})) <= Cardinality(CarriedOut({"exit0"})')
  BY <1>2, CarriedGrows
<1>5. emits' = emits
  OBVIOUS
<1>6. Cardinality(Fragments("applied", Len(file))') <= Cardinality(CarriedOut({"exit0"})')
  BY <1>2, <1>3, <1>4
<1>7. DaemonInd'
  BY <1>1, <1>2, <1>3, <1>4, <1>5, <1>6, DaemonWaits
<1>8. OTypeOK'
  BY <1>1 DEF OTypeOK, PerturbInd, dvars
<1> QED
  BY <1>7, <1>8 DEF OInd, DaemonInd

(* A step outside the log: the writers stay as they are.                                   *)
LEMMA QuietSteps ==
  ASSUME OInd, UNCHANGED <<dvars, sup, emits, file, writer>>, hurt' \in {hurt, hurt \cup {"flush"}},
         plan' \in Budget, PerturbInd', NEW a \in Actors, Others(a),
         a \in Invocations =>
           /\ actor[a].pc \notin {"exit0", "append"} /\ actor'[a].pc # "append"
           /\ actor'[a].pc = "log" => actor'[a].logging
  PROVE  OInd'
<1>1. LogTypeOK /\ LogInd /\ WritersOpen
  BY DEF OInd, OTypeOK
<1>2. LogTypeOK' /\ LogInd'
  BY <1>1, LogSame DEF LogTypeOK
<1>3. WritersOpen'
  <2>1. \A b \in Invocations : b # a => actor'[b] = actor[b]
    BY ActorNames DEF Others
  <2> QED
    BY <1>1, <2>1 DEF WritersOpen
<1> QED
  BY <1>2, <1>3, HarnessKeeps

LEMMA HarnessLogs ==
  ASSUME OInd, UNCHANGED <<dvars, sup, emits>>, PerturbInd', NEW a \in Invocations, plan' \in Budget,
         LogOpen(a) \/ LogAppend(a, TRUE) \/ LogAppend(a, FALSE)
  PROVE  OInd'
<1>1. /\ LogTypeOK /\ LogInd /\ WritersOpen /\ OTypeOK /\ DaemonInd /\ file \in Seq(Fragment)
      /\ PTypeOK /\ Signalled /\ Recorded
  BY DEF OInd, OTypeOK, DaemonInd, LogTypeOK, PerturbInd
<1>2. /\ a \in Actors /\ a \in Writers /\ a # "supervisor" /\ KeyOf(a) = "perturb"
      /\ \A b \in Invocations : b \in Actors /\ b \in Writers
  BY ActorNames, WriterKeys, LogAssumption
<1>3. ASSUME NEW step \in {"append", "exit0"}, Move(a, step), UNCHANGED sent
      PROVE  /\ Others(a) /\ actor'[a].pc = step /\ actor'[a].logging = actor[a].logging
             /\ actor'[a].cat = actor[a].cat /\ actor'[a].to = actor[a].to
             /\ actor'[a].second = actor[a].second
             /\ \A b \in Invocations : b # a => actor'[b] = actor[b]
  BY <1>1, <1>2, <1>3, MoveIs DEF PSteps, Others
<1>4. CASE LogOpen(a)
  <2>1. /\ actor[a].pc = "log" /\ UNCHANGED <<file, target, sent, out, replay>>
        /\ hurt' = IF \E b \in Invocations \ {a} : writer[b].open THEN hurt \cup {"overlap"} ELSE hurt
    BY <1>4 DEF LogOpen
  <2>2. hurt \subseteq hurt' /\ hurt' \subseteq Cuts \cup {"write", "fsync", "read", "flush", "overlap"}
    BY <1>1, <2>1 DEF LogTypeOK
  <2>3. actor[a].logging
    BY <1>1, <2>1 DEF WritersOpen
  <2>4. CASE Open(a) /\ Move(a, "append")
    <3>1. LogInd' /\ writer' \in [Writers -> [open : BOOLEAN, next : Nat]]
      BY <1>1, <1>2, <2>1, <2>2, <2>4, LogOpens
    <3>2. writer'[a].open /\ \A w \in Writers : w # a => writer'[w] = writer[w]
      BY <1>1, <1>2, <2>4 DEF Open, LogTypeOK
    <3>3. LogTypeOK'
      BY <1>1, <2>1, <2>2, <3>1 DEF LogTypeOK
    <3>4. Others(a) /\ WritersOpen'
      <4>1. /\ Others(a) /\ actor'[a].pc = "append" /\ actor'[a].logging = actor[a].logging
            /\ \A b \in Invocations : b # a => actor'[b] = actor[b]
        BY <1>3, <2>1, <2>4
      <4> QED
        BY <1>1, <1>2, <2>3, <3>2, <4>1, WriterKeys DEF WritersOpen
    <3> QED
      BY <1>2, <2>1, <2>2, <3>1, <3>3, <3>4, HarnessKeeps
  <2>5. CASE OpenFails(a) /\ Move(a, "exit0")
    <3>1. UNCHANGED writer /\ ~writer[a].open
      BY <2>5 DEF OpenFails
    <3>2. LogInd' /\ LogTypeOK'
      BY <1>1, <2>1, <2>2, <3>1, LogSame DEF LogTypeOK
    <3>3. Others(a) /\ WritersOpen'
      <4>1. /\ Others(a) /\ actor'[a].pc = "exit0"
            /\ \A b \in Invocations : b # a => actor'[b] = actor[b]
        BY <1>3, <2>1, <2>5
      <4> QED
        BY <1>1, <3>1, <4>1 DEF WritersOpen
    <3> QED
      BY <1>2, <2>1, <2>2, <3>2, <3>3, HarnessKeeps
  <2> QED
    BY <1>4, <2>4, <2>5 DEF LogOpen
<1>5. CASE LogAppend(a, TRUE) \/ LogAppend(a, FALSE)
  <2>1. /\ actor[a].pc = "append" /\ UNCHANGED <<target, sent, out, replay>> /\ Move(a, "exit0")
        /\ Close(a) /\ (Written(a, "applied") \/ AppendFails(a, "applied"))
    BY <1>5 DEF LogAppend
  <2>2. writer[a].open /\ actor[a].logging
    BY <1>1, <2>1 DEF WritersOpen
  <2>3. LogTypeOK' /\ LogInd' /\ hurt \subseteq hurt' /\ Left(a, "applied")
    BY <1>1, <1>2, <2>1, <2>2, LogWrites
  <2>4. /\ FileKept
        /\ \A x : LET was == Cardinality(Fragments(x, Len(file)))
                      is  == Cardinality(Fragments(x, Len(file))') IN
                  /\ was \in Nat /\ is \in Nat
                  /\ is <= IF x = "applied" THEN was + 1 ELSE was
                  /\ "write" \in hurt' \/ (is = IF x = "applied" THEN was + 1 ELSE was)
    BY <1>1, <2>3, FileLeft
  <2>5. /\ Others(a) /\ actor'[a].pc = "exit0" /\ actor'[a].logging
        /\ actor'[a].cat = actor[a].cat /\ actor'[a].to = actor[a].to
        /\ actor'[a].second = actor[a].second
        /\ \A b \in Invocations : b # a => actor'[b] = actor[b]
    BY <1>3, <2>1, <2>2
  <2>6. sent[a] = Signals(actor[a].cat, actor[a].to, actor[a].second)
    BY <1>1, <2>1 DEF Signalled
  <2>7. a \in CarriedOut({"exit0"})'
    BY <2>1, <2>5, <2>6 DEF CarriedOut
  <2>8. /\ emits \in Nat /\ Cardinality(Fragments("loss", Len(file))) <= emits
        /\ hurt \subseteq Harmless \ {"write"} => Cardinality(Fragments("loss", Len(file))) = emits
        /\ Cardinality(Fragments("applied", Len(file))) <= Cardinality(CarriedOut({"exit0"}))
        /\ IsFiniteSet(CarriedOut({"append", "exit0"}))
    BY <1>1 DEF DaemonInd, CountedLoss, CountedApplied, Exact, OTypeOK
  <2>9. /\ IsFiniteSet(CarriedOut({"append", "exit0"})')
        /\ Cardinality(CarriedOut({"exit0"})') \in Nat /\ Cardinality(CarriedOut({"exit0"})) \in Nat
        /\ Cardinality(CarriedOut({"exit0"})') = Cardinality(CarriedOut({"exit0"})) + 1
    BY <1>2, <2>1, <2>5, <2>7, <2>8, CarriedGrows
  <2>10. /\ Cardinality(Fragments("applied", Len(file))') <= Cardinality(CarriedOut({"exit0"})')
         /\ Cardinality(CarriedOut({"exit0"})) <= Cardinality(CarriedOut({"exit0"})')
    BY <2>4, <2>8, <2>9
  <2>11. Cardinality(Fragments("loss", Len(file))') <= emits
    BY <2>4, <2>8
  <2>12. ASSUME hurt' \subseteq Harmless \ {"write"}
         PROVE  Cardinality(Fragments("loss", Len(file))') = emits
    <3>1. "write" \notin hurt' /\ hurt \subseteq Harmless \ {"write"}
      BY <2>3, <2>12
    <3> QED
      BY <2>4, <2>8, <3>1
  <2>13. emits' = emits
    OBVIOUS
  <2>14. DaemonInd'
    BY <1>1, <2>3, <2>4, <2>8, <2>9, <2>10, <2>11, <2>12, <2>13, DaemonWaits
  <2>15. WritersOpen'
    <3>1. ~writer'[a].open /\ \A w \in Writers : w # a => writer'[w] = writer[w]
      BY <1>1, <1>2, <2>1 DEF Close, Closed, LogTypeOK
    <3> QED
      BY <1>1, <1>2, <2>5, <3>1, WriterKeys DEF WritersOpen
  <2>16. OTypeOK'
    BY <1>1, <2>3 DEF OTypeOK, PerturbInd, dvars
  <2> QED
    BY <2>3, <2>14, <2>15, <2>16 DEF OInd, DaemonInd
<1> QED
  BY <1>4, <1>5

LEMMA HarnessSteps ==
  ASSUME OInd, Perturb
  PROVE  OInd'
<1>1. /\ PerturbStep /\ UNCHANGED <<dvars, sup, emits>>
      /\ OTypeOK /\ PerturbInd /\ PTypeOK /\ Signalled /\ Recorded /\ plan \in Budget
  BY DEF Perturb, OInd, OTypeOK, PerturbInd
<1>2. PerturbInd'
  BY <1>1, PerturbPreserves
<1>3. ASSUME NEW a \in Invocations, Spend("invocations"), UNCHANGED logvars,
             SinkFails(a) \/ \E request \in plan.requests : Invoke(a, request)
      PROVE  OInd'
  <2>1. plan.requests \subseteq Requests
    BY <1>1 DEF Budget
  <2>2. SinkFails(a) \/ \E request \in Requests : Invoke(a, request)
    BY <1>3, <2>1
  <2>3. Others(a) /\ a \in Actors
    BY <1>1, <1>3, <2>2, InvokeHonest, ActorNames DEF logvars
  <2>4. actor[a].pc = "idle" /\ actor'[a].pc \in {"exit1", "signal"}
    <3>1. CASE SinkFails(a)
      BY <1>1, <2>3, <3>1, MoveIs DEF SinkFails, PSteps
    <3>2. ASSUME NEW request \in Requests, Invoke(a, request)
          PROVE  actor[a].pc = "idle" /\ actor'[a].pc = "signal"
      BY <1>1, <2>3, <3>2 DEF Invoke, Requests, PTypeOK
    <3> QED
      BY <2>2, <3>1, <3>2 DEF SinkFails
  <2>5. UNCHANGED <<file, writer, hurt>> /\ plan' \in Budget
    BY <1>1, <1>3, Spends DEF logvars
  <2> QED
    BY <1>1, <1>2, <2>3, <2>4, <2>5, QuietSteps
<1>4. ASSUME NEW a \in Invocations, LogOpen(a) \/ LogAppend(a, TRUE) \/ LogAppend(a, FALSE),
             UNCHANGED plan \/ Spend("wfaults")
      PROVE  OInd'
  <2>1. plan' \in Budget
    BY <1>1, <1>4, Spends
  <2> QED
    BY <1>1, <1>2, <1>4, <2>1, HarnessLogs
<1>5. ASSUME NEW a \in Actors, SendSignal(a), UNCHANGED <<logvars, plan>>
      PROVE  OInd'
  <2>1. /\ Others(a) /\ actor[a].pc \in {"signal", "fallback", "second"}
        /\ actor'[a].pc \in {Delivered(a), Failed(a)}
    BY <1>1, <1>5, SignalSent
  <2>2. actor'[a].pc \notin {"log", "append"}
    BY <2>1 DEF Delivered, Failed
  <2>3. UNCHANGED <<file, writer, hurt>> /\ plan' \in Budget
    BY <1>1, <1>5 DEF logvars
  <2> QED
    BY <1>1, <1>2, <2>1, <2>2, <2>3, QuietSteps
<1>6. ASSUME NEW a \in Actors, NEW lost \in BOOLEAN, RecordAction(a, lost, 1)
      PROVE  /\ Others(a) /\ actor[a].pc = "record" /\ actor'[a].pc # "append"
             /\ a \in Invocations /\ actor'[a].pc = "log" => actor'[a].logging
  <2>1. PICK step \in {"next", "log", "exit0"} :
          /\ Move(a, step) /\ actor[a].pc = "record" /\ UNCHANGED sent
          /\ a # "replay" /\ step = "log" => actor[a].logging
    BY <1>6 DEF RecordAction
  <2>2. /\ actor'[a].pc = step /\ actor'[a].logging = actor[a].logging
        /\ \A b \in Actors \ {a} : actor'[b] = actor[b]
    BY <1>1, <2>1, MoveIs DEF PSteps
  <2> QED
    BY <2>1, <2>2, ActorNames DEF Others
<1>7. ASSUME NEW a \in Actors, RecordAction(a, FALSE, 1), UNCHANGED <<logvars, plan>>
      PROVE  OInd'
  <2>1. /\ Others(a) /\ actor[a].pc = "record" /\ actor'[a].pc # "append"
        /\ a \in Invocations /\ actor'[a].pc = "log" => actor'[a].logging
    BY <1>6, <1>7
  <2>2. UNCHANGED <<file, writer, hurt>> /\ plan' \in Budget
    BY <1>1, <1>7 DEF logvars
  <2> QED
    BY <1>1, <1>2, <2>1, <2>2, QuietSteps
<1>8. ASSUME NEW a \in Invocations, RecordAction(a, TRUE, 1), Spend("flushes"),
             hurt' = hurt \cup {"flush"}, UNCHANGED <<file, writer>>
      PROVE  OInd'
  <2>1. a \in Actors
    BY ActorNames
  <2>2. /\ Others(a) /\ actor[a].pc = "record" /\ actor'[a].pc # "append"
        /\ a \in Invocations /\ actor'[a].pc = "log" => actor'[a].logging
    BY <1>6, <1>8, <2>1
  <2>3. plan' \in Budget
    BY <1>1, <1>8, Spends
  <2> QED
    BY <1>1, <1>2, <1>8, <2>1, <2>2, <2>3, QuietSteps
<1>9. ASSUME Others("replay"), UNCHANGED logvars, plan' \in Budget
      PROVE  OInd'
  <2>1. "replay" \in Actors /\ "replay" \notin Invocations /\ UNCHANGED <<file, writer, hurt>>
    BY <1>9, ActorNames DEF logvars
  <2> QED
    BY <1>1, <1>2, <1>9, <2>1, QuietSteps
<1>10. ASSUME NEW t \in Targets, Reap(t), UNCHANGED <<logvars, plan>>
       PROVE  OInd'
  BY <1>1, <1>9, <1>10 DEF Reap, Others
<1>11. CASE Spend("replay") /\ StartReplay /\ UNCHANGED logvars
  <2>1. Others("replay")
    BY <1>1, <1>11, ReplayStarts DEF PerturbInd
  <2> QED
    BY <1>1, <1>9, <1>11, <2>1, Spends
<1>12. CASE (ReplayNext \/ ReplayEnds) /\ UNCHANGED <<logvars, plan>>
  <2>1. Others("replay")
    BY <1>1, <1>12, ReplayLooks, ReplayMoves DEF PerturbInd
  <2> QED
    BY <1>1, <1>9, <1>12, <2>1
<1>13. ASSUME NEW a \in Invocations, RecordFails(a), Spend("flushes"), UNCHANGED logvars
       PROVE  OInd'
  <2>1. a \in Actors /\ actor[a].pc = "record" /\ Move(a, "exit1") /\ UNCHANGED sent
    BY <1>13, ActorNames DEF RecordFails
  <2>2. actor'[a].pc = "exit1" /\ Others(a)
    BY <1>1, <2>1, MoveIs DEF PSteps, Others
  <2>3. UNCHANGED <<file, writer, hurt>> /\ plan' \in Budget
    BY <1>1, <1>13, Spends DEF logvars
  <2> QED
    BY <1>1, <1>2, <2>1, <2>2, <2>3, QuietSteps
<1> QED
  BY <1>1, <1>3, <1>4, <1>5, <1>7, <1>8, <1>10, <1>11, <1>12, <1>13 DEF PerturbStep

-----------------------------------------------------------------------------
(* The daemon.                                                                             *)

(* Its steps leave the file, the writers and the harness alone.                             *)
LEMMA DaemonKeeps ==
  ASSUME OInd, UNCHANGED <<file, writer, pvars, sup, emits>>, hurt' \in {hurt, hurt \cup {"read"}},
         plan' \in Budget, pc' \in {"idle", "loss", "collect"}, rd' \in [Readers -> Reader],
         dataLoss' \in Nat, applied' \in Nat, opens' \in 0 .. MaxOpens, gapsShown' \in [LogKeys -> Nat],
         DaemonInd'
  PROVE  OInd'
<1>1. LogTypeOK /\ LogInd /\ OTypeOK /\ PerturbInd
  BY DEF OInd, OTypeOK
<1>2. LogTypeOK' /\ LogInd'
  BY <1>1, LogSame DEF LogTypeOK
<1>3. PerturbInd'
  BY <1>1, PerturbSame
<1>4. WritersOpen'
  BY DEF OInd, WritersOpen, pvars
<1>5. OTypeOK'
  BY <1>1, <1>2, <1>3 DEF OTypeOK, PerturbInd
<1> QED
  BY <1>2, <1>3, <1>4, <1>5 DEF OInd, DaemonInd

(* What the daemon's invariant says of a state, in terms of what stays.                     *)
LEMMA DaemonFacts ==
  ASSUME OInd
  PROVE  /\ OTypeOK /\ DaemonInd /\ file \in Seq(Fragment) /\ Len(file) \in Nat
         /\ opens \in Nat /\ dataLoss \in Nat /\ applied \in Nat /\ emits \in Nat
         /\ IsFiniteSet(CarriedOut({"append", "exit0"})) /\ Cardinality(CarriedOut({"exit0"})) \in Nat
         /\ "loss" \in Readers /\ "collector" \in Readers /\ "loss" # "collector"
         /\ hurt \subseteq Cuts \cup {"write", "fsync", "read", "flush", "overlap"}
<1>1. OTypeOK /\ DaemonInd /\ file \in Seq(Fragment) /\ Len(file) \in Nat
  BY DEF OInd, DaemonInd, OTypeOK, LogTypeOK
<1>2. opens \in Nat /\ dataLoss \in Nat /\ applied \in Nat /\ emits \in Nat
  BY <1>1, ObsAssumption DEF OTypeOK
<1>3. IsFiniteSet(CarriedOut({"append", "exit0"})) /\ Cardinality(CarriedOut({"exit0"})) \in Nat
  BY <1>1, CarriedNat DEF DaemonInd, CountedApplied
<1> QED
  BY <1>1, <1>2, <1>3 DEF Readers, OTypeOK, LogTypeOK

(* Counts and rank of what a reader has passed do not change while it reads.                *)
LEMMA Rereads ==
  ASSUME UNCHANGED <<file, pvars, emits>>
  PROVE  /\ \A x, n : Fragments(x, n)' = Fragments(x, n) /\ Numbered(x, n)' = Numbered(x, n)
         /\ \A steps : CarriedOut(steps)' = CarriedOut(steps)
         /\ Len(file') = Len(file) /\ emits' = emits
BY CarriedSame DEF Fragments, Numbered, pvars

LEMMA Restarts ==
  ASSUME OInd, Restart, UNCHANGED <<file, writer, pvars, sup, emits>>
  PROVE  OInd'
<1>1. DaemonInd /\ OTypeOK /\ Len(file) \in Nat /\ emits \in Nat
  BY DaemonFacts
<1>2. /\ plan' \in Budget /\ pc' = "idle" /\ rd' = [r \in Readers |-> NewReader]
      /\ dataLoss' = 0 /\ applied' = 0 /\ opens' = 0 /\ gapsShown' = [k \in LogKeys |-> 0]
      /\ hurt' = hurt
  BY <1>1, Spends DEF Restart, OTypeOK
<1>3. /\ NewReader \in Reader /\ ~NewReader.open /\ NewReader.pos = 0
      /\ \A k \in LogKeys : NewReader.gaps[k] = 0
  BY DEF NewReader, Reader
<1>4. /\ \A x, n : Fragments(x, n)' = Fragments(x, n) /\ Numbered(x, n)' = Numbered(x, n)
      /\ \A steps : CarriedOut(steps)' = CarriedOut(steps)
      /\ Len(file') = Len(file) /\ emits' = emits
  BY Rereads
<1>5. \A r \in Readers : ~rd'[r].open /\ rd'[r].pos = 0 /\ \A k \in LogKeys : rd'[r].gaps[k] = 0
  BY <1>2, <1>3
<1>6. Positions' /\ Expecting'
  BY <1>1, <1>2, <1>4, <1>5 DEF Positions, Expecting
<1>7. CountedLoss' /\ CountedApplied'
  <2>1. 0 * emits = 0 /\ 0 * Cardinality(CarriedOut({"exit0"})) = 0
    BY DaemonFacts
  <2>2. "loss" \in Readers /\ "collector" \in Readers
    BY DaemonFacts
  <2>3. CountedLoss'
    BY <1>1, <1>2, <1>4, <1>5, <2>1, <2>2 DEF DaemonInd, CountedLoss
  <2>4. CountedApplied'
    BY <1>1, <1>2, <1>4, <1>5, <2>1, <2>2 DEF DaemonInd, CountedApplied
  <2> QED
    BY <2>3, <2>4
<1>8. Exact'
  <2>1. "loss" \in Readers /\ "collector" \in Readers
    BY DaemonFacts
  <2> QED
    BY <1>1, <1>2, <1>4, <1>5, <2>1 DEF DaemonInd, Exact
<1>9. /\ rd' \in [Readers -> Reader] /\ opens' \in 0 .. MaxOpens /\ gapsShown' \in [LogKeys -> Nat]
  BY <1>2, <1>3, ObsAssumption
<1> QED
  BY <1>2, <1>6, <1>7, <1>8, <1>9, DaemonKeeps DEF DaemonInd

LEMMA Opens ==
  ASSUME OInd, OpenLog, UNCHANGED <<file, writer, pvars, sup, emits, plan, hurt>>
  PROVE  OInd'
<1>1. /\ DaemonInd /\ OTypeOK /\ Len(file) \in Nat /\ emits \in Nat /\ opens \in Nat
      /\ dataLoss \in Nat /\ applied \in Nat
      /\ "loss" \in Readers /\ "collector" \in Readers /\ plan \in Budget
      /\ rd \in [Readers -> Reader] /\ gapsShown \in [LogKeys -> Nat] /\ opens \in 0 .. MaxOpens
  BY DaemonFacts DEF OTypeOK
<1>2. pc' = "loss" /\ UNCHANGED <<dataLoss, applied, gapsShown>>
  BY DEF OpenLog
<1>3. /\ \A x, n : Fragments(x, n)' = Fragments(x, n) /\ Numbered(x, n)' = Numbered(x, n)
      /\ \A steps : CarriedOut(steps)' = CarriedOut(steps)
      /\ Len(file') = Len(file) /\ emits' = emits
      /\ \A k : Unbroken(k)' = Unbroken(k)
  BY Rereads DEF Unbroken
<1>4. CASE UNCHANGED <<rd, opens>>
  <2>1. Positions' /\ Expecting' /\ Exact'
    BY <1>1, <1>2, <1>3, <1>4 DEF DaemonInd, Positions, Expecting, Exact
  <2>2. CountedLoss' /\ CountedApplied'
    BY <1>1, <1>2, <1>3, <1>4 DEF DaemonInd, CountedLoss, CountedApplied
  <2> QED
    BY <1>1, <1>2, <1>4, <2>1, <2>2, DaemonKeeps DEF DaemonInd
<1>5. CASE /\ ~rd["collector"].open /\ opens < MaxOpens /\ opens' = opens + 1
           /\ rd' = [r \in Readers |-> Opened(rd[r])]
  <2>1. ASSUME NEW r \in Readers
        PROVE  /\ Opened(rd[r]) \in Reader /\ rd'[r].open /\ rd'[r].pos = 0
               /\ rd'[r].gaps = rd[r].gaps /\ rd'[r].expected = rd[r].expected
    BY <1>1, <1>5 DEF Opened, Reader
  <2>2. rd' \in [Readers -> Reader]
    BY <1>5, <2>1
  <2>3. opens' \in 0 .. MaxOpens /\ opens' \in Nat /\ opens' > 0
    BY <1>1, <1>5, ObsAssumption
  <2>4. Positions'
    BY <1>1, <1>3, <2>1, <2>3 DEF Positions
  <2>5. \A x : Cardinality(Numbered(x, 0)) = 0 /\ Cardinality(Fragments(x, 0)) = 0
    <3>1. \A x : Numbered(x, 0) = {} /\ Fragments(x, 0) = {}
      BY DEF Numbered, Fragments
    <3> QED
      BY <3>1, FS_EmptySet
  <2>6. Expecting'
    <3> SUFFICES ASSUME opens' <= 1, NEW r \in Readers, NEW k \in LogKeys
                 PROVE  /\ rd'[r].gaps[k] = 0 /\ gapsShown'[k] = 0
                        /\ rd'[r].expected[k] = Cardinality(Numbered(k, rd[r].pos)') + 1
      BY DEF Expecting
    <3>1. opens = 0
      BY <1>1, <1>5
    <3>2. rd[r] = NewReader /\ gapsShown[k] = 0
      BY <1>1, <3>1 DEF DaemonInd, Positions
    <3>3. Numbered(k, rd[r].pos)' = Numbered(k, 0)
      BY <1>3, <2>1
    <3> QED
      BY <1>2, <2>1, <2>5, <3>2, <3>3 DEF NewReader
  <2>7. CountedLoss'
    <3>1. PICK e \in Nat, n \in Nat : e = emits /\ n = opens
      BY <1>1
    <3>2. dataLoss <= n * e /\ (n + 1) * e = n * e + e /\ n * e \in Nat /\ (n + 1) - 1 = n
      BY <1>1, <3>1, TimesOneLess DEF DaemonInd, CountedLoss
    <3>3. /\ dataLoss' <= (n + 1) * e /\ dataLoss' <= ((n + 1) - 1) * e + 0
      BY <1>1, <1>2, <3>2
    <3>4. Cardinality(Fragments("loss", rd["loss"].pos)') = 0
      BY <1>1, <1>3, <2>1, <2>5
    <3>5. Cardinality(Fragments("loss", Len(file))') <= emits'
      BY <1>1, <1>3 DEF DaemonInd, CountedLoss
    <3> QED
      BY <1>3, <1>5, <3>1, <3>3, <3>4, <3>5 DEF CountedLoss
  <2>8. CountedApplied'
    <3>1. PICK e \in Nat, n \in Nat : e = Cardinality(CarriedOut({"exit0"})) /\ n = opens
      BY <1>1, DaemonFacts
    <3>2. applied <= n * e /\ (n + 1) * e = n * e + e /\ n * e \in Nat /\ (n + 1) - 1 = n
      BY <1>1, <3>1, TimesOneLess DEF DaemonInd, CountedApplied
    <3>3. /\ applied' <= (n + 1) * e /\ applied' <= ((n + 1) - 1) * e + 0
      BY <1>1, <1>2, <3>2
    <3>4. Cardinality(Fragments("applied", rd["collector"].pos)') = 0
      BY <1>1, <1>3, <2>1, <2>5
    <3>5. /\ Cardinality(Fragments("applied", Len(file))') <= Cardinality(CarriedOut({"exit0"})')
          /\ IsFiniteSet(CarriedOut({"append", "exit0"})')
      BY <1>1, <1>3 DEF DaemonInd, CountedApplied
    <3> QED
      BY <1>3, <1>5, <3>1, <3>3, <3>4, <3>5 DEF CountedApplied
  <2>9. Exact'
    <3> SUFFICES ASSUME hurt \subseteq Harmless \ {"write"}
                 PROVE  Exact'
      BY DEF Exact
    <3>1. dataLoss = 0 /\ Cardinality(Fragments("loss", Len(file))) = emits
      BY <1>1, <1>5 DEF DaemonInd, Exact
    <3>2. Cardinality(Fragments("loss", rd["loss"].pos)') = 0
      BY <1>1, <1>3, <2>1, <2>5
    <3> QED
      BY <1>1, <1>2, <1>3, <2>1, <3>1, <3>2 DEF Exact
  <2> QED
    BY <1>1, <1>2, <2>2, <2>3, <2>4, <2>6, <2>7, <2>8, <2>9, DaemonKeeps DEF DaemonInd
<1> QED
  BY <1>4, <1>5 DEF OpenLog

(* A step that moves no reader; the gaps shown may be those of the collector.               *)
LEMMA NothingRead ==
  ASSUME OInd, UNCHANGED <<file, pvars, emits, rd, dataLoss, applied, opens>>, hurt \subseteq hurt',
         gapsShown' = gapsShown \/ (gapsShown' = rd["collector"].gaps /\ rd["collector"].open)
  PROVE  DaemonInd'
<1>1. DaemonInd /\ "collector" \in Readers
  BY DaemonFacts
<1>2. /\ \A x, n : Fragments(x, n)' = Fragments(x, n) /\ Numbered(x, n)' = Numbered(x, n)
      /\ \A steps : CarriedOut(steps)' = CarriedOut(steps)
      /\ Len(file') = Len(file) /\ emits' = emits
  BY Rereads
<1>3. \A k \in LogKeys : Unbroken(k)' => Unbroken(k)
  BY UnbrokenBefore
<1>4. Positions'
  <2>1. opens = 0 => gapsShown' = gapsShown
    BY <1>1 DEF DaemonInd, Positions
  <2> QED
    BY <1>1, <1>2, <2>1 DEF DaemonInd, Positions
<1>5. Expecting'
  BY <1>1, <1>2, <1>3 DEF DaemonInd, Expecting
<1>6. CountedLoss' /\ CountedApplied'
  BY <1>1, <1>2 DEF DaemonInd, CountedLoss, CountedApplied
<1>7. Exact'
  BY <1>1, <1>2 DEF DaemonInd, Exact
<1> QED
  BY <1>4, <1>5, <1>6, <1>7 DEF DaemonInd

LEMMA ClosedTypes ==
  ASSUME NEW r \in Reader
  PROVE  /\ ClosedReader(r) \in Reader /\ ~ClosedReader(r).open /\ ClosedReader(r).pos = 0
         /\ ClosedReader(r).gaps = r.gaps /\ ClosedReader(r).expected = r.expected
BY DEF ClosedReader, Reader

(* A reader that fails is closed; only a cut record or a read error makes it fail.            *)
LEMMA ReadersClose ==
  ASSUME OInd, UNCHANGED <<file, pvars, emits, dataLoss, applied, gapsShown, opens>>, hurt \subseteq hurt',
         NEW C \in SUBSET Readers, opens > 0, ~(hurt' \subseteq Harmless \ {"write"}),
         \A r \in Readers : rd'[r] = IF r \in C THEN ClosedReader(rd[r]) ELSE rd[r]
  PROVE  DaemonInd'
<1>1. /\ DaemonInd /\ "collector" \in Readers /\ "loss" \in Readers /\ Len(file) \in Nat /\ opens \in Nat
      /\ rd \in [Readers -> Reader]
  BY DaemonFacts DEF OTypeOK
<1>2. /\ \A x, n : Fragments(x, n)' = Fragments(x, n) /\ Numbered(x, n)' = Numbered(x, n)
      /\ \A steps : CarriedOut(steps)' = CarriedOut(steps)
      /\ Len(file') = Len(file) /\ emits' = emits
  BY Rereads
<1>3. ASSUME NEW r \in Readers
      PROVE  /\ rd'[r] = rd[r] \/ (~rd'[r].open /\ rd'[r].pos = 0)
             /\ rd'[r].gaps = rd[r].gaps
  BY <1>1, ClosedTypes
<1>4. Positions'
  BY <1>1, <1>2, <1>3 DEF DaemonInd, Positions
<1>5. Expecting'
  <2>1. \A k \in LogKeys : Unbroken(k)' => Unbroken(k)
    BY UnbrokenBefore
  <2> SUFFICES ASSUME opens <= 1, \A k \in LogKeys : Unbroken(k), NEW r \in Readers, NEW k \in LogKeys
               PROVE  /\ rd'[r].gaps[k] = 0 /\ gapsShown'[k] = 0
                      /\ rd'[r].open => rd'[r].expected[k] = Cardinality(Numbered(k, rd[r].pos)') + 1
    BY <2>1 DEF Expecting
  <2>2. /\ rd[r].gaps[k] = 0 /\ gapsShown[k] = 0
        /\ rd[r].open => rd[r].expected[k] = Cardinality(Numbered(k, rd[r].pos)) + 1
    BY <1>1 DEF DaemonInd, Expecting
  <2>3. CASE rd'[r] = rd[r]
    BY <1>2, <1>3, <2>2, <2>3
  <2>4. CASE ~rd'[r].open
    BY <1>3, <2>2, <2>4
  <2> QED
    BY <1>3, <2>3, <2>4
<1>6. CountedLoss'
  <2>1. CASE rd'["loss"] = rd["loss"]
    BY <1>1, <1>2, <2>1 DEF DaemonInd, CountedLoss
  <2>2. CASE ~rd'["loss"].open
    BY <1>1, <1>2, <2>2 DEF DaemonInd, CountedLoss
  <2> QED
    BY <1>1, <1>3, <2>1, <2>2
<1>7. CountedApplied'
  <2>1. CASE rd'["collector"] = rd["collector"]
    BY <1>1, <1>2, <2>1 DEF DaemonInd, CountedApplied
  <2>2. CASE ~rd'["collector"].open
    BY <1>1, <1>2, <2>2 DEF DaemonInd, CountedApplied
  <2> QED
    BY <1>1, <1>3, <2>1, <2>2
<1>8. Exact'
  BY DEF Exact
<1> QED
  BY <1>4, <1>5, <1>6, <1>7, <1>8 DEF DaemonInd

(* A line that is refused was cut inside its level.                                          *)
LEMMA BadWasCut ==
  ASSUME OInd, NEW r \in Readers, ReadsBad(rd[r])
  PROVE  ~(hurt \subseteq Harmless \ {"write"})
<1>1. file \in Seq(Fragment) /\ rd[r].pos \in Nat
  BY ReaderTypes DEF OInd
<1>2. PICK d, n \in rd[r].pos + 1 .. LineEnd(rd[r].pos) :
        Decisive(rd[r].pos) = file[d] /\ Counting(rd[r].pos) = file[n]
  BY <1>1, FieldsAt DEF ReadsBad
<1>3. LineEnd(rd[r].pos) \in rd[r].pos + 1 .. Len(file)
  BY <1>1, LineEndIs DEF ReadsBad
<1>4. d \in DOMAIN file /\ n \in DOMAIN file /\ (file[d].cut = "level" \/ file[n].cut = "number")
  BY <1>1, <1>2, <1>3 DEF ReadsBad, BadLine
<1>5. "level" \in hurt \/ "number" \in hurt
  BY <1>4 DEF OInd, LogInd, FragmentsKnown
<1> QED
  BY <1>5 DEF Harmless

(* A reader that takes a record moves to the end of its line.                                 *)
LEMMA ReaderMoves ==
  ASSUME OInd, NEW r \in Readers, ReadsRecord(rd[r])
  PROVE  LET p == rd[r].pos
             e == LineEnd(p)
             s == StateAfter(rd[r], parse_event_record(p)) IN
         /\ p \in Nat /\ e \in p + 1 .. Len(file) /\ s \in Reader /\ s.pos = e /\ s.open = rd[r].open
         /\ file[e].cut = "none" /\ \A i \in p + 1 .. e - 1 : file[i].cut # "none"
<1> DEFINE p == rd[r].pos
           rec == parse_event_record(p)
           s == StateAfter(rd[r], rec)
<1>1. file \in Seq(Fragment) /\ p \in Nat /\ rd[r] \in Reader /\ Len(file) \in Nat
  BY ReaderTypes DEF OInd
<1>2. /\ LineEnd(p) \in p + 1 .. Len(file) /\ file[LineEnd(p)].cut = "none"
      /\ \A i \in p + 1 .. LineEnd(p) - 1 : file[i].cut # "none"
  BY <1>1, LineEndIs DEF ReadsRecord
<1>3. PICK d \in p + 1 .. LineEnd(p) : Counting(p) = file[d]
  BY <1>1, FieldsAt DEF ReadsRecord
<1>4. file[d] \in Fragment
  BY <1>1, <1>2, <1>3
<1>5. rec.seq \in Nat
  BY <1>3, <1>4 DEF parse_event_record, Fragment
<1>6. PICK e \in Nat : e = LineEnd(p)
  BY <1>1, <1>2
<1> HIDE DEF rec, p
<1>7. s \in Reader /\ s.pos = e /\ s.open = rd[r].open
  <2>1. CASE rec.key \notin LogKeys
    <3>1. s = [rd[r] EXCEPT !.pos = e]
      BY <1>6, <2>1 DEF StateAfter, p
    <3> QED
      BY <1>1, <3>1 DEF Reader
  <2>2. CASE rec.key \in LogKeys
    <3> DEFINE g == IF rec.seq = rd[r].expected[rec.key] THEN rd[r].gaps[rec.key] ELSE rd[r].gaps[rec.key] + 1
               x == IF rec.seq < rd[r].expected[rec.key] THEN rd[r].expected[rec.key] ELSE rec.seq + 1
               G == [rd[r].gaps EXCEPT ![rec.key] = g]
               X == [rd[r].expected EXCEPT ![rec.key] = x]
    <3>1. rd[r].gaps \in [LogKeys -> Nat] /\ rd[r].expected \in [LogKeys -> Nat]
      BY <1>1 DEF Reader
    <3>2. rd[r].gaps[rec.key] \in Nat /\ rd[r].expected[rec.key] \in Nat
      BY <2>2, <3>1
    <3>3. g \in Nat /\ x \in Nat
      BY <1>5, <3>2
    <3>4. s = [rd[r] EXCEPT !.pos = e, !.gaps = G, !.expected = X]
      BY <1>1, <1>6, <2>2 DEF StateAfter, Reader, p
    <3> HIDE DEF g, x
    <3>5. G \in [LogKeys -> Nat] /\ X \in [LogKeys -> Nat]
      BY <3>1, <3>3
    <3> HIDE DEF G, X
    <3> QED
      BY <1>1, <3>4, <3>5 DEF Reader
  <2> QED
    BY <2>1, <2>2
<1> QED
  BY <1>1, <1>2, <1>6, <1>7 DEF p, rec

(* On an unbroken log the number that is expected comes.                                      *)
LEMMA ReaderExpects ==
  ASSUME OInd, NEW r \in Readers, ReadsRecord(rd[r]), \A k \in LogKeys : Unbroken(k),
         \A k \in LogKeys : /\ rd[r].gaps[k] = 0
                            /\ rd[r].expected[k] = Cardinality(Numbered(k, rd[r].pos)) + 1,
         NEW k \in LogKeys
  PROVE  LET s == StateAfter(rd[r], parse_event_record(rd[r].pos)) IN
         s.gaps[k] = 0 /\ s.expected[k] = Cardinality(Numbered(k, LineEnd(rd[r].pos))) + 1
<1> DEFINE rec == parse_event_record(rd[r].pos)
           s == StateAfter(rd[r], rec)
<1>1. PICK p \in Nat, e \in Nat : p = rd[r].pos /\ e = LineEnd(p)
  BY ReaderMoves
<1>2. /\ file \in Seq(Fragment) /\ rd[r] \in Reader /\ Len(file) \in Nat
      /\ rd[r].gaps \in [LogKeys -> Nat] /\ rd[r].expected \in [LogKeys -> Nat]
  BY ReaderTypes DEF OInd, Reader
<1>3. /\ e \in p + 1 .. Len(file) /\ file[e].cut = "none" /\ \A i \in p + 1 .. e - 1 : file[i].cut # "none"
  BY <1>1, ReaderMoves
<1>4. e \in DOMAIN file /\ file[e] \in Fragment /\ e - 1 \in Nat /\ p <= e - 1
  BY <1>2, <1>3
<1>5. PICK q \in LogKeys : q = file[e].key
  BY <1>4 DEF Fragment
<1>6. rec.key = q /\ rec.seq = file[e].seq
  <2>1. Decisive(p) = file[e] /\ Counting(p) = file[e]
    <3>1. hurt \cap Swallows = {}
      BY UnbrokenCuts
    <3>2. FragmentsKnown /\ hurt \subseteq Cuts \cup {"write", "fsync", "read", "flush", "overlap"}
      BY DaemonFacts DEF OInd, LogInd
    <3>3. HasLine(p) /\ ~BadLine(p)
      BY <1>1 DEF ReadsRecord
    <3> QED
      BY <1>1, <1>2, <3>1, <3>2, <3>3, LineParses
  <2> QED
    BY <1>1, <1>3, <1>5, <2>1 DEF parse_event_record
<1>7. \A x \in LogKeys : Cardinality(Numbered(x, e)) = IF x = q THEN Cardinality(Numbered(x, p)) + 1
                                                               ELSE Cardinality(Numbered(x, p))
  <2> SUFFICES ASSUME NEW x \in LogKeys
               PROVE  Cardinality(Numbered(x, e)) = IF x = q THEN Cardinality(Numbered(x, p)) + 1
                                                            ELSE Cardinality(Numbered(x, p))
    OBVIOUS
  <2>1. Numbered(x, e - 1) = Numbered(x, p)
    <3>1. \A i \in p + 1 .. e - 1 : i \notin Numbered(x, i)
      BY <1>3 DEF Numbered
    <3> QED
      BY <1>4, <3>1, NumberedGrows
  <2>2. (e - 1) + 1 = e
    OBVIOUS
  <2>3. Cardinality(Numbered(x, e)) = IF file[e].cut = "none" /\ file[e].key = x
                                      THEN Cardinality(Numbered(x, e - 1)) + 1
                                      ELSE Cardinality(Numbered(x, e - 1))
    BY <1>4, <2>2, NumberedNext
  <2> QED
    BY <1>3, <1>5, <2>1, <2>3
<1>8. rec.seq = Cardinality(Numbered(q, p)) + 1
  <2>1. Ranked(q)
    BY DEF OInd, LogInd
  <2>2. e \in Numbered(q, e)
    BY <1>3, <1>5, <1>4 DEF Numbered
  <2>3. file[e].seq = Cardinality(Numbered(q, e))
    BY <1>4, <2>1, <2>2 DEF Ranked
  <2> QED
    BY <1>6, <1>7, <2>3
<1>9. \A x \in LogKeys : Cardinality(Numbered(x, p)) \in Nat
  BY NumberedFinite
<1>10. rec.seq = rd[r].expected[q] /\ rec.seq \in Nat /\ ~(rec.seq < rd[r].expected[q])
  BY <1>1, <1>8, <1>9
<1> HIDE DEF rec
<1>11. s = [rd[r] EXCEPT !.pos = e, !.gaps[q] = rd[r].gaps[q], !.expected[q] = rec.seq + 1]
  BY <1>1, <1>2, <1>6, <1>10 DEF StateAfter, Reader
<1>12. s.gaps[k] = 0 /\ s.expected[k] = IF k = q THEN rec.seq + 1 ELSE rd[r].expected[k]
  BY <1>2, <1>11 DEF Reader
<1>13. s.expected[k] = Cardinality(Numbered(k, e)) + 1
  BY <1>1, <1>7, <1>8, <1>9, <1>12
<1> QED
  BY <1>1, <1>12, <1>13 DEF rec

(* Without cuts a line is one record, and it counts as a loss exactly if it is one.           *)
LEMMA LossRead ==
  ASSUME OInd, ReadsRecord(rd["loss"]), hurt \subseteq Harmless \ {"write"}
  PROVE  LET p == rd["loss"].pos IN
         LineEnd(p) = p + 1 /\ (CountsLoss(p) <=> file[p + 1].what = "loss")
<1>1. PICK p \in Nat, e \in Nat : p = rd["loss"].pos /\ e = LineEnd(p)
  BY ReaderMoves, DaemonFacts
<1>2. /\ e \in p + 1 .. Len(file) /\ file[e].cut = "none" /\ \A i \in p + 1 .. e - 1 : file[i].cut # "none"
      /\ file \in Seq(Fragment) /\ Len(file) \in Nat
  BY <1>1, ReaderMoves, DaemonFacts
<1>3. FragmentsKnown /\ \A i \in DOMAIN file : file[i] \in Fragment /\ file[i].cut = "none"
  <2>1. FragmentsKnown
    BY DEF OInd, LogInd
  <2>2. ASSUME NEW i \in DOMAIN file
        PROVE  file[i] \in Fragment /\ file[i].cut = "none"
    <3>1. file[i] \in Fragment
      BY <1>2
    <3> QED
      BY <2>1, <3>1 DEF FragmentsKnown, Fragment, Cuts, Swallows, Harmless
  <2> QED
    BY <2>1, <2>2
<1>4. e = p + 1
  <2> SUFFICES ASSUME e # p + 1 PROVE FALSE
    OBVIOUS
  <2>1. p + 1 \in p + 1 .. e - 1 /\ p + 1 \in DOMAIN file
    BY <1>2
  <2> QED
    BY <1>2, <1>3, <2>1
<1>5. PICK d, n \in p + 1 .. e : Decisive(p) = file[d] /\ Naming(p) = file[n]
  BY <1>1, <1>2, FieldsAt DEF ReadsRecord
<1>6. Decisive(p) = file[e] /\ Naming(p) = file[e] /\ e \in DOMAIN file
  BY <1>2, <1>4, <1>5
<1>7. /\ file[e].cut = "none" /\ file[e] \in Fragment
      /\ file[e].what = "applied" <=> file[e].key = "perturb"
  BY <1>3, <1>6 DEF FragmentsKnown
<1>8. parse_event_record(p).key = file[e].key /\ parse_event_record(p).what = file[e].what
  BY <1>6, <1>7 DEF parse_event_record
<1>9. HasFields(p, "loss") <=> file[e].what = "loss"
  <2>1. \A i \in p + 1 .. LineEnd(p) : i = e
    BY <1>1, <1>4
  <2>2. e \in p + 1 .. LineEnd(p)
    BY <1>1, <1>4
  <2> QED
    BY <1>7, <2>1, <2>2 DEF HasFields
<1>10. CountsLoss(p) <=> file[e].what = "loss"
  BY <1>7, <1>8, <1>9 DEF CountsLoss, Fragment, LogKeys
<1> QED
  BY <1>1, <1>4, <1>10

(* A line whose fields are found has a fragment of that kind.                                  *)
LEMMA FieldsOf ==
  ASSUME OInd, NEW r \in Readers, ReadsRecord(rd[r]), NEW what
  PROVE  LET p == rd[r].pos
             e == LineEnd(p)
             was == Cardinality(Fragments(what, p))
             is  == Cardinality(Fragments(what, e)) IN
         /\ was \in Nat /\ is \in Nat /\ was <= is /\ is <= Cardinality(Fragments(what, Len(file)))
         /\ HasFields(p, what) => was + 1 <= is
         /\ Cardinality(Fragments(what, Len(file))) \in Nat
<1>1. PICK p \in Nat, e \in Nat : p = rd[r].pos /\ e = LineEnd(p) /\ p <= e /\ e <= Len(file)
  BY ReaderMoves, DaemonFacts
<1>2. Len(file) \in Nat
  BY DaemonFacts
<1>3. HasFields(p, what) => \E i \in p + 1 .. e : file[i].what = what
  BY <1>1 DEF HasFields
<1> QED
  BY <1>1, <1>2, <1>3, FragmentsGrow, FragmentsFinite

LEMMA ScanReads ==
  ASSUME OInd, UNCHANGED <<file, pvars, emits, applied, gapsShown, opens, hurt>>,
         rd["loss"].open, ReadsRecord(rd["loss"]),
         rd' = [rd EXCEPT !["loss"] = StateAfter(rd["loss"], parse_event_record(rd["loss"].pos))],
         dataLoss' = IF CountsLoss(rd["loss"].pos) THEN dataLoss + 1 ELSE dataLoss
  PROVE  DaemonInd' /\ rd' \in [Readers -> Reader]
<1> DEFINE s == StateAfter(rd["loss"], parse_event_record(rd["loss"].pos))
<1>1. /\ DaemonInd /\ "collector" \in Readers /\ "loss" \in Readers /\ Len(file) \in Nat
      /\ opens \in Nat /\ emits \in Nat /\ dataLoss \in Nat /\ rd \in [Readers -> Reader]
  BY DaemonFacts DEF OTypeOK
<1>2. PICK p \in Nat, e \in Nat : p = rd["loss"].pos /\ e = LineEnd(p) /\ e \in p + 1 .. Len(file)
  BY <1>1, ReaderMoves
<1>3. s \in Reader /\ s.pos = e /\ s.open
  BY <1>1, <1>2, ReaderMoves
<1>4. rd' \in [Readers -> Reader] /\ rd'["loss"] = s /\ \A r \in Readers : r # "loss" => rd'[r] = rd[r]
  BY <1>1, <1>3
<1>5. /\ \A x, n : Fragments(x, n)' = Fragments(x, n) /\ Numbered(x, n)' = Numbered(x, n)
      /\ \A steps : CarriedOut(steps)' = CarriedOut(steps)
      /\ Len(file') = Len(file) /\ emits' = emits
      /\ \A k : Unbroken(k)' = Unbroken(k)
  BY Rereads DEF Unbroken
<1>6. opens > 0
  BY <1>1 DEF DaemonInd, Positions
<1>7. Positions'
  BY <1>1, <1>2, <1>3, <1>4, <1>5, <1>6 DEF DaemonInd, Positions
<1>8. Expecting'
  <2> SUFFICES ASSUME opens <= 1, \A k \in LogKeys : Unbroken(k), NEW r \in Readers, NEW k \in LogKeys
               PROVE  /\ rd'[r].gaps[k] = 0 /\ gapsShown'[k] = 0
                      /\ rd'[r].open => rd'[r].expected[k] = Cardinality(Numbered(k, rd[r].pos)') + 1
    BY <1>5 DEF Expecting
  <2>1. \A x \in LogKeys : /\ rd[r].gaps[x] = 0 /\ gapsShown[x] = 0
                           /\ rd[r].open => rd[r].expected[x] = Cardinality(Numbered(x, rd[r].pos)) + 1
    BY <1>1 DEF DaemonInd, Expecting
  <2>2. CASE r = "loss"
    <3>1. s.gaps[k] = 0 /\ s.expected[k] = Cardinality(Numbered(k, e)) + 1
      BY <1>1, <1>2, <2>1, <2>2, ReaderExpects
    <3>2. Numbered(k, rd[r].pos)' = Numbered(k, e)
      BY <1>3, <1>4, <1>5, <2>2
    <3> QED
      BY <1>4, <2>1, <2>2, <3>1, <3>2
  <2>3. CASE r # "loss"
    BY <1>4, <1>5, <2>1, <2>3
  <2> QED
    BY <2>2, <2>3
<1>9. CountedLoss'
  <2>1. PICK n \in Nat, m \in Nat : n = opens /\ m = emits /\ n > 0
    BY <1>1, <1>6
  <2>2. PICK a \in Nat, b \in Nat, c \in Nat :
          /\ a = Cardinality(Fragments("loss", p)) /\ b = Cardinality(Fragments("loss", e))
          /\ c = Cardinality(Fragments("loss", Len(file))) /\ a <= b /\ b <= c
          /\ HasFields(p, "loss") => a + 1 <= b
    BY <1>1, <1>2, FieldsOf
  <2>3. dataLoss <= (n - 1) * m + a /\ c <= m
    BY <1>1, <1>2, <2>1, <2>2 DEF DaemonInd, CountedLoss
  <2>4. dataLoss' \in Nat /\ (dataLoss' = dataLoss \/ (dataLoss' = dataLoss + 1 /\ a + 1 <= b))
    BY <1>1, <1>2, <2>2 DEF CountsLoss
  <2>5. (n - 1) * m + m = n * m /\ (n - 1) * m \in Nat
    BY <2>1, TimesOneLess
  <2>6. PICK t \in Nat : t = (n - 1) * m
    BY <2>5
  <2>7. dataLoss' <= t + b /\ dataLoss' <= t + m
    BY <1>1, <2>2, <2>3, <2>4, <2>6
  <2>8. Cardinality(Fragments("loss", rd["loss"].pos)') = b
    BY <1>3, <1>4, <1>5, <2>2
  <2>9. Cardinality(Fragments("loss", Len(file))') <= emits'
    BY <1>5, <2>1, <2>2, <2>3
  <2> QED
    BY <1>5, <2>1, <2>5, <2>6, <2>7, <2>8, <2>9 DEF CountedLoss
<1>10. CountedApplied'
  BY <1>1, <1>4, <1>5 DEF DaemonInd, CountedApplied
<1>11. Exact'
  <2> SUFFICES ASSUME hurt \subseteq Harmless \ {"write"}
               PROVE  Exact'
    BY DEF Exact
  <2>1. e = p + 1 /\ (CountsLoss(p) <=> file[p + 1].what = "loss")
    BY <1>2, LossRead
  <2>2. /\ Cardinality(Fragments("loss", Len(file))) = emits /\ rd["collector"].open
        /\ dataLoss = Cardinality(Fragments("loss", p))
    BY <1>1, <1>2 DEF DaemonInd, Exact
  <2>3. dataLoss' = Cardinality(Fragments("loss", e))
    <3>1. dataLoss' = IF CountsLoss(p) THEN dataLoss + 1 ELSE dataLoss
      BY <1>2
    <3>2. Cardinality(Fragments("loss", p + 1)) =
            IF file[p + 1].what = "loss" THEN Cardinality(Fragments("loss", p)) + 1
                                         ELSE Cardinality(Fragments("loss", p))
      BY FragmentsNext
    <3> QED
      BY <2>1, <2>2, <3>1, <3>2
  <2>4. Cardinality(Fragments("loss", rd["loss"].pos)') = Cardinality(Fragments("loss", e))
    BY <1>3, <1>4, <1>5
  <2> QED
    BY <1>1, <1>3, <1>4, <1>5, <2>2, <2>3, <2>4 DEF Exact
<1> QED
  BY <1>4, <1>7, <1>8, <1>9, <1>10, <1>11 DEF DaemonInd

LEMMA PollReads ==
  ASSUME OInd, UNCHANGED <<file, pvars, emits, dataLoss, gapsShown, opens, hurt>>,
         rd["collector"].open, ReadsRecord(rd["collector"]),
         rd' = [rd EXCEPT !["collector"] =
                  StateAfter(rd["collector"], parse_event_record(rd["collector"].pos))],
         applied' = IF CountsApplied(rd["collector"].pos) THEN applied + 1 ELSE applied
  PROVE  DaemonInd' /\ rd' \in [Readers -> Reader]
<1> DEFINE s == StateAfter(rd["collector"], parse_event_record(rd["collector"].pos))
<1>1. /\ DaemonInd /\ "collector" \in Readers /\ "loss" \in Readers /\ Len(file) \in Nat
      /\ opens \in Nat /\ applied \in Nat /\ rd \in [Readers -> Reader]
  BY DaemonFacts DEF OTypeOK
<1>2. PICK p \in Nat, e \in Nat : p = rd["collector"].pos /\ e = LineEnd(p) /\ e \in p + 1 .. Len(file)
  BY <1>1, ReaderMoves
<1>3. s \in Reader /\ s.pos = e /\ s.open
  BY <1>1, <1>2, ReaderMoves
<1>4. /\ rd' \in [Readers -> Reader] /\ rd'["collector"] = s
      /\ \A r \in Readers : r # "collector" => rd'[r] = rd[r]
  BY <1>1, <1>3
<1>5. /\ \A x, n : Fragments(x, n)' = Fragments(x, n) /\ Numbered(x, n)' = Numbered(x, n)
      /\ \A steps : CarriedOut(steps)' = CarriedOut(steps)
      /\ Len(file') = Len(file) /\ emits' = emits
      /\ \A k : Unbroken(k)' = Unbroken(k)
  BY Rereads DEF Unbroken
<1>6. opens > 0
  BY <1>1 DEF DaemonInd, Positions
<1>7. Positions'
  BY <1>1, <1>2, <1>3, <1>4, <1>5, <1>6 DEF DaemonInd, Positions
<1>8. Expecting'
  <2> SUFFICES ASSUME opens <= 1, \A k \in LogKeys : Unbroken(k), NEW r \in Readers, NEW k \in LogKeys
               PROVE  /\ rd'[r].gaps[k] = 0 /\ gapsShown'[k] = 0
                      /\ rd'[r].open => rd'[r].expected[k] = Cardinality(Numbered(k, rd[r].pos)') + 1
    BY <1>5 DEF Expecting
  <2>1. \A x \in LogKeys : /\ rd[r].gaps[x] = 0 /\ gapsShown[x] = 0
                           /\ rd[r].open => rd[r].expected[x] = Cardinality(Numbered(x, rd[r].pos)) + 1
    BY <1>1 DEF DaemonInd, Expecting
  <2>2. CASE r = "collector"
    <3>1. s.gaps[k] = 0 /\ s.expected[k] = Cardinality(Numbered(k, e)) + 1
      BY <1>1, <1>2, <2>1, <2>2, ReaderExpects
    <3>2. Numbered(k, rd[r].pos)' = Numbered(k, e)
      BY <1>3, <1>4, <1>5, <2>2
    <3> QED
      BY <1>4, <2>1, <2>2, <3>1, <3>2
  <2>3. CASE r # "collector"
    BY <1>4, <1>5, <2>1, <2>3
  <2> QED
    BY <2>2, <2>3
<1>9. CountedApplied'
  <2>1. PICK n \in Nat, m \in Nat : n = opens /\ m = Cardinality(CarriedOut({"exit0"})) /\ n > 0
    BY <1>1, <1>6, DaemonFacts
  <2>2. PICK a \in Nat, b \in Nat, c \in Nat :
          /\ a = Cardinality(Fragments("applied", p)) /\ b = Cardinality(Fragments("applied", e))
          /\ c = Cardinality(Fragments("applied", Len(file))) /\ a <= b /\ b <= c
          /\ HasFields(p, "applied") => a + 1 <= b
    BY <1>1, <1>2, FieldsOf
  <2>3. applied <= (n - 1) * m + a /\ c <= m
    BY <1>1, <1>2, <2>1, <2>2 DEF DaemonInd, CountedApplied
  <2>4. applied' \in Nat /\ (applied' = applied \/ (applied' = applied + 1 /\ a + 1 <= b))
    BY <1>1, <1>2, <2>2 DEF CountsApplied
  <2>5. (n - 1) * m + m = n * m /\ (n - 1) * m \in Nat
    BY <2>1, TimesOneLess
  <2>6. PICK t \in Nat : t = (n - 1) * m
    BY <2>5
  <2>7. applied' <= t + b /\ applied' <= t + m
    BY <1>1, <2>2, <2>3, <2>4, <2>6
  <2>8. Cardinality(Fragments("applied", rd["collector"].pos)') = b
    BY <1>3, <1>4, <1>5, <2>2
  <2>9. /\ Cardinality(Fragments("applied", Len(file))') <= m /\ Cardinality(CarriedOut({"exit0"})') = m
        /\ IsFiniteSet(CarriedOut({"append", "exit0"})')
    BY <1>5, <2>1, <2>2, <2>3, DaemonFacts
  <2> QED
    BY <2>1, <2>5, <2>6, <2>7, <2>8, <2>9 DEF CountedApplied
<1>10. CountedLoss'
  BY <1>1, <1>4, <1>5 DEF DaemonInd, CountedLoss
<1>11. Exact'
  <2>1. rd'["loss"] = rd["loss"] /\ rd'["collector"].open
    BY <1>1, <1>3, <1>4
  <2> QED
    BY <1>1, <1>5, <2>1 DEF DaemonInd, Exact
<1> QED
  BY <1>4, <1>7, <1>8, <1>9, <1>10, <1>11 DEF DaemonInd

(* A reading step of either reader, with or without a read error.                                *)
LEMMA Scans ==
  ASSUME OInd, NEW fault \in BOOLEAN, ScanStep(fault), fault => rd["loss"].open,
         hurt' = IF fault THEN hurt \cup {"read"} ELSE hurt, plan' \in Budget,
         UNCHANGED <<file, writer, pvars, sup, emits>>
  PROVE  OInd'
<1>1. /\ DaemonInd /\ OTypeOK /\ "collector" \in Readers /\ "loss" \in Readers /\ opens \in Nat
      /\ rd \in [Readers -> Reader] /\ dataLoss \in Nat /\ applied \in Nat
      /\ opens \in 0 .. MaxOpens /\ gapsShown \in [LogKeys -> Nat]
  BY DaemonFacts DEF OTypeOK
<1>2. pc = "loss" /\ UNCHANGED <<applied, gapsShown, opens>> /\ hurt \subseteq hurt'
  BY DEF ScanStep
<1>3. ASSUME DaemonInd', rd' \in [Readers -> Reader], dataLoss' \in Nat, pc' \in {"loss", "collect"}
      PROVE  OInd'
  <2>1. hurt' \in {hurt, hurt \cup {"read"}} /\ pc' \in {"idle", "loss", "collect"}
    BY <1>3
  <2> QED
    BY <1>1, <1>2, <1>3, <2>1, DaemonKeeps
<1>4. CASE ~rd["loss"].open /\ pc' = "collect" /\ UNCHANGED <<rd, dataLoss>>
  <2>1. DaemonInd'
    BY <1>2, <1>4, NothingRead
  <2> QED
    BY <1>1, <1>3, <1>4, <2>1
<1>5. CASE rd' = [rd EXCEPT !["loss"] = AfterEnd(rd["loss"])] /\ pc' = "collect" /\ UNCHANGED dataLoss
  <2>1. rd' = rd
    BY <1>1, <1>5 DEF AfterEnd
  <2>2. DaemonInd'
    BY <1>2, <1>5, <2>1, NothingRead
  <2> QED
    BY <1>1, <1>3, <1>5, <2>1, <2>2
<1>6. CASE /\ rd["loss"].open /\ (fault \/ ReadsBad(rd["loss"]))
           /\ rd' = [rd EXCEPT !["loss"] = ClosedReader(rd["loss"])]
           /\ pc' = "collect" /\ UNCHANGED dataLoss
  <2>1. opens > 0
    BY <1>1, <1>6 DEF DaemonInd, Positions
  <2>2. ~(hurt' \subseteq Harmless \ {"write"})
    <3>1. CASE fault
      BY <3>1 DEF Harmless
    <3>2. CASE ReadsBad(rd["loss"])
      BY <1>1, <1>2, <3>2, BadWasCut
    <3> QED
      BY <1>6, <3>1, <3>2
  <2>3. \A r \in Readers : rd'[r] = IF r \in {"loss"} THEN ClosedReader(rd[r]) ELSE rd[r]
    BY <1>1, <1>6
  <2>4. {"loss"} \in SUBSET Readers
    BY <1>1
  <2>5. DaemonInd'
    BY <1>2, <1>6, <2>1, <2>2, <2>3, <2>4, ReadersClose
  <2>6. rd' \in [Readers -> Reader]
    BY <1>1, <1>6, ClosedTypes
  <2> QED
    BY <1>1, <1>3, <1>6, <2>5, <2>6
<1>7. CASE /\ rd["loss"].open /\ ReadsRecord(rd["loss"]) /\ ~fault
           /\ rd' = [rd EXCEPT !["loss"] = StateAfter(rd["loss"], parse_event_record(rd["loss"].pos))]
           /\ dataLoss' = IF CountsLoss(rd["loss"].pos) THEN dataLoss + 1 ELSE dataLoss
           /\ UNCHANGED pc
  <2>1. DaemonInd' /\ rd' \in [Readers -> Reader]
    BY <1>2, <1>7, ScanReads
  <2>2. dataLoss' \in Nat /\ pc' = "loss"
    BY <1>1, <1>2, <1>7
  <2> QED
    BY <1>3, <2>1, <2>2
<1> QED
  BY <1>4, <1>5, <1>6, <1>7 DEF ScanStep

LEMMA Polls ==
  ASSUME OInd, NEW fault \in BOOLEAN, PollStep(fault),
         hurt' = IF fault THEN hurt \cup {"read"} ELSE hurt, plan' \in Budget,
         UNCHANGED <<file, writer, pvars, sup, emits>>
  PROVE  OInd'
<1>1. /\ DaemonInd /\ OTypeOK /\ "collector" \in Readers /\ "loss" \in Readers /\ opens \in Nat
      /\ rd \in [Readers -> Reader] /\ dataLoss \in Nat /\ applied \in Nat
      /\ opens \in 0 .. MaxOpens /\ gapsShown \in [LogKeys -> Nat]
      /\ rd["collector"].gaps \in [LogKeys -> Nat]
  BY DaemonFacts DEF OTypeOK, Reader
<1>2. pc = "collect" /\ UNCHANGED <<dataLoss, opens>> /\ hurt \subseteq hurt'
  BY DEF PollStep
<1>3. ASSUME DaemonInd', rd' \in [Readers -> Reader], applied' \in Nat, gapsShown' \in [LogKeys -> Nat],
             pc' \in {"idle", "collect"}
      PROVE  OInd'
  <2>1. hurt' \in {hurt, hurt \cup {"read"}} /\ pc' \in {"idle", "loss", "collect"}
    BY <1>3
  <2> QED
    BY <1>1, <1>2, <1>3, <2>1, DaemonKeeps
<1>4. CASE pc' = "idle" /\ UNCHANGED <<rd, applied, gapsShown>>
  <2>1. DaemonInd'
    BY <1>2, <1>4, NothingRead
  <2> QED
    BY <1>1, <1>3, <1>4, <2>1
<1>5. CASE /\ rd["collector"].open /\ gapsShown' = rd["collector"].gaps
           /\ rd' = [rd EXCEPT !["collector"] = AfterEnd(rd["collector"])]
           /\ pc' = "idle" /\ UNCHANGED applied
  <2>1. rd' = rd
    BY <1>1, <1>5 DEF AfterEnd
  <2>2. DaemonInd'
    BY <1>2, <1>5, <2>1, NothingRead
  <2> QED
    BY <1>1, <1>3, <1>5, <2>1, <2>2
<1>6. CASE /\ rd["collector"].open /\ (fault \/ ReadsBad(rd["collector"]))
           /\ rd' = [i \in Readers |-> ClosedReader(rd[i])]
           /\ pc' = "idle" /\ UNCHANGED <<applied, gapsShown>>
  <2>1. opens > 0
    BY <1>1, <1>6 DEF DaemonInd, Positions
  <2>2. ~(hurt' \subseteq Harmless \ {"write"})
    <3>1. CASE fault
      BY <3>1 DEF Harmless
    <3>2. CASE ReadsBad(rd["collector"])
      BY <1>1, <1>2, <3>2, BadWasCut
    <3> QED
      BY <1>6, <3>1, <3>2
  <2>3. \A r \in Readers : rd'[r] = IF r \in Readers THEN ClosedReader(rd[r]) ELSE rd[r]
    BY <1>1, <1>6
  <2>4. DaemonInd'
    BY <1>2, <1>6, <2>1, <2>2, <2>3, ReadersClose
  <2>5. rd' \in [Readers -> Reader]
    BY <1>1, <1>6, ClosedTypes
  <2> QED
    BY <1>1, <1>3, <1>6, <2>4, <2>5
<1>7. CASE /\ rd["collector"].open /\ ReadsRecord(rd["collector"]) /\ ~fault
           /\ rd' = [rd EXCEPT !["collector"] =
                       StateAfter(rd["collector"], parse_event_record(rd["collector"].pos))]
           /\ applied' = IF CountsApplied(rd["collector"].pos) THEN applied + 1 ELSE applied
           /\ UNCHANGED <<pc, gapsShown>>
  <2>1. DaemonInd' /\ rd' \in [Readers -> Reader]
    BY <1>2, <1>7, PollReads
  <2>2. applied' \in Nat /\ pc' = "collect"
    BY <1>1, <1>2, <1>7
  <2> QED
    BY <1>1, <1>3, <1>7, <2>1, <2>2
<1> QED
  BY <1>4, <1>5, <1>6, <1>7 DEF PollStep

LEMMA DaemonSteps ==
  ASSUME OInd, Daemon
  PROVE  OInd'
<1>1. plan \in Budget
  BY DEF OInd, OTypeOK
<1>2. CASE DaemonRuns
  <2>1. UNCHANGED <<file, writer, pvars, sup, emits, plan, hurt>>
    BY <1>2 DEF DaemonRuns, DaemonStep
  <2>2. CASE OpenLog
    BY <2>1, <2>2, Opens
  <2>3. CASE ScanStep(FALSE)
    BY <1>1, <2>1, <2>3, Scans
  <2>4. CASE PollStep(FALSE)
    BY <1>1, <2>1, <2>4, Polls
  <2> QED
    BY <1>2, <2>2, <2>3, <2>4 DEF DaemonRuns, DaemonStep
<1>3. CASE ReadError /\ UNCHANGED <<file, writer, pvars, sup, emits>>
  <2>1. plan' \in Budget /\ hurt' = hurt \cup {"read"}
    BY <1>1, <1>3, Spends DEF ReadError
  <2>2. CASE ScanStep(TRUE)
    <3>1. rd["loss"].open
      BY <1>3, <2>2 DEF ReadError, ScanStep
    <3> QED
      BY <1>3, <2>1, <2>2, <3>1, Scans
  <2>3. CASE PollStep(TRUE)
    BY <1>3, <2>1, <2>3, Polls
  <2> QED
    BY <1>3, <2>2, <2>3 DEF ReadError
<1>4. CASE Restart /\ UNCHANGED <<file, writer, pvars, sup, emits>>
  BY <1>4, Restarts
<1> QED
  BY <1>2, <1>3, <1>4 DEF Daemon

-----------------------------------------------------------------------------
(* The results.                                                                                  *)

LEMMA Starts ==
  ASSUME OInit
  PROVE  OInd
<1>1. PerturbInd
  BY PerturbStarts DEF OInit
<1>2. file = <<>> /\ Len(file) = 0 /\ hurt = {} /\ \A w \in Writers : ~writer[w].open
  BY DEF OInit, LogInit, Closed
<1>3. LogTypeOK
  <2>1. <<>> \in Seq(Fragment)
    OBVIOUS
  <2> QED
    BY <2>1 DEF OInit, LogInit, LogTypeOK, Closed
<1>4. \A x, n : n = 0 => Numbered(x, n) = {} /\ Fragments(x, n) = {}
  BY DEF Numbered, Fragments
<1>5. LogInd
  <2>1. FragmentsKnown /\ NumbersBounded
    BY <1>2 DEF FragmentsKnown, NumbersBounded
  <2>2. \A k \in LogKeys : Ranked(k)
    BY <1>2 DEF Ranked
  <2> QED
    BY <2>1, <2>2 DEF LogInd
<1>6. /\ \A a \in Actors : actor[a].pc = "idle"
      /\ pc = "idle" /\ rd = [r \in Readers |-> NewReader] /\ dataLoss = 0 /\ applied = 0
      /\ opens = 0 /\ gapsShown = [k \in LogKeys |-> 0] /\ sup = "down" /\ emits = 0 /\ plan \in Scenarios
  BY DEF OInit, PInit, DaemonInit, Idle
<1>7. /\ NewReader \in Reader /\ ~NewReader.open /\ NewReader.pos = 0
      /\ \A k \in LogKeys : NewReader.gaps[k] = 0
  BY DEF NewReader, Reader
<1>8. WritersOpen
  BY <1>2, <1>6, WriterKeys, ActorNames DEF WritersOpen
<1>9. OTypeOK
  BY <1>1, <1>3, <1>6, <1>7, ObsAssumption DEF OTypeOK, PerturbInd
<1>10. Positions /\ Expecting
  BY <1>2, <1>6, <1>7 DEF Positions, Expecting
<1>11. \A x : Cardinality(Fragments(x, Len(file))) = 0
  BY <1>2, <1>4, FS_EmptySet
<1>12. CarriedOut({"append", "exit0"}) = {} /\ CarriedOut({"exit0"}) = {}
  BY <1>6, ActorNames DEF CarriedOut
<1>13. /\ IsFiniteSet(CarriedOut({"append", "exit0"})) /\ Cardinality(CarriedOut({"exit0"})) = 0
       /\ 0 * 0 = 0
  BY <1>12, FS_EmptySet
<1>14. "loss" \in Readers /\ "collector" \in Readers
  BY DEF Readers
<1>15. CountedLoss /\ CountedApplied
  BY <1>6, <1>7, <1>11, <1>13, <1>14 DEF CountedLoss, CountedApplied
<1>16. Exact
  BY <1>6, <1>7, <1>11, <1>14 DEF Exact
<1> QED
  BY <1>1, <1>5, <1>8, <1>9, <1>10, <1>15, <1>16 DEF OInd

LEMMA Stutters ==
  ASSUME OInd, UNCHANGED ovars
  PROVE  OInd'
<1>1. /\ UNCHANGED <<file, writer, hurt, pvars, dvars, plan, sup, emits>>
      /\ UNCHANGED <<pc, rd, dataLoss, applied, gapsShown, opens>>
  BY DEF ovars, logvars, dvars
<1>2. DaemonInd'
  BY <1>1, NothingRead
<1>3. OTypeOK
  BY DEF OInd
<1> QED
  BY <1>1, <1>2, <1>3, DaemonKeeps DEF OTypeOK

LEMMA Preserves ==
  ASSUME OInd, [ONext]_ovars
  PROVE  OInd'
BY SupStarts, SupEmits, SupStops, HarnessSteps, DaemonSteps, Stutters DEF ONext

(* The inductive invariant holds throughout: of the event log's file and writers, the           *)
(* invocations of the harness and its replay, and the two readers of the daemon.                 *)
THEOREM ObservabilityInvariant == OSpec => []OInd
<1>1. OInit => OInd
  BY Starts
<1>2. OInd /\ [ONext]_ovars => OInd'
  BY Preserves
<1> QED
  BY <1>1, <1>2, PTL DEF OSpec

(* The replay log and the exit code of the harness (record_action, run_command) tell the truth    *)
(* about the signals it sent, for any number of invocations at once and whoever dies meanwhile.   *)
THEOREM HarnessIsHonest == OSpec => []HarnessHonest
<1>1. OInd => HarnessHonest
  <2> SUFFICES ASSUME OInd PROVE HarnessHonest
    OBVIOUS
  <2>1. PTypeOK /\ Signalled /\ Recorded
    BY DEF OInd, PerturbInd
  <2>2. RecordedWasSent
    BY <2>1 DEF Recorded, Signalled, RecordedWasSent
  <2>3. ExitCodeTells
    BY <2>1 DEF Recorded, Signalled, ExitCodeTells
  <2> QED
    BY <2>2, <2>3 DEF HarnessHonest
<1> QED
  BY <1>1, ObservabilityInvariant, PTL

(* replay_entries repeats any recorded log: what it has delivered is always a prefix of the        *)
(* recorded signals, to the remapped targets, and none a millisecond or more before its offset.    *)
THEOREM ReplayIsFaithful == OSpec => []ReplayOK
<1>1. OInd => ReplayOK
  BY DEF OInd, PerturbInd, ReplayOK
<1> QED
  BY <1>1, ObservabilityInvariant, PTL

(* EventLogWriter numbers the supervisor's complete records 1, 2, 3... across any number of         *)
(* restarts, and EventLogReader counts a gap on its first pass only where a fault broke the          *)
(* numbering.                                                                                       *)
THEOREM LogIsNumbered == OSpec => []LogNumbered
<1>1. OInd => LogNumbered
  <2> SUFFICES ASSUME OInd PROVE LogNumbered
    OBVIOUS
  <2>1. SequenceKept
    <3> SUFFICES ASSUME hurt \cap ({"fsync"} \cup Swallows) = {}
                 PROVE  SequenceKept
      BY DEF SequenceKept
    <3>1. Unbroken("supervisor") /\ "supervisor" \in LogKeys
      BY DEF Unbroken, LogKeys
    <3>2. Ranked("supervisor")
      BY <3>1 DEF OInd, LogInd
    <3> QED
      BY <3>2 DEF Ranked, SequenceKept
  <2>2. GapsExplained
    <3> SUFFICES ASSUME hurt \cap ({"fsync", "overlap"} \cup Swallows) = {}
                 PROVE  GapsExplained
      BY DEF GapsExplained
    <3>1. \A k \in LogKeys : Unbroken(k)
      BY DEF Unbroken
    <3> QED
      BY <3>1 DEF OInd, Expecting, GapsExplained
  <2> QED
    BY <2>1, <2>2 DEF LogNumbered
<1> QED
  BY <1>1, ObservabilityInvariant, PTL

(* scan_data_loss counts every loss that the supervisor logged exactly once by the time it has      *)
(* caught up, however the writers, the two readers and the restarts interleave.                      *)
THEOREM LossIsExact == OSpec => []LossExact
<1>1. OInd => LossExact
  BY DEF OInd, Exact, LossExact
<1> QED
  BY <1>1, ObservabilityInvariant, PTL

(* data_loss_events_total and perturbation_count_total never show more than happened in each pass    *)
(* over the log, whatever is torn, glued, read again or restarted.                                    *)
THEOREM CountersAreHonest == OSpec => []CountersHonest
<1>1. OInd => CountersHonest
  <2> SUFFICES ASSUME OInd PROVE CountersHonest
    OBVIOUS
  <2>1. OTypeOK /\ LossNeverInvented /\ opens \in Nat /\ applied \in Nat
    BY DaemonFacts DEF OInd, CountedLoss, LossNeverInvented
  <2>2. AppliedWasSent
    <3>1. PICK d \in Nat, e \in Nat : /\ d = Cardinality(CarriedOut({"exit0"})) /\ d <= e
                                      /\ e = Cardinality(CarriedOut({"append", "exit0"}))
      BY CarriedNat DEF OInd, CountedApplied
    <3>2. applied <= opens * d
      BY <3>1 DEF OInd, CountedApplied
    <3>3. opens * d <= opens * e /\ opens * d \in Nat /\ opens * e \in Nat
      BY <2>1, <3>1, TimesGrows
    <3> QED
      BY <2>1, <3>1, <3>2, <3>3 DEF AppliedWasSent
  <2> QED
    BY <2>1, <2>2 DEF CountersHonest
<1> QED
  BY <1>1, ObservabilityInvariant, PTL
=============================================================================
