------------------------- MODULE RegionAttachProofs -------------------------
(***************************************************************************)
(* Attaching to the named region, for any number of objects and faults: no  *)
(* handle without an identity, no region wiped by a second initialize, one  *)
(* region for a supervisor and its workers.                                *)
(***************************************************************************)
EXTENDS RegionAttach, FiniteSetTheorems, TLAPS

(* Creators are counted among four processes.                              *)
LEMMA ProcsFinite == IsFiniteSet(Procs)
<1>1. Procs = {} \cup {"supervisor"} \cup {"worker"} \cup {"daemon"} \cup {"ownership"}
  BY DEF Procs
<1> QED
  BY <1>1, FS_EmptySet, FS_AddElement

LEMMA AtMostOne ==
  ASSUME NEW S \in SUBSET Procs
  PROVE  Cardinality(S) <= 1 <=> \A p, q \in S : p = q
<1>1. IsFiniteSet(S)
  BY ProcsFinite, FS_Subset
<1>2. ASSUME NEW p \in S, Cardinality(S) <= 1, NEW q \in S
      PROVE  p = q
  <2>1. {p} \subseteq S /\ Cardinality({p}) = 1 /\ Cardinality(S) \in Nat
    BY <1>1, FS_Singleton, FS_CardinalityType
  <2>2. Cardinality({p}) <= Cardinality(S) /\ (Cardinality(S) = Cardinality({p}) => S = {p})
    BY <1>1, <2>1, FS_Subset
  <2>3. S = {p}
    BY <1>2, <2>1, <2>2
  <2> QED
    BY <1>2, <2>3
<1>3. ASSUME \A p, q \in S : p = q
      PROVE  Cardinality(S) <= 1
  <2>1. CASE S = {}
    BY <2>1, FS_EmptySet
  <2>2. ASSUME NEW p \in S
        PROVE  Cardinality(S) <= 1
    <3>1. S = {p}
      BY <1>3
    <3> QED
      BY <3>1, FS_Singleton
  <2> QED
    BY <2>1, <2>2
<1> QED
  BY <1>2, <1>3

-----------------------------------------------------------------------------
LEMMA AttachInit == AInit => AInd
<1> SUFFICES ASSUME AInit PROVE AInd
  OBVIOUS
<1>0. PICK first \in {NoObj, [NoObj EXCEPT !.size = "foreign"], [NoObj EXCEPT !.size = "region"]} :
        /\ obj = [o \in Objects |-> IF o = 1 THEN first ELSE NoObj]
        /\ name = IF first = NoObj THEN None ELSE 1
  BY DEF AInit
<1> DEFINE R == [size : {"none", "zero", "region", "foreign"}, init : {"none", "identity", "done"},
                 odd : BOOLEAN, records : 0 .. 1, cut : BOOLEAN]
<1>a. NoObj \in R /\ NoObj.init = "none" /\ NoObj.records = 0
  BY DEF NoObj
<1>b. \A z \in {"foreign", "region"} :
        /\ [NoObj EXCEPT !.size = z] \in R
        /\ [NoObj EXCEPT !.size = z].init = "none" /\ [NoObj EXCEPT !.size = z].records = 0
  BY <1>a
<1> HIDE DEF R
<1>d. first \in R /\ first.init = "none" /\ first.records = 0
  BY <1>a, <1>b
<1>c. 1 \in Objects
  BY AttachAssumption DEF Objects
<1>1. ATypeOK
  <2>1. obj \in [Objects -> R] /\ name \in Objects \cup {None}
    BY <1>0, <1>a, <1>d, <1>c
  <2>2. proc \in [Procs -> [pc : Steps, o : Objects \cup {None}, fresh : BOOLEAN]]
    <3>1. Detached \in [pc : Steps, o : Objects \cup {None}, fresh : BOOLEAN]
      BY DEF Detached, Steps
    <3> QED
      BY <3>1 DEF AInit
  <2>3. creators \in [Objects -> SUBSET Procs]
    BY DEF AInit
  <2>4. wiped \subseteq Objects /\ faults \in 0 .. MaxFaults
    BY AttachAssumption DEF AInit
  <2>5. removed \in BOOLEAN
    BY DEF AInit
  <2> QED
    BY <2>1, <2>2, <2>3, <2>4, <2>5 DEF ATypeOK, R
<1>2. \A p \in Procs : proc[p].pc = "down"
  BY DEF AInit, Detached
<1>3. \A o \in Objects : obj[o].init = "none" /\ obj[o].records = 0 /\ creators[o] = {}
  BY <1>0, <1>a, <1>d DEF AInit
<1>4. StepsOrdered /\ WorkerAfterSupervisor /\ FirstInitializes /\ NameKept
  BY <1>2, <1>3
  DEF StepsOrdered, WorkerAfterSupervisor, FirstInitializes, NameKept, NameStays, Creating, Before, Procs
<1>5. ObjectsGrow /\ NeverWiped
  BY <1>3 DEF AInit, ObjectsGrow, NeverWiped
<1> QED
  BY <1>1, <1>4, <1>5 DEF AInd

ProcRecord == [pc : Steps, o : Objects \cup {None}, fresh : BOOLEAN]
ObjRecord == [size : {"none", "zero", "region", "foreign"}, init : {"none", "identity", "done"},
              odd : BOOLEAN, records : 0 .. 1, cut : BOOLEAN]

LEMMA RecordKept ==
  ASSUME NEW f \in ObjRecord
  PROVE  [f EXCEPT !.init = "identity", !.odd = FALSE, !.records = 0] \in ObjRecord
<1>1. [f EXCEPT !.init = "identity"] \in ObjRecord
  BY DEF ObjRecord
<1>2. \A g \in ObjRecord : [g EXCEPT !.odd = FALSE] \in ObjRecord
  BY DEF ObjRecord
<1>3. \A g \in ObjRecord : [g EXCEPT !.records = 0] \in ObjRecord
  BY DEF ObjRecord
<1>4. [f EXCEPT !.init = "identity", !.odd = FALSE, !.records = 0]
      = [[[f EXCEPT !.init = "identity"] EXCEPT !.odd = FALSE] EXCEPT !.records = 0]
  BY DEF ObjRecord
<1> QED
  BY <1>1, <1>2, <1>3, <1>4

LEMMA OddKept ==
  ASSUME NEW f \in ObjRecord, NEW b \in BOOLEAN
  PROVE  /\ [f EXCEPT !.odd = b] \in ObjRecord
         /\ [f EXCEPT !.odd = b].size = f.size /\ [f EXCEPT !.odd = b].init = f.init
         /\ [f EXCEPT !.odd = b].cut = f.cut /\ [f EXCEPT !.odd = b].records = f.records
BY DEF ObjRecord

LEMMA CutKept ==
  ASSUME NEW f \in ObjRecord, NEW b \in BOOLEAN
  PROVE  /\ [f EXCEPT !.cut = b] \in ObjRecord /\ [f EXCEPT !.cut = b].cut = b
         /\ [f EXCEPT !.cut = b].size = f.size /\ [f EXCEPT !.cut = b].init = f.init
         /\ [f EXCEPT !.cut = b].records = f.records
BY DEF ObjRecord

(* What a worker may rely on is kept by every step that starts no worker and in which   *)
(* the supervisor does not begin to create.                                           *)
LEMMA WorkerKept ==
  ASSUME AInd, proc'["worker"].pc = "down" \/ proc["worker"].pc # "down",
         \A o \in Objects : obj[o].init # "none" => obj'[o].init # "none",
         ~removed' => ~removed, \A o \in Objects : Sole(o)' => Sole(o),
         NameStays' /\ Creating("supervisor")' => Creating("supervisor")
  PROVE  WorkerAfterSupervisor'
<1>1. NameStays' => NameStays
  BY DEF NameStays
<1> QED
  BY <1>1 DEF AInd, WorkerAfterSupervisor

(* A step of p alone that does not begin or end a creation.                  *)
LEMMA QuietStep ==
  ASSUME AInd, NEW p \in Procs, NEW r \in ProcRecord, proc' = [proc EXCEPT ![p] = r],
         UNCHANGED <<name, obj, creators, wiped, removed, faults>>,
         r.pc # "opened", proc[p].pc # "rings",
         r.pc \notin {"down", "forked", "present"} => r.o \in Objects /\ r.o = proc[p].o,
         r.pc \in {"map", "initialize", "rings", "verify", "ok"} => obj[r.o].size = "region",
         r.pc \in {"rings", "ok"} => obj[r.o].init # "none",
         r.pc # "rings", r.pc = "forked" => p = "worker",
         r.pc \in {"truncate", "initialize"} \/ (r.pc = "map" /\ r.fresh) => Before(p),
         p = "worker" => proc[p].pc # "down" \/ Attached("supervisor")
  PROVE  AInd'
<1> USE DEF AInd
<1>1. \A q \in Procs \ {p} : proc'[q] = proc[q]
  BY DEF ATypeOK
<1>2. proc'[p] = r
  BY DEF ATypeOK
<1>3. \A o \in Objects : Sole(o)' <=> Sole(o)
  BY DEF Sole
<1>4. ATypeOK'
  BY DEF ATypeOK, ProcRecord
<1>5. /\ \A q \in Procs : Creating(q)' => Creating(q) /\ proc'[q].o = proc[q].o
      /\ \A q \in Procs : Before(q)' => Before(q)
  BY <1>1, <1>2 DEF Creating, Before
<1>6. StepsOrdered'
  BY <1>1, <1>2, <1>5 DEF StepsOrdered
<1>7. WorkerAfterSupervisor'
  <2>2. "supervisor" \in Procs /\ "worker" \in Procs
    BY DEF Procs
  <2>3. CASE proc'["worker"].pc = "down" \/ proc["worker"].pc # "down"
    BY <1>3, <1>5, <2>2, <2>3, WorkerKept
  <2>4. CASE Attached("supervisor") /\ p = "worker"
    <3>1. proc["supervisor"].o \in Objects /\ obj[proc["supervisor"].o].init # "none"
      BY <2>2, <2>4 DEF StepsOrdered, Attached
    <3>2. ~Creating("supervisor")
      BY <2>4 DEF Creating, Before, Attached
    <3> QED
      BY <1>5, <2>2, <3>1, <3>2 DEF WorkerAfterSupervisor
  <2> QED
    BY <1>1, <2>2, <2>3, <2>4
<1>8. ObjectsGrow'
  <2>1. \A o \in Objects : (\E q \in Procs : proc[q].pc = "rings" /\ proc[q].o = o)
          => \E q \in Procs : proc'[q].pc = "rings" /\ proc'[q].o = o
    BY <1>1
  <2> QED
    BY <2>1 DEF ObjectsGrow
<1>9. FirstInitializes'
  <2> SUFFICES ASSUME NEW q \in Procs, Before(q)', Sole(proc[q].o)'
               PROVE  obj'[proc'[q].o].init = "none"
    BY DEF FirstInitializes
  <2>1. Before(q) /\ proc'[q].o = proc[q].o /\ proc[q].o \in Objects
    BY <1>5, <1>6 DEF StepsOrdered, Creating, Before
  <2> QED
    BY <1>3, <2>1 DEF FirstInitializes
<1>10. NameKept'
  <2> SUFFICES ASSUME ~removed, \A o \in Objects : Sole(o)
               PROVE  NameKept'
    BY <1>3 DEF NameKept, NameStays
  <2>1. \A o \in Objects : obj'[o].init # "none" => name' = o
    BY DEF NameKept, NameStays
  <2>2. \A q \in Procs : Creating(q)' => name' = proc'[q].o
    BY <1>5 DEF NameKept, NameStays
  <2>3. ASSUME NEW q \in Procs, proc'[q].pc = "opened", obj'[proc'[q].o].size = "zero",
               creators'[proc'[q].o] \subseteq {q}
        PROVE  name' = proc'[q].o
    BY <1>1, <1>2, <2>3 DEF NameKept, NameStays
  <2> QED
    BY <2>1, <2>2, <2>3 DEF NameKept, NameStays
<1>11. NeverWiped'
  BY <1>3 DEF NeverWiped, ATypeOK
<1> QED
  BY <1>4, <1>6, <1>7, <1>8, <1>9, <1>10, <1>11

LEMMA ShmOpenStep ==
  ASSUME AInd, NEW p \in Procs, ShmOpen(p)
  PROVE  AInd'
<1> USE AttachAssumption DEF AInd
<1>1. UNCHANGED <<creators, wiped, removed, faults>> /\ MayStart(p)
  BY DEF ShmOpen
<1>2. \A o \in Objects : Sole(o)' <=> Sole(o)
  BY <1>1 DEF Sole
<1>3. ASSUME NEW o \in Objects, proc' = [proc EXCEPT ![p] = [pc |-> "opened", o |-> o, fresh |-> FALSE]],
             obj' \in [Objects -> [size : {"none", "zero", "region", "foreign"},
                                   init : {"none", "identity", "done"},
                                   odd : BOOLEAN, records : 0 .. 1, cut : BOOLEAN]],
             \A i \in Objects : /\ obj'[i].init = obj[i].init /\ obj'[i].records = obj[i].records
                                /\ obj'[i].cut = obj[i].cut
                                /\ obj'[i].size = obj[i].size \/ (obj[i].size = "none" /\ i = o),
             name' = o,
             name = o \/ (name = None /\ obj[o].size = "none")
      PROVE  AInd'
  <2> USE <1>3
  <2>1. ATypeOK'
    BY <1>1 DEF ATypeOK, Steps
  <2>2. \A q \in Procs \ {p} : proc'[q] = proc[q]
    BY DEF ATypeOK
  <2>3. proc'[p].pc = "opened" /\ proc'[p].o = o /\ ~proc'[p].fresh
    BY DEF ATypeOK
  <2>4. StepsOrdered'
    BY <1>1, <2>2, <2>3 DEF StepsOrdered, Creating, Before
  <2>5. WorkerAfterSupervisor'
    <3>1. "supervisor" \in Procs /\ "worker" \in Procs
      BY DEF Procs
    <3>2. proc["worker"].pc # "down" \/ proc'["worker"].pc = "down"
      BY <1>1, <2>2, <3>1 DEF MayStart
    <3>3. Creating("supervisor")' => Creating("supervisor")
      BY <2>2, <2>3, <3>1 DEF Creating, Before
    <3> QED
      BY <1>1, <1>2, <3>2, <3>3, WorkerKept
  <2>6. ObjectsGrow'
    <3>1. proc[p].pc # "rings"
      BY <1>1 DEF MayStart
    <3>2. \A i \in Objects : (\E q \in Procs : proc[q].pc = "rings" /\ proc[q].o = i)
            => \E q \in Procs : proc'[q].pc = "rings" /\ proc'[q].o = i
      BY <2>2, <3>1
    <3> QED
      BY <1>1, <3>2 DEF ObjectsGrow
  <2>7. FirstInitializes'
    BY <1>1, <1>2, <2>2, <2>3 DEF FirstInitializes, Before, StepsOrdered, Creating
  <2>8. NameKept'
    <3> SUFFICES ASSUME ~removed, \A i \in Objects : Sole(i)
                 PROVE  NameKept'
      BY <1>1, <1>2 DEF NameKept, NameStays
    <3>1. \A i \in Objects : name = i => name' = i
      BY DEF None, Objects
    <3>2. \A i \in Objects : obj'[i].init # "none" => name' = i
      BY <3>1 DEF NameKept, NameStays
    <3>3. \A q \in Procs : Creating(q)' => name' = proc'[q].o
      <4> SUFFICES ASSUME NEW q \in Procs, Creating(q)' PROVE name' = proc'[q].o
        OBVIOUS
      <4>1. q # p /\ proc'[q] = proc[q]
        BY <2>2, <2>3 DEF Creating, Before
      <4>2. Creating(q) /\ proc[q].o \in Objects
        BY <4>1 DEF Creating, Before, StepsOrdered
      <4> QED
        BY <3>1, <4>1, <4>2 DEF NameKept, NameStays
    <3>4. ASSUME NEW q \in Procs, proc'[q].pc = "opened", obj'[proc'[q].o].size = "zero",
                 creators'[proc'[q].o] \subseteq {q}
          PROVE  name' = proc'[q].o
      <4>1. CASE q = p
        BY <2>3, <4>1
      <4>2. CASE q # p
        <5>1. proc'[q] = proc[q] /\ proc[q].o \in Objects
          BY <2>2, <3>4, <4>2 DEF StepsOrdered
        <5>2. CASE obj[proc[q].o].size = "zero"
          <6>1. proc[q].pc = "opened" /\ creators[proc[q].o] \subseteq {q}
            BY <1>1, <3>4, <5>1
          <6>2. name = proc[q].o
            BY <5>2, <6>1 DEF NameKept, NameStays
          <6> QED
            BY <3>1, <5>1, <6>2
        <5>3. CASE obj[proc[q].o].size # "zero"
          BY <3>4, <5>1, <5>3
        <5> QED
          BY <5>2, <5>3
      <4> QED
        BY <4>1, <4>2
    <3> QED
      BY <3>2, <3>3, <3>4 DEF NameKept, NameStays
  <2>9. NeverWiped'
    BY <1>1, <1>2 DEF NeverWiped, ATypeOK
  <2> QED
    BY <2>1, <2>4, <2>5, <2>6, <2>7, <2>8, <2>9
<1>4. CASE name # None
  BY <1>3, <1>4 DEF ShmOpen, ATypeOK
<1>5. CASE name = None
  <2>1. PICK o \in Objects :
          /\ obj[o].size = "none" /\ obj' = [obj EXCEPT ![o].size = "zero"] /\ name' = o
          /\ proc' = [proc EXCEPT ![p] = [pc |-> "opened", o |-> o, fresh |-> FALSE]]
    BY <1>5 DEF ShmOpen
  <2> QED
    BY <1>3, <1>5, <2>1 DEF ATypeOK
<1> QED
  BY <1>4, <1>5

LEMMA FstatStep ==
  ASSUME AInd, NEW p \in Procs, Fstat(p)
  PROVE  AInd'
<1> USE AttachAssumption DEF AInd
<1> DEFINE o == proc[p].o
<1>1. UNCHANGED <<name, obj, wiped, removed, faults>> /\ proc[p].pc = "opened" /\ o \in Objects
      /\ ~proc[p].fresh
  BY DEF Fstat, StepsOrdered
<1>2. CASE obj[o].size = "zero"
  <2> USE <1>2
  <2>1. /\ proc' = [proc EXCEPT ![p].pc = "truncate"]
        /\ creators' = [creators EXCEPT ![o] = @ \cup {p}]
    BY DEF Fstat, Goto
  <2>2. ATypeOK'
    BY <1>1, <2>1 DEF ATypeOK, Steps
  <2>3. /\ \A q \in Procs \ {p} : proc'[q] = proc[q]
        /\ proc'[p].pc = "truncate" /\ proc'[p].o = o /\ ~proc'[p].fresh
        /\ \A i \in Objects : creators[i] \subseteq creators'[i] /\ (i # o => creators'[i] = creators[i])
        /\ creators'[o] = creators[o] \cup {p}
    BY <1>1, <2>1 DEF ATypeOK
  <2>4. \A i \in Objects : Sole(i)' => Sole(i)
    <3> SUFFICES ASSUME NEW i \in Objects, Sole(i)' PROVE Sole(i)
      OBVIOUS
    <3>1. \A q, r \in creators'[i] : q = r
      BY <2>2, AtMostOne DEF Sole, ATypeOK
    <3> QED
      BY <2>3, <3>1, AtMostOne DEF Sole, ATypeOK
  <2>5. StepsOrdered'
    BY <1>1, <2>3 DEF StepsOrdered, Creating, Before
  <2>6. WorkerAfterSupervisor'
    <3>1. "supervisor" \in Procs /\ "worker" \in Procs
      BY DEF Procs
    <3>2. CASE proc["worker"].pc = "down"
      <4>1. proc'["worker"].pc = "down"
        BY <1>1, <2>3, <3>1, <3>2
      <4> QED
        BY <4>1 DEF WorkerAfterSupervisor
    <3>3. CASE proc["worker"].pc # "down"
      <4>1. PICK i \in Objects : obj[i].init # "none"
        BY <3>3 DEF WorkerAfterSupervisor
      <4>2. ASSUME NameStays', p = "supervisor"
            PROVE  FALSE
        <5>1. \A q, r \in creators'[o] : q = r
          BY <1>1, <2>2, <4>2, AtMostOne DEF Sole, NameStays, ATypeOK
        <5>2. creators[o] \subseteq {p}
          BY <2>3, <5>1
        <5>3. NameStays
          BY <1>1, <2>4, <4>2 DEF NameStays
        <5>4. name = o /\ name = i
          BY <1>1, <4>1, <5>2, <5>3 DEF NameKept
        <5> QED
          BY <1>1, <4>1, <5>4 DEF ObjectsGrow
      <4>3. NameStays' /\ Creating("supervisor")' => Creating("supervisor")
        BY <2>3, <3>1, <4>2 DEF Creating, Before
      <4> QED
        BY <1>1, <2>4, <3>3, <4>3, WorkerKept
    <3> QED
      BY <3>2, <3>3
  <2>7. ObjectsGrow'
    <3>1. \A i \in Objects : (\E q \in Procs : proc[q].pc = "rings" /\ proc[q].o = i)
            => \E q \in Procs : proc'[q].pc = "rings" /\ proc'[q].o = i
      BY <1>1, <2>3
    <3> QED
      BY <1>1, <2>3, <3>1 DEF ObjectsGrow
  <2>8. FirstInitializes'
    BY <1>1, <2>3, <2>4 DEF FirstInitializes, Before, StepsOrdered, Creating, ObjectsGrow
  <2>9. NameKept'
    <3> SUFFICES ASSUME ~removed, \A i \in Objects : Sole(i)'
                 PROVE  NameKept'
      BY <1>1 DEF NameKept, NameStays
    <3>1. creators[o] \subseteq {p}
      <4>1. \A q, r \in creators'[o] : q = r
        BY <1>1, <2>2, AtMostOne DEF Sole, ATypeOK
      <4> QED
        BY <2>3, <4>1
    <3>2. name = o
      BY <1>1, <2>4, <3>1 DEF NameKept, NameStays
    <3> QED
      <4>1. \A i \in Objects : obj'[i].init # "none" => name' = i
        BY <1>1, <2>4 DEF NameKept, NameStays
      <4>2. \A q \in Procs : Creating(q)' => name' = proc'[q].o
        BY <1>1, <2>3, <2>4, <3>2 DEF NameKept, NameStays, Creating, Before
      <4>3. ASSUME NEW q \in Procs, proc'[q].pc = "opened", obj'[proc'[q].o].size = "zero",
                   creators'[proc'[q].o] \subseteq {q}
            PROVE  name' = proc'[q].o
        <5>1. q # p /\ proc'[q] = proc[q] /\ proc[q].o \in Objects
          BY <2>3, <4>3 DEF StepsOrdered
        <5>2. creators[proc[q].o] \subseteq {q}
          BY <2>3, <4>3, <5>1
        <5> QED
          BY <1>1, <2>4, <4>3, <5>1, <5>2 DEF NameKept, NameStays
      <4> QED
        BY <4>1, <4>2, <4>3 DEF NameKept, NameStays
  <2>10. NeverWiped'
    BY <1>1, <2>4 DEF NeverWiped, ATypeOK
  <2> QED
    BY <2>2, <2>5, <2>6, <2>7, <2>8, <2>9, <2>10
<1>3. CASE obj[o].size = "region"
  <2>1. proc' = [proc EXCEPT ![p].pc = "map"] /\ creators' = creators
    BY <1>3 DEF Fstat, Goto
  <2> DEFINE r == [proc[p] EXCEPT !.pc = "map"]
  <2>2. r \in ProcRecord /\ r.pc = "map" /\ r.o = o /\ ~r.fresh /\ proc' = [proc EXCEPT ![p] = r]
    BY <1>1, <2>1 DEF ATypeOK, ProcRecord, Steps
  <2> HIDE DEF r
  <2> QED
    BY <1>1, <1>3, <2>1, <2>2, QuietStep
<1>4. CASE obj[o].size = "foreign"
  <2>1. proc' = [proc EXCEPT ![p] = Detached] /\ creators' = creators
    BY <1>4 DEF Fstat, Fail
  <2>2. Detached \in ProcRecord /\ Detached.pc = "down"
    BY DEF Detached, ProcRecord, Steps
  <2> QED
    BY <1>1, <2>1, <2>2, QuietStep
<1> QED
  BY <1>2, <1>3, <1>4 DEF Fstat

(* Mapping, verifying, and giving up a handle.                               *)
LEMMA OtherSteps ==
  ASSUME AInd, NEW p \in Procs, Mmap(p) \/ VerifyIdentity(p) \/ Fork \/ Detach \/ Exists \/ ProbeLost
  PROVE  AInd'
<1> USE DEF AInd
<1>0. Detached \in ProcRecord /\ Detached.pc = "down"
  BY DEF Detached, ProcRecord, Steps
<1>1. CASE Mmap(p)
  <2>1. /\ proc[p].pc = "map" /\ proc[p].o \in Objects /\ obj[proc[p].o].size = "region"
        /\ UNCHANGED <<name, obj, creators, wiped, removed, faults>>
    BY <1>1 DEF Mmap, StepsOrdered
  <2> DEFINE r == [proc[p] EXCEPT !.pc = IF proc[p].fresh THEN "initialize" ELSE "verify"]
  <2>2. /\ r \in ProcRecord /\ r.o = proc[p].o
        /\ r.pc = "verify" \/ (r.pc = "initialize" /\ proc[p].fresh)
    BY <2>1 DEF ATypeOK, ProcRecord, Steps
  <2>3. proc' = [proc EXCEPT ![p] = r]
    BY <1>1 DEF Mmap, Goto, ATypeOK
  <2> HIDE DEF r
  <2> QED
    BY <2>1, <2>2, <2>3, QuietStep DEF Before
<1>2. CASE VerifyIdentity(p)
  <2>1. /\ proc[p].pc = "verify" /\ proc[p].o \in Objects /\ obj[proc[p].o].size = "region"
        /\ UNCHANGED <<name, obj, creators, wiped, removed, faults>>
    BY <1>2 DEF VerifyIdentity, StepsOrdered
  <2>2. CASE verify_identity(proc[p].o)
    <3> DEFINE r == [proc[p] EXCEPT !.pc = "ok"]
    <3>1. r \in ProcRecord /\ r.o = proc[p].o /\ r.pc = "ok"
      BY <2>1 DEF ATypeOK, ProcRecord, Steps
    <3>2. proc' = [proc EXCEPT ![p] = r]
      BY <1>2, <2>2 DEF VerifyIdentity, Goto, ATypeOK
    <3> HIDE DEF r
    <3> QED
      BY <2>1, <2>2, <3>1, <3>2, QuietStep DEF verify_identity
  <2>3. CASE ~verify_identity(proc[p].o)
    <3>1. proc' = [proc EXCEPT ![p] = Detached]
      BY <1>2, <2>3 DEF VerifyIdentity, Fail
    <3> QED
      BY <1>0, <2>1, <3>1, QuietStep
  <2> QED
    BY <2>2, <2>3
<1>3. CASE Detach
  BY <1>0, <1>3, QuietStep DEF Detach, Fail, Attached, Procs
<1>4. CASE ProbeLost
  BY <1>0, <1>4, QuietStep DEF ProbeLost, Fail, Attached, Procs
<1>5. CASE Exists
  <2>1. /\ proc["daemon"].pc = "down" /\ "daemon" \in Procs
        /\ UNCHANGED <<name, obj, creators, wiped, removed, faults>>
    BY <1>5 DEF Exists, Procs
  <2> DEFINE r == [proc["daemon"] EXCEPT !.pc = "present"]
  <2>2. r \in ProcRecord /\ r.pc = "present" /\ proc' = [proc EXCEPT !["daemon"] = r]
    BY <1>5, <2>1 DEF Exists, Goto, ATypeOK, ProcRecord, Steps
  <2> HIDE DEF r
  <2> QED
    BY <2>1, <2>2, QuietStep
<1>6. CASE Fork
  <2>1. /\ proc["worker"].pc = "down" /\ Attached("supervisor") /\ "worker" \in Procs
        /\ UNCHANGED <<name, obj, creators, wiped, removed, faults>>
    BY <1>6 DEF Fork, Procs
  <2> DEFINE r == [proc["worker"] EXCEPT !.pc = "forked"]
  <2>2. r \in ProcRecord /\ r.pc = "forked" /\ proc' = [proc EXCEPT !["worker"] = r]
    BY <1>6, <2>1 DEF Fork, Goto, ATypeOK, ProcRecord, Steps
  <2> HIDE DEF r
  <2> QED
    BY <2>1, <2>2, QuietStep
<1> QED
  BY <1>1, <1>2, <1>3, <1>4, <1>5, <1>6

LEMMA FtruncateStep ==
  ASSUME AInd, NEW p \in Procs, Ftruncate(p)
  PROVE  AInd'
<1> USE DEF AInd
<1> DEFINE o == proc[p].o
<1>1. /\ proc[p].pc = "truncate" /\ o \in Objects /\ p \in creators[o]
      /\ obj' = [obj EXCEPT ![o].size = "region"]
      /\ proc' = [proc EXCEPT ![p].pc = "map", ![p].fresh = TRUE]
      /\ UNCHANGED <<name, creators, wiped, removed, faults>>
  BY DEF Ftruncate, StepsOrdered, Creating, Before
<1>2. /\ \A q \in Procs \ {p} : proc'[q] = proc[q]
      /\ proc'[p].pc = "map" /\ proc'[p].o = o /\ proc'[p].fresh
      /\ \A i \in Objects : /\ obj'[i].init = obj[i].init /\ obj'[i].records = obj[i].records
                            /\ obj'[i].cut = obj[i].cut
                            /\ i # o => obj'[i].size = obj[i].size
      /\ obj'[o].size = "region"
  BY <1>1 DEF ATypeOK
<1>3. \A i \in Objects : Sole(i)' <=> Sole(i)
  BY <1>1 DEF Sole
<1>4. ATypeOK'
  <2>1. obj' \in [Objects -> ObjRecord]
    <3>1. obj \in [Objects -> ObjRecord]
      BY DEF ATypeOK, ObjRecord
    <3>2. [obj[o] EXCEPT !.size = "region"] \in ObjRecord
      BY <1>1, <3>1 DEF ObjRecord
    <3> QED
      BY <1>1, <3>1, <3>2
  <2>2. proc' \in [Procs -> ProcRecord]
    BY <1>1 DEF ATypeOK, ProcRecord, Steps
  <2> QED
    BY <1>1, <2>1, <2>2 DEF ATypeOK, ProcRecord, ObjRecord
<1>5. StepsOrdered'
  <2> SUFFICES ASSUME NEW q \in Procs
               PROVE  /\ proc'[q].pc \notin {"down", "forked", "present"} => proc'[q].o \in Objects
                      /\ proc'[q].pc = "forked" => q = "worker"
                      /\ proc'[q].pc = "opened" => ~proc'[q].fresh
                      /\ proc'[q].pc \in {"map", "initialize", "rings", "verify", "ok"}
                           => obj'[proc'[q].o].size = "region"
                      /\ proc'[q].pc \in {"rings", "ok"} => obj'[proc'[q].o].init # "none"
                      /\ Creating(q)' => q \in creators'[proc'[q].o]
    BY DEF StepsOrdered
  <2>1. CASE q = p
    BY <1>1, <1>2, <2>1
  <2>2. CASE q # p
    <3>1. proc'[q] = proc[q] /\ (Creating(q)' => Creating(q))
      BY <1>2, <2>2 DEF Creating, Before
    <3>2. proc[q].o \in Objects => /\ obj'[proc[q].o].init = obj[proc[q].o].init
                                  /\ obj'[proc[q].o].size \in {obj[proc[q].o].size, "region"}
      BY <1>2
    <3> QED
      BY <1>1, <3>1, <3>2 DEF StepsOrdered
  <2> QED
    BY <2>1, <2>2
<1>6. WorkerAfterSupervisor'
  <2>1. "supervisor" \in Procs /\ "worker" \in Procs
    BY DEF Procs
  <2>2. proc["worker"].pc # "down" \/ proc'["worker"].pc = "down"
    BY <1>1, <1>2, <2>1
  <2>3. Creating("supervisor")' => Creating("supervisor")
    BY <1>1, <1>2, <2>1 DEF Creating, Before
  <2>4. \A i \in Objects : obj[i].init # "none" => obj'[i].init # "none"
    BY <1>1, <1>2
  <2> QED
    BY <1>1, <1>3, <2>2, <2>3, <2>4, WorkerKept
<1>7. ObjectsGrow'
  <2>1. \A i \in Objects : (\E q \in Procs : proc[q].pc = "rings" /\ proc[q].o = i)
          => \E q \in Procs : proc'[q].pc = "rings" /\ proc'[q].o = i
    BY <1>1, <1>2
  <2>2. obj[o].size # "none"
    BY <1>1 DEF ObjectsGrow
  <2>3. ASSUME NEW i \in Objects
        PROVE  /\ obj'[i].size = "none" => creators'[i] = {}
               /\ obj'[i].size # "region" => obj'[i].init = "none"
               /\ obj'[i].init = "none" => obj'[i].records = 0
               /\ obj'[i].init = "identity" =>
                    obj'[i].cut \/ \E q \in Procs : proc'[q].pc = "rings" /\ proc'[q].o = i
    <3>1. /\ obj'[i].init = obj[i].init /\ obj'[i].records = obj[i].records
          /\ obj'[i].cut = obj[i].cut /\ creators' = creators
          /\ obj'[i].size \in {"region", obj[i].size}
      BY <1>1, <1>2
    <3> HIDE DEF o
    <3>2. /\ obj[i].size = "none" => creators[i] = {}
          /\ obj[i].size # "region" => obj[i].init = "none"
          /\ obj[i].init = "none" => obj[i].records = 0
      BY DEF ObjectsGrow
    <3>3. obj'[i].init = "identity" =>
            obj[i].cut \/ \E q \in Procs : proc'[q].pc = "rings" /\ proc'[q].o = i
      BY <2>1, <3>1 DEF ObjectsGrow
    <3>4. obj'[i].cut <=> obj[i].cut
      BY <3>1
    <3> QED
      BY <3>1, <3>2, <3>3, <3>4
  <2> QED
    BY <2>3 DEF ObjectsGrow
<1>8. \A q \in Procs : /\ Creating(q)' => Creating(q) /\ proc'[q].o = proc[q].o
                       /\ Before(q)' => Before(q) /\ proc[q].o \in Objects
  <2> SUFFICES ASSUME NEW q \in Procs
               PROVE  /\ Creating(q)' => Creating(q) /\ proc'[q].o = proc[q].o
                      /\ Before(q)' => Before(q) /\ proc[q].o \in Objects
    OBVIOUS
  <2>1. CASE q = p
    BY <1>1, <1>2, <2>1 DEF Creating, Before
  <2>2. CASE q # p
    <3>1. proc'[q] = proc[q]
      BY <1>2, <2>2
    <3>2. Before(q) => proc[q].o \in Objects
      BY DEF Before, StepsOrdered
    <3> QED
      BY <3>1, <3>2 DEF Creating, Before
  <2> QED
    BY <2>1, <2>2
<1>9. FirstInitializes'
  BY <1>2, <1>3, <1>8 DEF FirstInitializes, Creating
<1>10. NameKept'
  <2> SUFFICES ASSUME ~removed, \A i \in Objects : Sole(i)
               PROVE  NameKept'
    BY <1>1, <1>3 DEF NameKept, NameStays
  <2>1. \A i \in Objects : obj'[i].init # "none" => name' = i
    BY <1>1, <1>2 DEF NameKept, NameStays
  <2>2. \A q \in Procs : Creating(q)' => name' = proc'[q].o
    BY <1>1, <1>8 DEF NameKept, NameStays
  <2>3. ASSUME NEW q \in Procs, proc'[q].pc = "opened", obj'[proc'[q].o].size = "zero",
               creators'[proc'[q].o] \subseteq {q}
        PROVE  name' = proc'[q].o
    <3>1. q # p /\ proc'[q] = proc[q] /\ proc[q].pc = "opened" /\ proc[q].o \in Objects
      BY <1>2, <2>3 DEF StepsOrdered
    <3>2. obj[proc[q].o].size = "zero" /\ creators[proc[q].o] \subseteq {q}
      BY <1>1, <1>2, <2>3, <3>1
    <3> QED
      BY <1>1, <3>1, <3>2 DEF NameKept, NameStays
  <2> QED
    BY <2>1, <2>2, <2>3 DEF NameKept, NameStays
<1>11. NeverWiped'
  BY <1>1, <1>3 DEF NeverWiped, ATypeOK
<1> QED
  BY <1>4, <1>5, <1>6, <1>7, <1>9, <1>10, <1>11

(* The first store of initialize that a reader can take for an identity.     *)
LEMMA InitIdentityStep ==
  ASSUME AInd, NEW p \in Procs, InitIdentity(p)
  PROVE  AInd'
<1> USE DEF AInd
<1> DEFINE o == proc[p].o
<1>1. /\ proc[p].pc = "initialize" /\ o \in Objects /\ p \in creators[o] /\ obj[o].size = "region"
      /\ obj' = [obj EXCEPT ![o] = [@ EXCEPT !.init = "identity", !.odd = FALSE, !.records = 0]]
      /\ proc' = [proc EXCEPT ![p].pc = "rings"]
      /\ wiped' = IF obj[o].records > 0 THEN wiped \cup {o} ELSE wiped
      /\ UNCHANGED <<name, creators, removed, faults>>
  BY DEF InitIdentity, Goto, StepsOrdered, Creating, Before
<1>2. /\ \A q \in Procs \ {p} : proc'[q] = proc[q]
      /\ proc'[p].pc = "rings" /\ proc'[p].o = o
      /\ \A i \in Objects : /\ obj'[i].size = obj[i].size /\ obj'[i].cut = obj[i].cut
                            /\ i # o => obj'[i] = obj[i]
      /\ obj'[o].init = "identity" /\ obj'[o].records = 0
  BY <1>1 DEF ATypeOK
<1>3. \A i \in Objects : Sole(i)' <=> Sole(i)
  BY <1>1 DEF Sole
<1>4. ATypeOK'
  <2>1. obj' \in [Objects -> ObjRecord]
    <3> DEFINE z == [obj[o] EXCEPT !.init = "identity", !.odd = FALSE, !.records = 0]
    <3>1. obj[o] \in ObjRecord
      BY <1>1 DEF ATypeOK, ObjRecord
    <3>3. z \in ObjRecord
      BY <3>1, RecordKept
    <3>4. obj' = [obj EXCEPT ![o] = z]
      BY <1>1
    <3> HIDE DEF z
    <3> QED
      BY <3>3, <3>4 DEF ATypeOK, ObjRecord
  <2>2. proc' \in [Procs -> ProcRecord]
    BY <1>1 DEF ATypeOK, ProcRecord, Steps
  <2> QED
    BY <1>1, <2>1, <2>2 DEF ATypeOK, ProcRecord, ObjRecord
<1>5. StepsOrdered'
  BY <1>1, <1>2 DEF StepsOrdered, Creating, Before
<1>6. WorkerAfterSupervisor'
  <2>1. "supervisor" \in Procs /\ "worker" \in Procs
    BY DEF Procs
  <2>2. proc["worker"].pc # "down" \/ proc'["worker"].pc = "down"
    BY <1>1, <1>2, <2>1
  <2>3. Creating("supervisor")' => Creating("supervisor")
    BY <1>1, <1>2, <2>1 DEF Creating, Before
  <2>4. \A i \in Objects : obj[i].init # "none" => obj'[i].init # "none"
    BY <1>1, <1>2
  <2> QED
    BY <1>1, <1>3, <2>2, <2>3, <2>4, WorkerKept
<1>7. ObjectsGrow'
  <2> SUFFICES ASSUME NEW i \in Objects
               PROVE  /\ obj'[i].size = "none" => creators'[i] = {}
                      /\ obj'[i].size # "region" => obj'[i].init = "none"
                      /\ obj'[i].init = "none" => obj'[i].records = 0
                      /\ obj'[i].init = "identity" =>
                           obj'[i].cut \/ \E q \in Procs : proc'[q].pc = "rings" /\ proc'[q].o = i
    BY DEF ObjectsGrow
  <2>1. CASE i = o
    BY <1>1, <1>2, <2>1
  <2>2. CASE i # o
    <3>1. (\E q \in Procs : proc[q].pc = "rings" /\ proc[q].o = i)
          => \E q \in Procs : proc'[q].pc = "rings" /\ proc'[q].o = i
      BY <1>1, <1>2
    <3> QED
      BY <1>1, <1>2, <2>2, <3>1 DEF ObjectsGrow
  <2> QED
    BY <2>1, <2>2
<1>8. FirstInitializes'
  <2> SUFFICES ASSUME NEW q \in Procs, Before(q)', Sole(proc[q].o)'
               PROVE  obj'[proc'[q].o].init = "none"
    BY DEF FirstInitializes
  <2>1. q # p /\ proc'[q] = proc[q] /\ Before(q) /\ proc[q].o \in Objects /\ Sole(proc[q].o)
        /\ q \in creators[proc[q].o]
    BY <1>2, <1>3 DEF Before, StepsOrdered, Creating
  <2>2. proc[q].o # o
    BY <1>1, <2>1, AtMostOne DEF Sole, ATypeOK
  <2> QED
    BY <1>2, <2>1, <2>2 DEF FirstInitializes
<1>9. NameKept'
  <2> SUFFICES ASSUME ~removed, \A i \in Objects : Sole(i)
               PROVE  NameKept'
    BY <1>1, <1>3 DEF NameKept, NameStays
  <2>0. name = o
    BY <1>1 DEF NameKept, NameStays, Creating, Before
  <2>1. \A i \in Objects : obj'[i].init # "none" => name' = i
    BY <1>1, <1>2, <2>0 DEF NameKept, NameStays
  <2>2. \A q \in Procs : Creating(q)' => name' = proc'[q].o
    BY <1>1, <1>2, <2>0 DEF NameKept, NameStays, Creating, Before
  <2>3. ASSUME NEW q \in Procs, proc'[q].pc = "opened", obj'[proc'[q].o].size = "zero",
               creators'[proc'[q].o] \subseteq {q}
        PROVE  name' = proc'[q].o
    BY <1>1, <1>2, <2>3 DEF NameKept, NameStays, StepsOrdered
  <2> QED
    BY <2>1, <2>2, <2>3 DEF NameKept, NameStays
<1>10. NeverWiped'
  <2>1. obj[o].records > 0 => ~Sole(o)
    BY <1>1 DEF FirstInitializes, Before, ObjectsGrow
  <2> QED
    BY <1>1, <1>3, <2>1 DEF NeverWiped, ATypeOK
<1> QED
  BY <1>4, <1>5, <1>6, <1>7, <1>8, <1>9, <1>10

LEMMA InitRestStep ==
  ASSUME AInd, NEW p \in Procs, InitRest(p)
  PROVE  AInd'
<1> USE DEF AInd
<1> DEFINE o == proc[p].o
<1>1. /\ proc[p].pc = "rings" /\ o \in Objects /\ obj[o].size = "region" /\ obj[o].init # "none"
      /\ obj' = [obj EXCEPT ![o].init = "done"]
      /\ proc' = [proc EXCEPT ![p].pc = "ok"]
      /\ UNCHANGED <<name, creators, wiped, removed, faults>>
  BY DEF InitRest, Goto, StepsOrdered
<1>2. /\ \A q \in Procs \ {p} : proc'[q] = proc[q]
      /\ proc'[p].pc = "ok" /\ proc'[p].o = o
      /\ \A i \in Objects : /\ obj'[i].size = obj[i].size
                            /\ obj'[i].init = "none" <=> obj[i].init = "none"
                            /\ i # o => obj'[i] = obj[i]
      /\ obj'[o].init = "done"
  BY <1>1 DEF ATypeOK
<1>3. \A i \in Objects : Sole(i)' <=> Sole(i)
  BY <1>1 DEF Sole
<1>4. ATypeOK'
  <2>1. obj' \in [Objects -> ObjRecord]
    BY <1>1 DEF ATypeOK, ObjRecord
  <2>2. proc' \in [Procs -> ProcRecord]
    BY <1>1 DEF ATypeOK, ProcRecord, Steps
  <2> QED
    BY <1>1, <2>1, <2>2 DEF ATypeOK, ProcRecord, ObjRecord
<1>5. \A q \in Procs : /\ Creating(q)' => q # p /\ Creating(q)
                       /\ Before(q)' => q # p /\ Before(q) /\ Creating(q)
  BY <1>2 DEF Creating, Before
<1>6. StepsOrdered'
  BY <1>1, <1>2, <1>5 DEF StepsOrdered
<1>7. WorkerAfterSupervisor'
  <2>1. "supervisor" \in Procs /\ "worker" \in Procs
    BY DEF Procs
  <2>2. proc["worker"].pc # "down" \/ proc'["worker"].pc = "down"
    BY <1>1, <1>2, <2>1
  <2>4. \A i \in Objects : obj[i].init # "none" => obj'[i].init # "none"
    BY <1>1, <1>2
  <2> QED
    BY <1>1, <1>3, <1>5, <2>1, <2>2, <2>4, WorkerKept
<1>8. ObjectsGrow'
  <2> SUFFICES ASSUME NEW i \in Objects, i # o
               PROVE  obj'[i].init = "identity" =>
                        obj'[i].cut \/ \E q \in Procs : proc'[q].pc = "rings" /\ proc'[q].o = i
    BY <1>1, <1>2 DEF ObjectsGrow
  <2>1. (\E q \in Procs : proc[q].pc = "rings" /\ proc[q].o = i)
          => \E q \in Procs : proc'[q].pc = "rings" /\ proc'[q].o = i
    BY <1>2
  <2> QED
    BY <1>2, <2>1 DEF ObjectsGrow
<1>9. FirstInitializes'
  <2> SUFFICES ASSUME NEW q \in Procs, Before(q)', Sole(proc[q].o)'
               PROVE  obj'[proc'[q].o].init = "none"
    BY DEF FirstInitializes
  <2>1. Before(q) /\ proc'[q].o = proc[q].o /\ proc[q].o \in Objects
    BY <1>2, <1>5 DEF StepsOrdered, Before
  <2> QED
    BY <1>2, <1>3, <2>1 DEF FirstInitializes
<1>10. NameKept'
  <2> SUFFICES ASSUME ~removed, \A i \in Objects : Sole(i)
               PROVE  NameKept'
    BY <1>1, <1>3 DEF NameKept, NameStays
  <2>1. \A i \in Objects : obj'[i].init # "none" => name' = i
    BY <1>1, <1>2 DEF NameKept, NameStays
  <2>2. \A q \in Procs : Creating(q)' => name' = proc'[q].o
    BY <1>1, <1>2, <1>5 DEF NameKept, NameStays
  <2>3. ASSUME NEW q \in Procs, proc'[q].pc = "opened", obj'[proc'[q].o].size = "zero",
               creators'[proc'[q].o] \subseteq {q}
        PROVE  name' = proc'[q].o
    BY <1>1, <1>2, <2>3 DEF NameKept, NameStays, StepsOrdered
  <2> QED
    BY <2>1, <2>2, <2>3 DEF NameKept, NameStays
<1>11. NeverWiped'
  BY <1>1, <1>3 DEF NeverWiped, ATypeOK
<1> QED
  BY <1>4, <1>6, <1>7, <1>8, <1>9, <1>10, <1>11

(* Work in the region: a record, a transfer.                                 *)
LEMMA WorkStep ==
  ASSUME AInd, Commit \/ Transfer
  PROVE  AInd'
<1> USE DEF AInd
<1>1. /\ UNCHANGED <<name, proc, creators, wiped, removed, faults>>
      /\ obj' \in [Objects -> ObjRecord]
      /\ \A i \in Objects : /\ obj'[i].size = obj[i].size /\ obj'[i].init = obj[i].init
                            /\ obj'[i].cut = obj[i].cut
                            /\ obj[i].init = "none" => obj'[i].records = obj[i].records
  <2>1. CASE Commit
    <3>1. "worker" \in Procs /\ proc["worker"].o \in Objects
          /\ obj[proc["worker"].o].init # "none"
      BY <2>1 DEF Commit, Attached, StepsOrdered, Procs
    <3> QED
      BY <2>1, <3>1 DEF Commit, ATypeOK, ObjRecord
  <2>2. CASE Transfer
    <3>1. "supervisor" \in Procs /\ proc["supervisor"].o \in Objects
      BY <2>2 DEF Transfer, Attached, StepsOrdered, Procs
    <3> DEFINE o == proc["supervisor"].o
               z == [obj[o] EXCEPT !.odd = ~obj[o].odd]
    <3>2. obj' = [obj EXCEPT ![o] = z] /\ UNCHANGED <<name, proc, creators, wiped, removed, faults>>
      BY <2>2 DEF Transfer
    <3>3. /\ z \in ObjRecord
          /\ z.size = obj[o].size /\ z.init = obj[o].init /\ z.cut = obj[o].cut
          /\ z.records = obj[o].records
      BY <3>1, OddKept DEF ATypeOK, ObjRecord
    <3>4. obj \in [Objects -> ObjRecord] /\ o \in Objects
      BY <3>1 DEF ATypeOK, ObjRecord
    <3> HIDE DEF z, o
    <3> QED
      BY <3>2, <3>3, <3>4
  <2> QED
    BY <2>1, <2>2
<1>2. \A i \in Objects : Sole(i)' <=> Sole(i)
  BY <1>1 DEF Sole
<1>3. ATypeOK'
  BY <1>1 DEF ATypeOK, ObjRecord
<1>4. \A q \in Procs : (Creating(q)' <=> Creating(q)) /\ (Before(q)' <=> Before(q))
  BY <1>1 DEF Creating, Before
<1>5. StepsOrdered' /\ WorkerAfterSupervisor'
  <2>1. StepsOrdered'
    BY <1>1, <1>4 DEF StepsOrdered
  <2>2. WorkerAfterSupervisor'
    BY <1>1, <1>2, <1>4, WorkerKept DEF Procs
  <2> QED
    BY <2>1, <2>2
<1>6. ObjectsGrow'
  <2> SUFFICES ASSUME NEW i \in Objects
               PROVE  /\ obj'[i].size = "none" => creators'[i] = {}
                      /\ obj'[i].size # "region" => obj'[i].init = "none"
                      /\ obj'[i].init = "none" => obj'[i].records = 0
                      /\ obj'[i].init = "identity" =>
                           obj'[i].cut \/ \E q \in Procs : proc'[q].pc = "rings" /\ proc'[q].o = i
    BY DEF ObjectsGrow
  <2>1. obj'[i].cut <=> obj[i].cut
    BY <1>1
  <2> QED
    BY <1>1, <2>1 DEF ObjectsGrow
<1>7. FirstInitializes'
  <2> SUFFICES ASSUME NEW q \in Procs, Before(q)', Sole(proc[q].o)'
               PROVE  obj'[proc'[q].o].init = "none"
    BY DEF FirstInitializes
  <2>1. Before(q) /\ proc'[q].o = proc[q].o /\ proc[q].o \in Objects
    BY <1>1, <1>4 DEF StepsOrdered, Before
  <2> QED
    BY <1>1, <1>2, <2>1 DEF FirstInitializes
<1>8. NameKept'
  <2> SUFFICES ASSUME ~removed, \A i \in Objects : Sole(i)
               PROVE  NameKept'
    BY <1>1, <1>2 DEF NameKept, NameStays
  <2>1. \A i \in Objects : obj'[i].init # "none" => name' = i
    BY <1>1 DEF NameKept, NameStays
  <2>2. \A q \in Procs : Creating(q)' => name' = proc'[q].o
    BY <1>1, <1>4 DEF NameKept, NameStays
  <2>3. ASSUME NEW q \in Procs, proc'[q].pc = "opened", obj'[proc'[q].o].size = "zero",
               creators'[proc'[q].o] \subseteq {q}
        PROVE  name' = proc'[q].o
    BY <1>1, <2>3 DEF NameKept, NameStays, StepsOrdered
  <2> QED
    BY <2>1, <2>2, <2>3 DEF NameKept, NameStays
<1>9. NeverWiped'
  BY <1>1, <1>2 DEF NeverWiped, ATypeOK
<1> QED
  BY <1>3, <1>5, <1>6, <1>7, <1>8, <1>9

(* A failed call: the rollback unlinks whatever the name is now.             *)
LEMMA CallFailsStep ==
  ASSUME AInd, NEW p \in Procs, CallFails(p)
  PROVE  AInd'
<1> USE DEF AInd
<1>1. /\ proc[p].pc \in {"opened", "truncate", "map"}
      /\ proc' = [proc EXCEPT ![p] = Detached]
      /\ name' = IF RollsBack(p) THEN None ELSE name
      /\ faults < MaxFaults /\ faults' = faults + 1
      /\ UNCHANGED <<obj, creators, wiped, removed>>
  BY DEF CallFails, Fail, Fault
<1>2. Detached \in ProcRecord /\ Detached.pc = "down"
  BY DEF Detached, ProcRecord, Steps
<1>3. (\A q \in Procs \ {p} : proc'[q] = proc[q]) /\ proc'[p] = Detached
  BY <1>1 DEF ATypeOK
<1>4. \A i \in Objects : Sole(i)' <=> Sole(i)
  BY <1>1 DEF Sole
<1>5. ATypeOK'
  <2>1. proc' \in [Procs -> ProcRecord]
    BY <1>1, <1>2 DEF ATypeOK, ProcRecord
  <2>2. faults' \in 0 .. MaxFaults
    BY <1>1, AttachAssumption DEF ATypeOK
  <2> QED
    BY <1>1, <2>1, <2>2 DEF ATypeOK, ProcRecord
<1>6. \A q \in Procs : /\ Creating(q)' => q # p /\ Creating(q)
                       /\ Before(q)' => q # p /\ Before(q) /\ Creating(q)
  BY <1>2, <1>3 DEF Creating, Before
<1>7. StepsOrdered'
  BY <1>1, <1>2, <1>3, <1>6 DEF StepsOrdered
<1>8. WorkerAfterSupervisor'
  <2>1. "supervisor" \in Procs /\ "worker" \in Procs
    BY DEF Procs
  <2>2. proc["worker"].pc # "down" \/ proc'["worker"].pc = "down"
    BY <1>2, <1>3, <2>1
  <2> QED
    BY <1>1, <1>4, <1>6, <2>1, <2>2, WorkerKept
<1>9. ObjectsGrow'
  <2>1. \A i \in Objects : (\E q \in Procs : proc[q].pc = "rings" /\ proc[q].o = i)
          => \E q \in Procs : proc'[q].pc = "rings" /\ proc'[q].o = i
    BY <1>1, <1>3
  <2> QED
    BY <1>1, <2>1 DEF ObjectsGrow
<1>10. FirstInitializes'
  <2> SUFFICES ASSUME NEW q \in Procs, Before(q)', Sole(proc[q].o)'
               PROVE  obj'[proc'[q].o].init = "none"
    BY DEF FirstInitializes
  <2>1. Before(q) /\ proc'[q].o = proc[q].o /\ proc[q].o \in Objects
    BY <1>3, <1>6 DEF StepsOrdered, Before
  <2> QED
    BY <1>1, <1>4, <2>1 DEF FirstInitializes
<1>11. NameKept'
  <2> SUFFICES ASSUME ~removed, \A i \in Objects : Sole(i)
               PROVE  NameKept'
    BY <1>1, <1>4 DEF NameKept, NameStays
  <2>0. ASSUME NEW i \in Objects, name = i, ~(name' = i)
        PROVE  Before(p) /\ i = proc[p].o /\ p \in creators[i] /\ obj[i].init = "none"
    <3>1. RollsBack(p)
      BY <1>1, <2>0
    <3>2. Before(p) /\ Creating(p)
      BY <1>1, <3>1 DEF RollsBack, StepsOrdered, Before, Creating
    <3>3. name = proc[p].o
      BY <3>2 DEF NameKept, NameStays
    <3> QED
      BY <2>0, <3>2, <3>3 DEF FirstInitializes, StepsOrdered
  <2>1. \A i \in Objects : obj'[i].init # "none" => name' = i
    BY <1>1, <2>0 DEF NameKept, NameStays
  <2>2. ASSUME NEW q \in Procs, Creating(q)'
        PROVE  name' = proc'[q].o
    <3>1. q # p /\ proc'[q].o = proc[q].o /\ proc[q].o \in Objects /\ name = proc[q].o
          /\ q \in creators[proc[q].o]
      BY <1>3, <1>6, <2>2 DEF NameKept, NameStays, StepsOrdered, Creating, Before
    <3> SUFFICES ASSUME ~(name' = proc[q].o) PROVE FALSE
      BY <3>1
    <3>2. p \in creators[proc[q].o]
      BY <2>0, <3>1
    <3> QED
      BY <3>1, <3>2, AtMostOne DEF Sole, ATypeOK
  <2>3. ASSUME NEW q \in Procs, proc'[q].pc = "opened", obj'[proc'[q].o].size = "zero",
               creators'[proc'[q].o] \subseteq {q}
        PROVE  name' = proc'[q].o
    <3>1. q # p /\ proc'[q] = proc[q] /\ proc[q].o \in Objects
      BY <1>2, <1>3, <2>3 DEF StepsOrdered
    <3>2. name = proc[q].o /\ creators[proc[q].o] \subseteq {q}
      BY <1>1, <2>3, <3>1 DEF NameKept, NameStays
    <3> QED
      BY <2>0, <3>1, <3>2
  <2> QED
    BY <2>1, <2>2, <2>3 DEF NameKept, NameStays
<1>12. NeverWiped'
  BY <1>1, <1>4 DEF NeverWiped, ATypeOK
<1> QED
  BY <1>5, <1>7, <1>8, <1>9, <1>10, <1>11, <1>12

(* A crash takes one process, and marks what it cuts short.                  *)
LEMMA CrashStep ==
  ASSUME AInd, NEW p \in Procs, Crash(p)
  PROVE  AInd'
<1> USE DEF AInd
<1> DEFINE Cuts(i) == proc[p].pc = "rings" /\ proc[p].o = i
<1>1. /\ proc' = [proc EXCEPT ![p] = Detached]
      /\ obj' = [i \in Objects |-> [obj[i] EXCEPT !.cut = @ \/ Cuts(i)]]
      /\ faults < MaxFaults /\ faults' = faults + 1
      /\ UNCHANGED <<name, creators, wiped, removed>>
  BY DEF Crash, Fail, Fault
<1>2. Detached \in ProcRecord /\ Detached.pc = "down"
  BY DEF Detached, ProcRecord, Steps
<1>a. \A i \in Objects : Cuts(i) \in BOOLEAN
  OBVIOUS
<1>3. \A q \in Procs : proc'[q] = IF q = p THEN Detached ELSE proc[q]
  BY <1>1 DEF ATypeOK
<1>4. ASSUME NEW i \in Objects
      PROVE  /\ obj'[i] \in ObjRecord
             /\ obj'[i].size = obj[i].size /\ obj'[i].init = obj[i].init
             /\ obj'[i].records = obj[i].records
             /\ obj[i].cut \/ Cuts(i) => obj'[i].cut
  <2>1. obj[i] \in ObjRecord
    BY DEF ATypeOK, ObjRecord
  <2> DEFINE b == (obj[i].cut \/ Cuts(i))
  <2>2. obj'[i] = [obj[i] EXCEPT !.cut = b] /\ b \in BOOLEAN
    BY <1>1
  <2>3. b <=> (obj[i].cut \/ Cuts(i))
    OBVIOUS
  <2> HIDE DEF b
  <2> QED
    BY <2>1, <2>2, <2>3, CutKept
<1> HIDE DEF Cuts
<1>5. \A i \in Objects : Sole(i)' <=> Sole(i)
  BY <1>1 DEF Sole
<1>6. ATypeOK'
  <2>1. obj' \in [Objects -> ObjRecord]
    BY <1>1, <1>4
  <2>2. proc' \in [Procs -> ProcRecord]
    BY <1>1, <1>2 DEF ATypeOK, ProcRecord
  <2>3. faults' \in 0 .. MaxFaults
    BY <1>1, AttachAssumption DEF ATypeOK
  <2> QED
    BY <1>1, <2>1, <2>2, <2>3 DEF ATypeOK, ProcRecord, ObjRecord
<1>7. \A q \in Procs : /\ proc'[q].pc # "down" => q # p /\ proc'[q] = proc[q]
                       /\ Creating(q)' => Creating(q) /\ q # p
                       /\ Before(q)' => Before(q) /\ q # p
  BY <1>2, <1>3 DEF Creating, Before
<1>8. StepsOrdered'
  <2> SUFFICES ASSUME NEW q \in Procs, proc'[q].pc # "down"
               PROVE  /\ proc'[q].pc \notin {"down", "forked", "present"} => proc'[q].o \in Objects
                      /\ proc'[q].pc = "forked" => q = "worker"
                      /\ proc'[q].pc = "opened" => ~proc'[q].fresh
                      /\ proc'[q].pc \in {"map", "initialize", "rings", "verify", "ok"}
                           => obj'[proc'[q].o].size = "region"
                      /\ proc'[q].pc \in {"rings", "ok"} => obj'[proc'[q].o].init # "none"
                      /\ Creating(q)' => q \in creators'[proc'[q].o]
    BY DEF StepsOrdered, Creating, Before
  <2> QED
    BY <1>1, <1>4, <1>7 DEF StepsOrdered
<1>9. WorkerAfterSupervisor'
  <2>1. "supervisor" \in Procs /\ "worker" \in Procs
    BY DEF Procs
  <2>2. proc["worker"].pc # "down" \/ proc'["worker"].pc = "down"
    BY <1>2, <1>3, <2>1
  <2> QED
    BY <1>1, <1>4, <1>5, <1>7, <2>1, <2>2, WorkerKept
<1>10. ObjectsGrow'
  <2> SUFFICES ASSUME NEW i \in Objects
               PROVE  /\ obj'[i].size = "none" => creators'[i] = {}
                      /\ obj'[i].size # "region" => obj'[i].init = "none"
                      /\ obj'[i].init = "none" => obj'[i].records = 0
                      /\ obj'[i].init = "identity" =>
                           obj'[i].cut \/ \E q \in Procs : proc'[q].pc = "rings" /\ proc'[q].o = i
    BY DEF ObjectsGrow
  <2>1. ASSUME NEW q \in Procs, proc[q].pc = "rings", proc[q].o = i
        PROVE  obj'[i].cut \/ \E r \in Procs : proc'[r].pc = "rings" /\ proc'[r].o = i
    <3>1. CASE q = p
      BY <1>4, <2>1, <3>1 DEF Cuts
    <3>2. CASE q # p
      BY <1>3, <2>1, <3>2
    <3> QED
      BY <3>1, <3>2
  <2>2. obj'[i].size = obj[i].size /\ obj'[i].init = obj[i].init /\ obj'[i].records = obj[i].records
        /\ creators'[i] = creators[i]
    BY <1>1, <1>4
  <2>3. obj[i].cut => obj'[i].cut
    BY <1>4
  <2>4. /\ obj[i].size = "none" => creators[i] = {}
        /\ obj[i].size # "region" => obj[i].init = "none"
        /\ obj[i].init = "none" => obj[i].records = 0
        /\ obj[i].init = "identity" =>
             obj[i].cut \/ \E q \in Procs : proc[q].pc = "rings" /\ proc[q].o = i
    BY DEF ObjectsGrow
  <2>5. obj'[i].init = "identity" =>
          obj'[i].cut \/ \E q \in Procs : proc'[q].pc = "rings" /\ proc'[q].o = i
    BY <2>1, <2>2, <2>3, <2>4
  <2> QED
    BY <2>2, <2>4, <2>5
<1>11. FirstInitializes'
  <2> SUFFICES ASSUME NEW q \in Procs, Before(q)', Sole(proc[q].o)'
               PROVE  obj'[proc'[q].o].init = "none"
    BY DEF FirstInitializes
  <2>1. Before(q) /\ proc'[q].o = proc[q].o /\ proc[q].o \in Objects
    BY <1>3, <1>7 DEF StepsOrdered, Before
  <2> QED
    BY <1>4, <1>5, <2>1 DEF FirstInitializes
<1>12. NameKept'
  <2> SUFFICES ASSUME ~removed, \A i \in Objects : Sole(i)
               PROVE  NameKept'
    BY <1>1, <1>5 DEF NameKept, NameStays
  <2>1. \A i \in Objects : obj'[i].init # "none" => name' = i
    BY <1>1, <1>4 DEF NameKept, NameStays
  <2>2. \A q \in Procs : Creating(q)' => name' = proc'[q].o
    BY <1>1, <1>3, <1>7 DEF NameKept, NameStays
  <2>3. ASSUME NEW q \in Procs, proc'[q].pc = "opened", obj'[proc'[q].o].size = "zero",
               creators'[proc'[q].o] \subseteq {q}
        PROVE  name' = proc'[q].o
    <3>1. proc'[q] = proc[q] /\ proc[q].o \in Objects
      BY <1>7, <2>3 DEF StepsOrdered
    <3> QED
      BY <1>1, <1>4, <2>3, <3>1 DEF NameKept, NameStays
  <2> QED
    BY <2>1, <2>2, <2>3 DEF NameKept, NameStays
<1>13. NeverWiped'
  BY <1>1, <1>5 DEF NeverWiped, ATypeOK
<1> QED
  BY <1>6, <1>8, <1>9, <1>10, <1>11, <1>12, <1>13

(* The name goes; whoever has the region mapped keeps it.                    *)
LEMMA DestroyStep ==
  ASSUME AInd, Destroy
  PROVE  AInd'
<1>1. /\ name' = None /\ removed' = TRUE /\ faults' \in 0 .. MaxFaults
      /\ UNCHANGED <<obj, proc, creators, wiped>>
  BY AttachAssumption DEF AInd, ATypeOK, Destroy, Fault
<1>2. ATypeOK'
  BY <1>1 DEF AInd, ATypeOK
<1>3. NameKept'
  BY <1>1 DEF NameKept, NameStays
<1>4. WorkerAfterSupervisor'
  BY <1>1 DEF AInd, WorkerAfterSupervisor, NameStays
<1> QED
  BY <1>1, <1>2, <1>3, <1>4 DEF AInd, StepsOrdered, ObjectsGrow, FirstInitializes,
     NeverWiped, Creating, Before, Sole

LEMMA AttachStep == AInd /\ [ANext]_avars => AInd'
<1> SUFFICES ASSUME AInd, [ANext]_avars PROVE AInd'
  OBVIOUS
<1>1. CASE UNCHANGED avars
  BY <1>1 DEF avars, AInd, ATypeOK, StepsOrdered, WorkerAfterSupervisor, ObjectsGrow,
     FirstInitializes, NameKept, NameStays, NeverWiped, Creating, Before, Attached, Sole
<1>2. CASE ANext
  <2>1. \E p \in Procs : TRUE
    BY DEF Procs
  <2> QED
    BY <1>2, <2>1, ShmOpenStep, FstatStep, FtruncateStep, OtherSteps, InitIdentityStep, InitRestStep,
       WorkStep, CallFailsStep, CrashStep, DestroyStep DEF ANext, create_or_open
<1> QED
  BY <1>1, <1>2

-----------------------------------------------------------------------------
(* The invariant of create_or_open, for any number of objects and faults.     *)
THEOREM AttachInvariant == ASpec => []AInd
BY AttachInit, AttachStep, PTL DEF ASpec

(* Nobody gets a handle on a region without identity, and a worker of the      *)
(* supervisor that created the region sees all of initialize as long as the     *)
(* name stays, through crashes and failed system calls at any point.           *)
THEOREM AttachVerified == ASpec => []HandlesOK
<1>1. AInd => HandlesOK
  <2> SUFFICES ASSUME AInd, NEW p \in Procs, Attached(p)
               PROVE  /\ obj[proc[p].o].init # "none"
                      /\ (p = "worker" /\ NameStays /\ creators[proc[p].o] = {"supervisor"}
                            /\ ~obj[proc[p].o].cut) => obj[proc[p].o].init = "done"
    BY DEF AInd, HandlesOK, HandlesVerified
  <2>1. proc[p].o \in Objects /\ obj[proc[p].o].init # "none"
    BY DEF AInd, StepsOrdered, Attached
  <2>2. ASSUME p = "worker", NameStays, creators[proc[p].o] = {"supervisor"}, ~obj[proc[p].o].cut
        PROVE  obj[proc[p].o].init = "done"
    <3>1. ~Creating("supervisor")
      BY <2>2 DEF AInd, WorkerAfterSupervisor, Attached
    <3>2. ASSUME NEW q \in Procs, proc[q].pc = "rings", proc[q].o = proc[p].o
          PROVE  FALSE
      BY <2>2, <3>1, <3>2 DEF AInd, StepsOrdered, Creating
    <3> QED
      BY <2>1, <2>2, <3>2 DEF AInd, ATypeOK, ObjectsGrow
  <2> QED
    BY <2>1, <2>2
<1> QED
  BY <1>1, AttachInvariant, PTL

(* create_or_open never initializes a region again that holds records, unless   *)
(* two processes found the same object empty.                                  *)
THEOREM AttachKeeps == ASpec => []NeverWiped
<1>1. AInd => NeverWiped
  BY DEF AInd
<1> QED
  BY <1>1, AttachInvariant, PTL

(* A supervisor and its worker are on one region as long as nobody removes the  *)
(* name and no object has two creators.                                        *)
THEOREM AttachOne == ASpec => []OneRegion
<1>1. AInd => OneRegion
  BY DEF AInd, OneRegion, NameKept, NameStays, StepsOrdered, Attached, Procs
<1> QED
  BY <1>1, AttachInvariant, PTL
=============================================================================
