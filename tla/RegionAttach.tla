---------------------------- MODULE RegionAttach ----------------------------
(* Creating, opening and losing the named shared-memory object:             *)
(* SharedRegionHandle::create_or_open one system call or store per step, by  *)
(* the supervisor, a worker it starts, the observability daemon and the      *)
(* ownership command, with the daemon's region probe and the epoch of an     *)
(* ownership transfer.  Mapping and object outlive the name, as in POSIX.    *)
EXTENDS Naturals, FiniteSets

CONSTANTS MaxObj,        \* objects that may be created
          MaxFaults      \* crashes, failed calls and removals of the name
ASSUME AttachAssumption == MaxObj \in Nat \ {0} /\ MaxFaults \in Nat

VARIABLES name,     \* object the name is linked to, or None
          obj,      \* object -> size, progress of initialize, epoch, records, and
                    \* whether its initialize was cut short (history)
          proc,     \* process -> step of create_or_open, object of its fd
          creators, \* object -> processes that found it empty (history)
          wiped,    \* objects initialized over committed records (history)
          removed,  \* the name was removed from outside (history)
          faults

avars == <<name, obj, proc, creators, wiped, removed, faults>>

Procs == {"supervisor", "worker", "daemon", "ownership"}
Objects == 1 .. MaxObj
None == 0

(* "down": not running or not attached.  "forked": a worker that has been      *)
(* started.  "present": the daemon has seen the name.  "ok": a valid handle.    *)
Steps == {"down", "forked", "present", "opened", "truncate", "map", "initialize", "rings",
          "verify", "ok"}

ATypeOK ==
  /\ name \in Objects \cup {None}
  /\ obj \in [Objects -> [size : {"none", "zero", "region", "foreign"},
                          init : {"none", "identity", "done"},
                          odd : BOOLEAN, records : 0 .. 1, cut : BOOLEAN]]
  /\ proc \in [Procs -> [pc : Steps, o : Objects \cup {None}, fresh : BOOLEAN]]
  /\ creators \in [Objects -> SUBSET Procs]
  /\ wiped \subseteq Objects /\ removed \in BOOLEAN /\ faults \in 0 .. MaxFaults

NoObj == [size |-> "none", init |-> "none", odd |-> FALSE, records |-> 0, cut |-> FALSE]
Detached == [pc |-> "down", o |-> None, fresh |-> FALSE]

(* The name is free, or left to an object of another program or layout.       *)
AInit ==
  /\ \E first \in {NoObj, [NoObj EXCEPT !.size = "foreign"], [NoObj EXCEPT !.size = "region"]} :
       /\ obj = [o \in Objects |-> IF o = 1 THEN first ELSE NoObj]
       /\ name = IF first = NoObj THEN None ELSE 1
  /\ proc = [p \in Procs |-> Detached]
  /\ creators = [o \in Objects |-> {}]
  /\ wiped = {} /\ removed = FALSE /\ faults = 0

Attached(p) == proc[p].pc = "ok"
MayStart(p) ==
  \/ proc[p].pc = "down" /\ p \in {"supervisor", "ownership"}
  \/ proc[p].pc = "forked" /\ p = "worker"
  \/ proc[p].pc = "present" /\ p = "daemon"
Goto(p, pc) == proc' = [proc EXCEPT ![p].pc = pc]
Fail(p) == proc' = [proc EXCEPT ![p] = Detached]
Fault == faults < MaxFaults /\ faults' = faults + 1

(* Variant: workers are started while the supervisor is still attaching.       *)
ForkEarly ==
  /\ proc["worker"].pc = "down" /\ proc["supervisor"].pc # "down"
  /\ Goto("worker", "forked")
  /\ UNCHANGED <<name, obj, creators, wiped, removed, faults>>
(* A worker (or the monitor) is started once the supervisor's own attach has    *)
(* returned; it survives the supervisor.                                       *)
Fork ==
  /\ proc["worker"].pc = "down" /\ Attached("supervisor")
  /\ Goto("worker", "forked")
  /\ UNCHANGED <<name, obj, creators, wiped, removed, faults>>

(* shm_open(O_RDWR | O_CREAT): no O_EXCL, so an existing object is opened.     *)
ShmOpen(p) ==
  /\ MayStart(p)
  /\ \/ /\ name # None
        /\ proc' = [proc EXCEPT ![p] = [pc |-> "opened", o |-> name, fresh |-> FALSE]]
        /\ UNCHANGED <<name, obj>>
     \/ /\ name = None
        /\ \E o \in Objects :
             /\ obj[o].size = "none" /\ \A i \in Objects : obj[i].size = "none" => o <= i
             /\ obj' = [obj EXCEPT ![o].size = "zero"]
             /\ name' = o
             /\ proc' = [proc EXCEPT ![p] = [pc |-> "opened", o |-> o, fresh |-> FALSE]]
  /\ UNCHANGED <<creators, wiped, removed, faults>>

(* Variant: an object that fails verify_identity is taken for a new one.       *)
FstatIgnoresSize(p) ==
  LET o == proc[p].o IN
  /\ proc[p].pc = "opened"
  /\ Goto(p, IF obj[o].init = "done" THEN "map" ELSE "truncate")
  /\ UNCHANGED <<name, obj, creators, wiped, removed, faults>>

(* fstat: the size decides between creating, verifying and refusing.           *)
Fstat(p) ==
  LET o == proc[p].o IN
  /\ proc[p].pc = "opened"
  /\ \/ obj[o].size = "zero" /\ Goto(p, "truncate")
        /\ creators' = [creators EXCEPT ![o] = @ \cup {p}]
     \/ obj[o].size = "region" /\ Goto(p, "map") /\ UNCHANGED creators
     \/ obj[o].size = "foreign" /\ Fail(p) /\ UNCHANGED creators
  /\ UNCHANGED <<name, obj, wiped, removed, faults>>

Ftruncate(p) ==
  /\ proc[p].pc = "truncate"
  /\ obj' = [obj EXCEPT ![proc[p].o].size = "region"]
  /\ proc' = [proc EXCEPT ![p].pc = "map", ![p].fresh = TRUE]
  /\ UNCHANGED <<name, creators, wiped, removed, faults>>

(* Variant: the name is unlinked also by a process that did not create it.      *)
RollsBackAlways(p) == TRUE
(* A failed call undoes the creation by name, whatever the name is now.         *)
RollsBack(p) == proc[p].pc = "truncate" \/ proc[p].fresh
CallFails(p) ==
  /\ proc[p].pc \in {"opened", "truncate", "map"}
  /\ name' = IF RollsBack(p) THEN None ELSE name
  /\ Fail(p) /\ Fault
  /\ UNCHANGED <<obj, creators, wiped, removed>>

Mmap(p) ==
  /\ proc[p].pc = "map"
  /\ Goto(p, IF proc[p].fresh THEN "initialize" ELSE "verify")
  /\ UNCHANGED <<name, obj, creators, wiped, removed, faults>>

(* initialize: identity, headers, tokens and the first rings; what               *)
(* verify_identity looks at is complete here.                                    *)
InitIdentity(p) ==
  LET o == proc[p].o IN
  /\ proc[p].pc = "initialize"
  /\ obj' = [obj EXCEPT ![o] = [@ EXCEPT !.init = "identity", !.odd = FALSE, !.records = 0]]
  /\ wiped' = IF obj[o].records > 0 THEN wiped \cup {o} ELSE wiped
  /\ Goto(p, "rings")
  /\ UNCHANGED <<name, creators, removed, faults>>

(* The last ring, status words, sequence and integrity word.                     *)
InitRest(p) ==
  /\ proc[p].pc = "rings"
  /\ obj' = [obj EXCEPT ![proc[p].o].init = "done"]
  /\ Goto(p, "ok")
  /\ UNCHANGED <<name, creators, wiped, removed, faults>>

verify_identity(o) == obj[o].init # "none" /\ ~obj[o].odd
VerifyIdentity(p) ==
  /\ proc[p].pc = "verify"
  /\ IF verify_identity(proc[p].o) THEN Goto(p, "ok") ELSE Fail(p)
  /\ UNCHANGED <<name, obj, creators, wiped, removed, faults>>

(* The ownership command prints the tokens and detaches.                         *)
Detach ==
  /\ Attached("ownership") /\ Fail("ownership")
  /\ UNCHANGED <<name, obj, creators, wiped, removed, faults>>
-----------------------------------------------------------------------------
(* probe_region and attach_now of the daemon.                                    *)
Exists ==
  /\ proc["daemon"].pc = "down" /\ name # None
  /\ Goto("daemon", "present")
  /\ UNCHANGED <<name, obj, creators, wiped, removed, faults>>

(* Variant: the mapping is kept as long as it verifies.                          *)
DroppedByIdentity == ~verify_identity(proc["daemon"].o)
(* A vanished name, or an identity that no longer verifies, drops the mapping;   *)
(* the handlers then see the zeroed sentinel.                                    *)
Dropped == name = None \/ ~verify_identity(proc["daemon"].o)
ProbeLost ==
  /\ Attached("daemon") /\ Dropped
  /\ Fail("daemon")
  /\ UNCHANGED <<name, obj, creators, wiped, removed, faults>>

(* A worker commits a record; the supervisor moves a ring.                       *)
Commit ==
  /\ Attached("worker") /\ obj[proc["worker"].o].records = 0
  /\ obj' = [obj EXCEPT ![proc["worker"].o].records = 1]
  /\ UNCHANGED <<name, proc, creators, wiped, removed, faults>>

Transfer ==
  /\ Attached("supervisor")
  /\ obj' = [obj EXCEPT ![proc["supervisor"].o].odd = ~@]
  /\ UNCHANGED <<name, proc, creators, wiped, removed, faults>>

(* A process dies, alone; what it had created stays.                            *)
Crash(p) ==
  /\ proc[p].pc # "down"
  /\ Fail(p)
  /\ obj' = [o \in Objects |->
               [obj[o] EXCEPT !.cut = @ \/ (proc[p].pc = "rings" /\ proc[p].o = o)]]
  /\ Fault /\ UNCHANGED <<name, creators, wiped, removed>>

(* destroy, an operator's rm, or the tmpfs of a rebuilt container.               *)
Destroy ==
  /\ name # None /\ name' = None /\ removed' = TRUE
  /\ Fault /\ UNCHANGED <<obj, proc, creators, wiped>>

create_or_open(p) ==
  \/ ShmOpen(p) \/ Fstat(p) \/ Ftruncate(p) \/ Mmap(p)
  \/ InitIdentity(p) \/ InitRest(p) \/ VerifyIdentity(p)

ANext ==
  \/ \E p \in Procs : create_or_open(p) \/ CallFails(p) \/ Crash(p)
  \/ Fork \/ Detach \/ Exists \/ ProbeLost \/ Commit \/ Transfer \/ Destroy

ASpec == AInit /\ [][ANext]_avars

(* A running daemon polls and a begun attach returns.                            *)
AFairSpec ==
  /\ ASpec
  /\ \A p \in Procs : WF_avars(proc[p].pc \notin {"down", "present"} /\ create_or_open(p))
  /\ WF_avars(Exists) /\ WF_avars(ShmOpen("daemon")) /\ WF_avars(ProbeLost)
-----------------------------------------------------------------------------
Sole(o) == Cardinality(creators[o]) <= 1

(* A region that holds records is initialized again only if two processes found  *)
(* the object empty: "existing ... never re-initialized" of create_or_open.       *)
NeverWiped == \A o \in wiped : ~Sole(o)

(* Nobody removed the name, and no second creator can have rolled it back.       *)
NameStays == ~removed /\ \A o \in Objects : Sole(o)

(* Nobody gets a handle on memory without identity, and a worker, which starts   *)
(* after the supervisor's attach, sees all of initialize, also when it outlives  *)
(* the supervisor, unless another process created the object, the supervisor     *)
(* died inside initialize, or the name came off.                                 *)
HandlesVerified ==
  \A p \in Procs : LET o == proc[p].o IN
    Attached(p) => /\ obj[o].init # "none"
                   /\ p = "worker" /\ NameStays /\ creators[o] = {"supervisor"} /\ ~obj[o].cut
                        => obj[o].init = "done"

(* Every handle is on a region whose identity has been verified, through crashes,  *)
(* failed calls and removals of the name at any system call.                       *)
HandlesOK == ATypeOK /\ HandlesVerified

(* Supervisor and worker work on one object, also a new supervisor with a worker  *)
(* of the last one, unless somebody removed the name or a second creator's        *)
(* rollback did.                                                                 *)
OneRegion ==
  Attached("supervisor") /\ Attached("worker") /\ NameStays
    => proc["supervisor"].o = proc["worker"].o

(* The daemon does not keep a mapping whose name stays away: it drops it, so that  *)
(* the handlers see the zeroed sentinel, or the name comes back.                  *)
VanishNoticed == []<>(name # None \/ ~Attached("daemon"))

Complete == name # None /\ obj[name].init = "done" /\ ~obj[name].odd

(* A daemon finds a region that stays complete and named: it is attached again   *)
(* and again, unless the supervisor died inside a transfer and the epoch stays   *)
(* odd; and what it is attached to is the object of the name, if the name never  *)
(* came off: probe_region does not compare the two.                              *)
DaemonAttaches ==
  <>[]Complete => []<>(Attached("daemon") /\ (NameStays => proc["daemon"].o = name))

(* What the daemon shows follows the region: it lets go of one that stays gone    *)
(* and finds the one that is there, which is the same object for as long as the   *)
(* name stays.                                                                   *)
DaemonFollows == VanishNoticed /\ DaemonAttaches

(* What the manual says of the daemon, "a stale view can never leak into a          *)
(* handler": it does not stay on an object that has lost the name to another one.  *)
NoStaleView == []<>(Attached("daemon") => proc["daemon"].o = name)
-----------------------------------------------------------------------------
(* The inductive invariant behind the safety properties.                         *)

(* Before the identity is written, and up to the end of initialize.              *)
Before(p) == proc[p].pc \in {"truncate", "initialize"} \/ (proc[p].pc = "map" /\ proc[p].fresh)
Creating(p) == Before(p) \/ proc[p].pc = "rings"

(* What a step of create_or_open may rely on.                                    *)
StepsOrdered ==
  \A p \in Procs : LET r == proc[p] IN
    /\ r.pc \notin {"down", "forked", "present"} => r.o \in Objects
    /\ r.pc = "forked" => p = "worker"
    /\ r.pc = "opened" => ~r.fresh
    /\ r.pc \in {"map", "initialize", "rings", "verify", "ok"} => obj[r.o].size = "region"
    /\ r.pc \in {"rings", "ok"} => obj[r.o].init # "none"
    /\ Creating(p) => p \in creators[r.o]

(* Where there is a worker a supervisor has attached, and does not create again.  *)
WorkerAfterSupervisor ==
  proc["worker"].pc # "down" =>
    /\ \E o \in Objects : obj[o].init # "none"
    /\ NameStays => ~Creating("supervisor")

ObjectsGrow ==
  \A o \in Objects :
    /\ obj[o].size = "none" => creators[o] = {}
    /\ obj[o].size # "region" => obj[o].init = "none"
    /\ obj[o].init = "none" => obj[o].records = 0
    /\ obj[o].init = "identity" =>
         obj[o].cut \/ \E p \in Procs : proc[p].pc = "rings" /\ proc[p].o = o

(* A sole creator initializes what nobody has initialized before.                *)
FirstInitializes ==
  \A p \in Procs : Before(p) /\ Sole(proc[p].o) => obj[proc[p].o].init = "none"

(* With one creator per object and nobody removing the name, the name stays with *)
(* the object that is being created or has been.                                 *)
NameKept ==
  NameStays =>
    /\ \A o \in Objects : obj[o].init # "none" => name = o
    /\ \A p \in Procs : Creating(p) => name = proc[p].o
    /\ \A p \in Procs : LET o == proc[p].o IN
         proc[p].pc = "opened" /\ obj[o].size = "zero" /\ creators[o] \subseteq {p} => name = o

AInd ==
  /\ ATypeOK /\ StepsOrdered /\ WorkerAfterSupervisor /\ ObjectsGrow
  /\ FirstInitializes /\ NameKept /\ NeverWiped
=============================================================================
